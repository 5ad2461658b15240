------------------------ MODULE MCExecutionSession ------------------------
(* ExecutionSession with a boot connect and up to two operator requests.   *)
EXTENDS ExecutionSession, TLC

CONSTANTS boot, post1, post2

OnePost  == {boot, post1}
TwoPosts == {boot, post1, post2}

(* The two operator requests are interchangeable.                          *)
Requests == Permutations({post1, post2})
=============================================================================
