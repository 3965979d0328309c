------------------------ MODULE MCContainerProgram ------------------------
EXTENDS ContainerProgram, TLC

CONSTANTS o1, o2, o3, o4

\* The first two are equal.
MCWorth == (o1 :> 1) @@ (o2 :> 1) @@ (o3 :> 2) @@ (o4 :> 3)
MCAnswers == {-1, 0, 1}
MCContents == {<<o4, o2>>, <<o3, o1, o4>>}
=============================================================================
