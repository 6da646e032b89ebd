------------------------------- MODULE MCEnum -------------------------------
\* The model of EnumDB that TLC checks: bits and one ID of two bits, one bit that
\* BitMapToStrings does not look at, and a table whose pairs are not one-to-one.
EXTENDS EnumDB

MCIDs == {{1}, {2}, {3}, {1, 2}}
MCRows == [t \in Tables |->
              IF t = Shared THEN {<<{1}, "a">>} ELSE {<<{1}, "a">>, <<{1}, "b">>}]
=============================================================================
