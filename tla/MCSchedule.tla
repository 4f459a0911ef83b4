---------------------------- MODULE MCSchedule ----------------------------
EXTENDS Schedule

\* Twice, three quarters and half as often.
MCClean == <<3, 2>>
MCSlow == <<3, 4>>
MCDanger == <<1, 2>>

\* In 1970, right, and ahead.
MCOffsets == {-2, 0, 3}
MCEpoch == 0
MCFloor == -6

\* So far ahead that a window written then outlives a whole interval.
MCFarOffsets == {0, 12}
MCFarFloor == -13
=============================================================================
