----------------------------- MODULE MCSupervisor -----------------------------
(* Small instances of Supervisor: durations in clock ticks, with a dropout's *)
(* window longer than a near-hang's, and both no shorter than probation.     *)
EXTENDS Supervisor, TLC

MCCooldown == [near_hang |-> 1, dropout |-> 2]
MCDelay == [o \in Outcome |-> IF o \in {"clean", "slow"} THEN 2 ELSE 1]
MCSymmetry == Permutations(Ptr)

\* What a diskState holds that nothing refers to is never read again.
MCView == <<plugged, disks, [p \in Ptr |-> IF Free(p) THEN NoPtr ELSE <<st[p], job[p]>>],
            queue, toggles, file, grace, leaving, window, kept>>
=============================================================================
