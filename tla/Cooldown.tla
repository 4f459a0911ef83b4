------------------------------- MODULE Cooldown -------------------------------
(***************************************************************************)
(* What reclaimd promises about reading a disk: a read that ends in a      *)
(* dropout or a near-hang earns the disk a window of rest, the schedule    *)
(* holds that window before the reader is gone, nothing but time, a forced *)
(* request or forgetting the disk shortens it, and no reader starts inside *)
(* it.                                                                     *)
(***************************************************************************)
EXTENDS Naturals

CONSTANTS Disk,     \* disk keys
          Windows   \* how long a window may be

VARIABLES reader,   \* nobody, somebody reading, somebody the disk failed under
          owed,     \* what is left of the rest the disk has earned
          window    \* what the schedule says is left of it
vars == <<reader, owed, window>>

Init == /\ reader = [k \in Disk |-> "none"]
        /\ owed = [k \in Disk |-> 0]
        /\ window = [k \in Disk |-> 0]

Begin(k) == /\ reader[k] = "none" /\ owed[k] = 0 /\ window[k] = 0
            /\ reader' = [reader EXCEPT ![k] = "reading"]
            /\ UNCHANGED <<owed, window>>

Hit(k) == /\ reader[k] = "reading"
          /\ reader' = [reader EXCEPT ![k] = "hit"]
          /\ \E w \in Windows \ {0} : owed' = [owed EXCEPT ![k] = w]
          /\ UNCHANGED window

\* Only ever lengthened.  A reader that nothing happened to may do it too: a
\* window that was overridden comes back with what progress.json kept of it.
Open(k) == /\ reader[k] # "none"
           /\ reader' = [reader EXCEPT ![k] = "reading"]
           /\ \E w \in Windows : /\ w >= owed[k] /\ w >= window[k]
                                 /\ window' = [window EXCEPT ![k] = w]
           /\ UNCHANGED owed

\* A reader the disk failed under does not leave without opening the window.
End(k) == /\ reader[k] = "reading"
          /\ reader' = [reader EXCEPT ![k] = "none"]
          /\ UNCHANGED <<owed, window>>

\* A forced request, which may start reading at once.
Override(k) == /\ reader[k] = "none"
               /\ owed' = [owed EXCEPT ![k] = 0]
               /\ window' = [window EXCEPT ![k] = 0]
               /\ reader' \in {reader, [reader EXCEPT ![k] = "reading"]}

Cleared(f, ks) == [k \in Disk |-> IF k \in ks THEN 0 ELSE f[k]]

\* Disks forgotten, by hand or because they left before they were adopted.
Forget(ks) == /\ \A k \in ks : reader[k] = "none"
              /\ owed' = Cleared(owed, ks)
              /\ window' = Cleared(window, ks)
              /\ UNCHANGED reader

Less(f) == [k \in Disk |-> IF f[k] = 0 THEN 0 ELSE f[k] - 1]
Tick == /\ owed' = Less(owed)
        /\ window' = Less(window)
        /\ UNCHANGED reader

\* The process dies, and of the rest a disk has earned it owes what was saved.
Die == /\ reader' = [k \in Disk |-> "none"]
       /\ window' \in [Disk -> Windows]
       /\ owed' \in [Disk -> Windows]
       /\ \A k \in Disk : owed'[k] <= owed[k] /\ owed'[k] <= window'[k]

Next == \/ \E k \in Disk : Begin(k) \/ Hit(k) \/ Open(k) \/ End(k) \/ Override(k)
        \/ \E ks \in SUBSET Disk : Forget(ks)
        \/ Tick \/ Die

Spec == Init /\ [][Next]_vars
=============================================================================
