---------------------------- MODULE ModemVersion ----------------------------
(***************************************************************************)
(* Whether a package may be installed over the modem's firmware: the       *)
(* assertion releasetools.py puts into a package, and the function         *)
(* nubia.verify_modem of recovery/recovery_updater.cpp, which looks for    *)
(* the build's time stamp in the modem's partition with a Boyer-Moore      *)
(* search of its own.                                                      *)
(*                                                                         *)
(* One step of the search is one place the pattern is laid at.  Indices    *)
(* are C's, from 0.  The stamp is the one byte behind the pattern, of the  *)
(* same alphabet, and a later time is a greater byte.                      *)
(*                                                                         *)
(* Abstracted: the failures of open, lseek and mmap (an abort, as when     *)
(* there is no stamp); the format of times.                                *)
(***************************************************************************)
EXTENDS Integers, Sequences, FiniteSetsExt

CONSTANTS
    Patterns,       \* what is looked for, sequences of bytes
    Images,         \* partitions, sequences of bytes
    Any, None,
    Requirement     \* what a line of android-info.txt may require: a time,
                    \* Any ("*"), or None, no such line

VARIABLES
    pattern, image,
    i,              \* where the pattern's last byte lies
    found,          \* the offset found; Nowhere at the end of the image
    package,        \* its requirements
    installed       \* "no", "yes", or "aborted"

vars == <<pattern, image, i, found, package, installed>>

Searching == -1
Nowhere == -2
Early == -1         \* what strptime leaves of a stamp that is none
pat_len == Len(pattern)
pat(k) == pattern[k + 1]
str(k) == image[k + 1]

Init ==
    /\ pattern \in Patterns /\ image \in Images
    /\ i = pat_len - 1 /\ found = Searching
    /\ package \in [modem : Requirement, firmware : Requirement]
    /\ installed = "no"

-----------------------------------------------------------------------------
(***************************************************************************)
(* The tables.                                                             *)
(***************************************************************************)
\* The length of the longest suffix of the pattern that ends on pat(p).
max_suffix_len(p) ==
    Min({k \in 0 .. p : k = p \/ pat(p - k) # pat(pat_len - 1 - k)})

\* Mutant: counted from the byte's first occurrence.
FromTheFirst(c) ==
    LET at == {k \in 0 .. pat_len - 2 : pat(k) = c}
    IN IF at = {} THEN pat_len ELSE pat_len - 1 - Min(at)

\* From the byte's last occurrence, before the end, to the end.
bm_make_delta1(c) ==
    LET at == {k \in 0 .. pat_len - 2 : pat(k) = c}
    IN IF at = {} THEN pat_len ELSE pat_len - 1 - Max(at)

isPrefix(p) == \A k \in p .. pat_len - 1 : pat(k) = pat(k - p)
last_prefix(p) ==
    LET at == {k \in p .. pat_len - 1 : isPrefix(k)}
    IN IF at = {} THEN pat_len - 1 ELSE Min(at) + 1

\* The places whose suffix ends in a mismatch at p.
mismatched(p) ==
    {k \in 0 .. pat_len - 2 :
        LET n == max_suffix_len(k)
        IN p = pat_len - 1 - n /\ pat(k - n) # pat(p)}

\* Mutant: the first such place is kept, not the last.
FirstKept(p) ==
    IF mismatched(p) = {} THEN last_prefix(p) + pat_len - 1 - p
    ELSE LET k == Min(mismatched(p)) IN pat_len - 1 - k + max_suffix_len(k)

\* From a mismatch at pat(p) to the end of the next place that may match.
bm_make_delta2(p) ==
    IF mismatched(p) = {} THEN last_prefix(p) + pat_len - 1 - p
    ELSE LET k == Max(mismatched(p)) IN pat_len - 1 - k + max_suffix_len(k)

-----------------------------------------------------------------------------
bm_search ==
    /\ found = Searching
    /\ LET start == i - (pat_len - 1)
           differs == {j \in 0 .. pat_len - 1 : str(start + j) # pat(j)}
       IN IF i >= Len(image) THEN found' = Nowhere /\ UNCHANGED i
          ELSE IF differs = {} THEN found' = start /\ UNCHANGED i
          ELSE LET j == Max(differs)
               IN /\ i' = start + j + Max({bm_make_delta1(str(start + j)), bm_make_delta2(j)})
                  /\ UNCHANGED found
    /\ UNCHANGED <<pattern, image, package, installed>>

\* The stamp behind the pattern at offset k.
stampAt(k) == IF k + pat_len < Len(image) THEN str(k + pat_len) ELSE Early

\* What the function answers to a list of times.
VerifyModemFn(times) ==
    IF found = Nowhere THEN "abort"
    ELSE IF \E t \in times : stampAt(found) >= t THEN "1" ELSE "0"

\* The times a package's assertion lists; none without an assertion.
AddModemAssertion ==
    IF package.firmware \notin {Any, None} THEN {package.modem} \ {Any, None} ELSE {}

\* The update script, run once the search has ended.
Install ==
    /\ found # Searching /\ installed = "no"
    /\ installed' =
         IF AddModemAssertion = {} \/ VerifyModemFn(AddModemAssertion) = "1"
         THEN "yes" ELSE "aborted"
    /\ UNCHANGED <<pattern, image, i, found, package>>

Next == bm_search \/ Install

Spec == Init /\ [][Next]_vars

-----------------------------------------------------------------------------
Occurrences ==
    {k \in 0 .. Len(image) - pat_len : \A j \in 0 .. pat_len - 1 : str(k + j) = pat(j)}

(***************************************************************************)
(* The search ends at the pattern's first occurrence, and nowhere only if  *)
(* there is none ("Boyer-Moore string search", bm_search), so that a       *)
(* package that requires a firmware is installed over one that is at least *)
(* as new and refused over any other.  True of patterns that do not end as *)
(* they begin, as the one that is used.                                    *)
(***************************************************************************)
FirmwareIsFound ==
    /\ found # Searching =>
         found = IF Occurrences = {} THEN Nowhere ELSE Min(Occurrences)
    /\ installed # "no" /\ package.firmware \notin {Any, None}
           /\ package.modem \notin {Any, None} =>
         LET newer == {k \in Occurrences : stampAt(k) >= package.modem}
         IN installed = "yes" <=> newer # {} /\ Min(newer) = Min(Occurrences)
=============================================================================
