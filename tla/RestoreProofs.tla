---------------------------- MODULE RestoreProofs ----------------------------
(***************************************************************************)
(* Proofs about DesktopRestore, for any number of directories, states and  *)
(* archives, process ends, failing operations and unfinished requests.     *)
(*                                                                         *)
(* Nothing is lost because a part is saved before it is displaced and      *)
(* displaced before it is replaced, so that what is displaced is never the *)
(* only copy (DisplacedIsSaved).  The difficulty is a directory that an    *)
(* interrupted swap left displaced: it is put back but not saved, for its  *)
(* existence was noted before; the start that displaced it had saved it    *)
(* (PutBackIsSaved).                                                       *)
(*                                                                         *)
(* Parts stay together because a start that reaches the swap finds every   *)
(* part pending, and what is pending stays until all of it is placed       *)
(* (TogetherInv); a rollback or a process end before is repeated.          *)
(***************************************************************************)
EXTENDS DesktopRestore, TLAPS

\* What the server ran with is live or in a snapshot: a displaced part, which
\* recovery may drop, is never the only copy.
RanIsKept ==
  \A p \in Parts, c \in States :
    <<p, c>> \in ran => live[p] = c \/ <<p, c>> \in snapshots

\* What is set aside, and what a rollback copies back, is in a snapshot.
DisplacedIsSaved ==
  /\ \A p \in Parts : displaced[p] \in States => <<p, displaced[p]>> \in snapshots
  /\ saved \in States => <<0, saved>> \in snapshots

\* The live content of a part, if it has one, is in a snapshot.
Saved(p) == live[p] \in States => <<p, live[p]>> \in snapshots

\* The parts this start has recovered, and the parts it has saved and not yet replaced.
Recovered(p) ==
  \/ at = "recover" /\ p < part
  \/ at = "unstage" /\ p <= part
  \/ at \in {"check", "save", "copy"}

SavedOnly(p) ==
  \/ at = "save" /\ p < part
  \/ at = "copy" /\ p = 0
  \/ at = "stage"
  \/ at = "clear" /\ p >= part
  \/ at = "place" /\ p > part

\* A directory that was put back is not saved again: it was when it was displaced.
PutBackIsSaved == \A p \in Dirs : Recovered(p) /\ ~existed[p] => Saved(p)

\* A part is saved before it is replaced.
SavedBeforeSwap == \A p \in Parts : SavedOnly(p) => Saved(p)

\* From the first staged copy on, nothing that ran depends on what is live.
Saving == {"stage", "rollback", "recopy"} \cup Swapping
AllSaved == at \in Saving => ran \subseteq snapshots

\* What EverythingKept needs.
KeptInv ==
  RanIsKept /\ DisplacedIsSaved /\ PutBackIsSaved /\ SavedBeforeSwap /\ AllSaved

\* The parts of one program.
Together(content) ==
  /\ content[0] \in States
  /\ \A p \in Dirs :
       content[p] = content[0] \/ (content[0] \in Works /\ content[p] = "none")

\* A request that was written to the end.
Complete == pending[0] \in Archives /\ \A p \in Dirs : pending[p] = pending[0]

\* What the steps do with complete requests: until the last part is placed everything
\* stays pending, and once the database is no longer pending all parts are one program's.
TogetherInv ==
  /\ at = "write" =>
       archive \in Archives /\ \A p \in Parts : p < part => pending[p] = archive
  /\ at # "write" => pending[0] = "none" \/ Complete
  /\ at \in {"running", "write", "finish"} \/ pending[0] = "none" =>
       Together(live) /\ \A p \in Parts : displaced[p] = "none"
  /\ at \in {"save", "copy", "recopy", "stage", "clear", "place", "drop"} => Complete
  /\ at = "stage" => \A p \in Parts : p < part => staged[p] = pending[p]
  /\ at \in {"clear", "place"} => \A p \in Parts :
       /\ p < part => live[p] = pending[p]
       /\ p >= part => staged[p] = pending[p]
  /\ at = "finish" /\ part > 0 => pending[0] = "none"
  /\ at = "drop" => \A p \in Parts :
       live[p] = pending[p] /\ (p < part => displaced[p] = "none")

RequestInv == breaks = 0 => TogetherInv

\* Only the database is copied.
PartInv == at \in {"copy", "recopy"} => part = 0

\* The inductive invariant.
RInv == TypeOK /\ PartInv /\ KeptInv /\ RequestInv

\* Every step keeps the types.
LEMMA StepTyped ==
  ASSUME TypeOK, PartInv, [Next]_vars
  PROVE  TypeOK' /\ PartInv'
<1> USE RestoreAssumption DEF TypeOK, PartInv, files, locals, counts, Contents, States,
        Parts, Dirs, Phases, Swapping
<1>1. ASSUME Start PROVE TypeOK' /\ PartInv'
  BY <1>1 DEF Start, Goto
<1>2. ASSUME Recover PROVE TypeOK' /\ PartInv'
  <2>1. at' \in Phases /\ part' \in Parts /\ (at' \in {"copy", "recopy"} => part' = 0)
    BY <1>2 DEF Recover, PutBack, Goto
  <2>2. live' \in [Parts -> Contents] /\ displaced' \in [Parts -> Contents]
    BY <1>2 DEF Recover, PutBack, Goto
  <2>3. existed' \in [Dirs -> BOOLEAN]
    BY <1>2 DEF Recover, PutBack, Goto
  <2> QED
    BY <1>2, <2>1, <2>2, <2>3 DEF Recover
<1>3. ASSUME RemoveStaged PROVE TypeOK' /\ PartInv'
  BY <1>3 DEF RemoveStaged, Goto
<1>4. ASSUME CheckPending PROVE TypeOK' /\ PartInv'
  BY <1>4 DEF CheckPending, Goto, Held
<1>5. ASSUME SaveCurrent PROVE TypeOK' /\ PartInv'
  <2>1. at' \in Phases /\ part' \in Parts /\ (at' \in {"copy", "recopy"} => part' = 0)
    BY <1>5 DEF SaveCurrent, MustSave, NextPart, Goto
  <2>2. live' \in [Parts -> Contents] /\ displaced' \in [Parts -> Contents]
    BY <1>5 DEF SaveCurrent, MustSave, NextPart, Goto
  <2>3. snapshots' \subseteq Parts \X Contents /\ saved' \in Contents
    BY <1>5 DEF SaveCurrent, MustSave, NextPart, Goto
  <2> QED
    BY <1>5, <2>1, <2>2, <2>3 DEF SaveCurrent
<1>6. ASSUME SaveRejects PROVE TypeOK' /\ PartInv'
  BY <1>6 DEF SaveRejects, Goto
<1>7. ASSUME CopyAside PROVE TypeOK' /\ PartInv'
  BY <1>7 DEF CopyAside, Goto
<1>8. ASSUME Stage PROVE TypeOK' /\ PartInv'
  BY <1>8 DEF Stage, NextPart, Goto
<1>9. ASSUME Clear PROVE TypeOK' /\ PartInv'
  <2>1. at' \in Phases /\ part' \in Parts /\ (at' \in {"copy", "recopy"} => part' = 0)
    BY <1>9 DEF Clear, Goto
  <2>2. live' \in [Parts -> Contents] /\ displaced' \in [Parts -> Contents]
    BY <1>9 DEF Clear, Goto
  <2>3. staged' = staged
    BY <1>9 DEF Clear, Goto
  <2> QED
    BY <1>9, <2>1, <2>2, <2>3 DEF Clear
<1>10. ASSUME Place PROVE TypeOK' /\ PartInv'
  <2>1. at' \in Phases /\ part' \in Parts /\ (at' \in {"copy", "recopy"} => part' = 0)
    BY <1>10 DEF Place, Goto
  <2>2. live' \in [Parts -> Contents] /\ displaced' \in [Parts -> Contents]
    BY <1>10 DEF Place, Goto
  <2>3. staged' \in [Parts -> Contents]
    BY <1>10 DEF Place, Goto
  <2> QED
    BY <1>10, <2>1, <2>2, <2>3 DEF Place
<1>11. ASSUME DropDisplaced PROVE TypeOK' /\ PartInv'
  BY <1>11 DEF DropDisplaced, NextPart, Goto
<1>12. ASSUME RemovePending PROVE TypeOK' /\ PartInv'
  BY <1>12 DEF RemovePending, NextPart, Goto, DatabaseFirst, Held
<1>13. ASSUME RollbackDatabase PROVE TypeOK' /\ PartInv'
  <2>1. at' \in Phases /\ part' \in Parts /\ (at' \in {"copy", "recopy"} => part' = 0)
    BY <1>13 DEF RollbackDatabase, RollbackNext, Goto, Nothing
  <2>2. live' \in [Parts -> Contents] /\ displaced' \in [Parts -> Contents]
    BY <1>13 DEF RollbackDatabase, RollbackNext, Goto, Nothing
  <2>3. staged' \in [Parts -> Contents]
    BY <1>13 DEF RollbackDatabase, RollbackNext, Goto, Nothing
  <2> QED
    BY <1>13, <2>1, <2>2, <2>3 DEF RollbackDatabase
<1>14. ASSUME CopyBack PROVE TypeOK' /\ PartInv'
  BY <1>14 DEF CopyBack, RollbackNext, Goto, Nothing
<1>15. ASSUME RollbackDirectory PROVE TypeOK' /\ PartInv'
  <2>1. at' \in Phases /\ part' \in Parts /\ (at' \in {"copy", "recopy"} => part' = 0)
    BY <1>15 DEF RollbackDirectory, RollbackNext, Goto, Nothing
  <2>2. /\ live' \in {live, [live EXCEPT ![part] = "none"],
                    [live EXCEPT ![part] = displaced[part]]}
        /\ displaced' \in {displaced, [displaced EXCEPT ![part] = "none"]}
    BY <1>15 DEF RollbackDirectory
  <2>a. part \in Parts /\ "none" \in Contents /\ displaced[part] \in Contents
    OBVIOUS
  <2>b. live \in [Parts -> Contents] /\ displaced \in [Parts -> Contents]
    OBVIOUS
  <2>3. live' \in [Parts -> Contents] /\ displaced' \in [Parts -> Contents]
    <3> HIDE DEF Contents, States, Parts, Dirs, TypeOK, Phases, PartInv
    <3>1. \A f \in [Parts -> Contents], c \in Contents :
            [f EXCEPT ![part] = c] \in [Parts -> Contents]
      BY <2>a
    <3> QED
      BY <2>2, <2>a, <2>b, <3>1
  <2>4. staged' \in [Parts -> Contents]
    BY <1>15 DEF RollbackDirectory, RollbackNext, Goto, Nothing
  <2> QED
    BY <1>15, <2>1, <2>2, <2>3, <2>4 DEF RollbackDirectory
<1>16. ASSUME Quit PROVE TypeOK' /\ PartInv'
  BY <1>16 DEF Quit, Goto
<1>17. ASSUME WritePart PROVE TypeOK' /\ PartInv'
  BY <1>17 DEF WritePart, NextPart, Goto
<1>18. ASSUME WriteBreaks PROVE TypeOK' /\ PartInv'
  BY <1>18 DEF WriteBreaks
<1>19. ASSUME SwapFails PROVE TypeOK' /\ PartInv'
  BY <1>19 DEF SwapFails, Goto, Swapping
<1>20. ASSUME Crash PROVE TypeOK' /\ PartInv'
  BY <1>20 DEF Crash, Goto
<1>21. ASSUME NEW w \in Works, Work(w) PROVE TypeOK' /\ PartInv'
  BY <1>21 DEF Work, Held
<1>22. ASSUME NEW a \in Archives, RequestRestore(a) PROVE TypeOK' /\ PartInv'
  BY <1>22 DEF RequestRestore, Goto
<1>23. ASSUME UNCHANGED vars PROVE TypeOK' /\ PartInv'
  BY <1>23 DEF vars
<1> QED
  BY <1>1, <1>2, <1>3, <1>4, <1>5, <1>6, <1>7, <1>8, <1>9, <1>10, <1>11, <1>12, <1>13,
     <1>14, <1>15, <1>16, <1>17, <1>18, <1>19, <1>20, <1>21, <1>22, <1>23 DEF Next,
     Startup

\* Every step that removes or replaces a part has saved it.
LEMMA StepKept ==
  ASSUME TypeOK, PartInv, KeptInv, [Next]_vars
  PROVE  KeptInv'
<1> USE RestoreAssumption DEF TypeOK, PartInv, KeptInv, RanIsKept, DisplacedIsSaved,
        Saved, Recovered, SavedOnly, PutBackIsSaved, SavedBeforeSwap, Saving, AllSaved,
        files, locals, counts, Contents, States, Parts, Dirs, Phases, Swapping
<1>1. ASSUME Start PROVE KeptInv'
  BY <1>1 DEF Start, Goto
<1>2. ASSUME Recover PROVE KeptInv'
  <2>1. /\ at = "recover" /\ at' = "unstage" /\ part' = part
        /\ UNCHANGED <<snapshots, saved, ran>>
    BY <1>2 DEF Recover, Goto
  <2>2. \A p \in Parts :
          /\ live'[p] = IF p = part /\ live[p] = "none" THEN displaced[p] ELSE live[p]
          /\ displaced'[p] = IF p = part THEN "none" ELSE displaced[p]
    BY <1>2 DEF Recover, PutBack
  <2>3. \A p \in Dirs : existed'[p] = IF p = part THEN live[p] # "none" ELSE existed[p]
    BY <1>2 DEF Recover
  <2>4. RanIsKept'
    BY <2>1, <2>2, <2>3
  <2>5. DisplacedIsSaved'
    BY <2>1, <2>2, <2>3
  <2>6. PutBackIsSaved'
    <3> SUFFICES ASSUME NEW p \in Dirs, p <= part, ~existed'[p], live'[p] \in States
                 PROVE  <<p, live'[p]>> \in snapshots'
      BY <2>1
    <3>1. CASE p = part
      <4>1. live'[p] = displaced[p]
        BY <2>2, <2>3, <3>1
      <4> QED
        BY <2>1, <4>1
    <3>2. CASE p # part
      <4>1. live'[p] = live[p] /\ ~existed[p] /\ Recovered(p)
        BY <2>1, <2>2, <2>3, <3>2
      <4>2. Saved(p)
        BY <4>1
      <4> QED
        BY <2>1, <4>1, <4>2
    <3> QED
      BY <3>1, <3>2
  <2>7. SavedBeforeSwap'
    BY <2>1, <2>2, <2>3
  <2>8. AllSaved'
    BY <2>1, <2>2, <2>3
  <2> QED
    BY <2>4, <2>5, <2>6, <2>7, <2>8
<1>3. ASSUME RemoveStaged PROVE KeptInv'
  BY <1>3 DEF RemoveStaged, Goto
<1>4. ASSUME CheckPending PROVE KeptInv'
  BY <1>4 DEF CheckPending, Goto, Held
<1>5. ASSUME SaveCurrent PROVE KeptInv'
  <2>1. /\ at = "save" /\ UNCHANGED <<live, existed, ran>>
        /\ at' = IF part = 0 /\ live[0] # "none" THEN "copy"
                 ELSE IF part < Directories THEN "save" ELSE "stage"
        /\ part' = IF part = 0 /\ live[0] # "none" THEN 0
                   ELSE IF part < Directories THEN part + 1 ELSE 0
    BY <1>5 DEF SaveCurrent, NextPart, Goto
  <2>2. /\ snapshots \subseteq snapshots'
        /\ live[part] # "none" /\ (part \in Dirs => existed[part]) =>
             <<part, live[part]>> \in snapshots'
        /\ saved' \in {saved, live[0]} /\ (saved' # saved => <<0, saved'>> \in snapshots')
    BY <1>5 DEF SaveCurrent, MustSave
  <2>3. \A p \in Parts : displaced'[p] \in {displaced[p], "partial"}
    BY <1>5 DEF SaveCurrent
  <2>4. RanIsKept'
    BY <2>1, <2>2, <2>3
  <2>5. DisplacedIsSaved'
    BY <2>1, <2>2, <2>3
  <2>a. \A p \in Parts : Saved(p) => Saved(p)'
    BY <2>1, <2>2
  <2>6. PutBackIsSaved'
    <3>1. \A p \in Dirs : p \in Parts /\ Recovered(p) /\ existed'[p] = existed[p]
      BY <2>1
    <3> QED
      BY <2>a, <3>1 DEF PutBackIsSaved
  <2>b. live[part] \in States => <<part, live[part]>> \in snapshots'
    <3> SUFFICES ASSUME live[part] \in States
                 PROVE  <<part, live[part]>> \in snapshots'
      OBVIOUS
    <3>1. CASE part \in Dirs => existed[part]
      <4>1. live[part] # "none"
        OBVIOUS
      <4> QED
        BY <2>2, <3>1, <4>1
    <3>2. CASE part \in Dirs /\ ~existed[part]
      <4>1. <<part, live[part]>> \in snapshots
        BY <2>1, <3>2
      <4> QED
        BY <2>2, <4>1
    <3> QED
      BY <3>1, <3>2
  <2>7. SavedBeforeSwap'
    <3> SUFFICES ASSUME NEW p \in Parts, SavedOnly(p)'
                 PROVE  Saved(p)'
      OBVIOUS
    <3>1. p = part \/ SavedOnly(p)
      BY <2>1
    <3> QED
      BY <2>1, <2>a, <2>b, <3>1
  <2>8. AllSaved'
    <3> SUFFICES ASSUME at' = "stage", NEW x \in ran
                 PROVE  x \in snapshots'
      BY <2>1
    <3>1. PICK p \in Parts, c \in States : x = <<p, c>>
      OBVIOUS
    <3>2. CASE live[p] = c
      BY <2>1, <2>7, <3>1, <3>2
    <3>3. CASE x \in snapshots
      BY <2>2, <3>3
    <3> QED
      BY <3>1, <3>2, <3>3
  <2> QED
    BY <2>4, <2>5, <2>6, <2>7, <2>8
<1>6. ASSUME SaveRejects PROVE KeptInv'
  BY <1>6 DEF SaveRejects, Goto
<1>7. ASSUME CopyAside PROVE KeptInv'
  <2>1. /\ at = "copy" /\ part = 0 /\ UNCHANGED <<live, snapshots, existed, saved, ran>>
        /\ at' = IF Directories > 0 THEN "save" ELSE "stage"
        /\ part' = IF Directories > 0 THEN 1 ELSE 0
    BY <1>7 DEF CopyAside, Goto
  <2>2. \A p \in Parts : displaced'[p] = IF p = 0 THEN saved ELSE displaced[p]
    BY <1>7 DEF CopyAside
  <2>3. \A p \in Parts : SavedOnly(p)' => p = 0 \/ SavedOnly(p)
    BY <2>1
  <2>4. RanIsKept'
    BY <2>1, <2>2, <2>3
  <2>5. DisplacedIsSaved'
    BY <2>1, <2>2, <2>3
  <2>6. PutBackIsSaved'
    BY <2>1, <2>2, <2>3
  <2>7. SavedBeforeSwap'
    BY <2>1, <2>2, <2>3
  <2>8. AllSaved'
    BY <2>1, <2>2, <2>3
  <2> QED
    BY <2>4, <2>5, <2>6, <2>7, <2>8
<1>8. ASSUME Stage PROVE KeptInv'
  BY <1>8 DEF Stage, NextPart, Goto
<1>9. ASSUME Clear PROVE KeptInv'
  <2>1. /\ at = "clear" /\ at' = "place" /\ part' = part
        /\ UNCHANGED <<snapshots, existed, saved, ran>>
    BY <1>9 DEF Clear, Goto
  <2>2. \A p \in Parts :
          /\ live'[p] = IF p = part THEN "none" ELSE live[p]
          /\ displaced'[p] \in {displaced[p]} \cup (IF p = part THEN {live[p]} ELSE {})
    BY <1>9 DEF Clear
  <2>3. ran \subseteq snapshots
    BY <2>1
  <2>4. RanIsKept'
    BY <2>1, <2>2, <2>3
  <2>5. DisplacedIsSaved'
    BY <2>1, <2>2, <2>3
  <2>6. PutBackIsSaved'
    BY <2>1, <2>2, <2>3
  <2>7. SavedBeforeSwap'
    BY <2>1, <2>2, <2>3
  <2>8. AllSaved'
    BY <2>1, <2>2, <2>3
  <2> QED
    BY <2>4, <2>5, <2>6, <2>7, <2>8
<1>10. ASSUME Place PROVE KeptInv'
  BY <1>10 DEF Place, Goto
<1>11. ASSUME DropDisplaced PROVE KeptInv'
  BY <1>11 DEF DropDisplaced, NextPart, Goto
<1>12. ASSUME RemovePending PROVE KeptInv'
  BY <1>12 DEF RemovePending, NextPart, Goto, DatabaseFirst, Held
<1>13. ASSUME RollbackDatabase PROVE KeptInv'
  BY <1>13 DEF RollbackDatabase, RollbackNext, Goto, Nothing
<1>14. ASSUME CopyBack PROVE KeptInv'
  BY <1>14 DEF CopyBack, RollbackNext, Goto, Nothing
<1>15. ASSUME RollbackDirectory PROVE KeptInv'
  BY <1>15 DEF RollbackDirectory, RollbackNext, Goto, Nothing
<1>16. ASSUME Quit PROVE KeptInv'
  BY <1>16 DEF Quit, Goto
<1>17. ASSUME WritePart PROVE KeptInv'
  BY <1>17 DEF WritePart, NextPart, Goto
<1>18. ASSUME WriteBreaks PROVE KeptInv'
  BY <1>18 DEF WriteBreaks
<1>19. ASSUME SwapFails PROVE KeptInv'
  BY <1>19 DEF SwapFails, Goto, Swapping
<1>20. ASSUME Crash PROVE KeptInv'
  BY <1>20 DEF Crash, Goto
<1>21. ASSUME NEW w \in Works, Work(w) PROVE KeptInv'
  BY <1>21 DEF Work, Held
<1>22. ASSUME NEW a \in Archives, RequestRestore(a) PROVE KeptInv'
  BY <1>22 DEF RequestRestore, Goto
<1>23. ASSUME UNCHANGED vars PROVE KeptInv'
  BY <1>23 DEF vars
<1> QED
  BY <1>1, <1>2, <1>3, <1>4, <1>5, <1>6, <1>7, <1>8, <1>9, <1>10, <1>11, <1>12, <1>13,
     <1>14, <1>15, <1>16, <1>17, <1>18, <1>19, <1>20, <1>21, <1>22, <1>23 DEF Next,
     Startup

\* Every step keeps the parts of one program together, if requests are complete.
LEMMA StepTogether ==
  ASSUME TypeOK, PartInv, RequestInv, [Next]_vars
  PROVE  RequestInv'
<1> USE RestoreAssumption DEF RequestInv, TypeOK, PartInv, TogetherInv, Together,
        Complete, files, locals, counts, Contents, States, Parts, Dirs, Phases, Swapping
<1>1. ASSUME Start PROVE RequestInv'
  BY <1>1 DEF Start, Goto
<1>2. ASSUME Recover PROVE RequestInv'
  <2>1. /\ at = "recover" /\ at' = "unstage"
        /\ UNCHANGED <<pending, staged, archive, breaks>>
    BY <1>2 DEF Recover, Goto
  <2>2. \A p \in Parts :
          /\ live'[p] = IF p = part /\ live[p] = "none" THEN displaced[p] ELSE live[p]
          /\ displaced'[p] = IF p = part THEN "none" ELSE displaced[p]
    BY <1>2 DEF Recover, PutBack
  <2> QED
    BY <2>1, <2>2
<1>3. ASSUME RemoveStaged PROVE RequestInv'
  BY <1>3 DEF RemoveStaged, Goto
<1>4. ASSUME CheckPending PROVE RequestInv'
  BY <1>4 DEF CheckPending, Goto, Held
<1>5. ASSUME SaveCurrent PROVE RequestInv'
  BY <1>5 DEF SaveCurrent, MustSave, NextPart, Goto
<1>6. ASSUME SaveRejects PROVE RequestInv'
  BY <1>6 DEF SaveRejects, Goto
<1>7. ASSUME CopyAside PROVE RequestInv'
  BY <1>7 DEF CopyAside, Goto
<1>8. ASSUME Stage PROVE RequestInv'
  BY <1>8 DEF Stage, NextPart, Goto
<1>9. ASSUME Clear PROVE RequestInv'
  BY <1>9 DEF Clear, Goto
<1>10. ASSUME Place PROVE RequestInv'
  BY <1>10 DEF Place, Goto
<1>11. ASSUME DropDisplaced PROVE RequestInv'
  BY <1>11 DEF DropDisplaced, NextPart, Goto
<1>12. ASSUME RemovePending PROVE RequestInv'
  BY <1>12 DEF RemovePending, NextPart, Goto, DatabaseFirst, Held
<1>13. ASSUME RollbackDatabase PROVE RequestInv'
  BY <1>13 DEF RollbackDatabase, RollbackNext, Goto, Nothing
<1>14. ASSUME CopyBack PROVE RequestInv'
  <2>1. /\ at = "recopy" /\ at' \in {"rollback", "stopped"}
        /\ UNCHANGED <<pending, breaks>>
        /\ live' = [live EXCEPT ![0] = saved]
    BY <1>14 DEF CopyBack, RollbackNext, Goto
  <2> QED
    BY <2>1
<1>15. ASSUME RollbackDirectory PROVE RequestInv'
  BY <1>15 DEF RollbackDirectory, RollbackNext, Goto, Nothing
<1>16. ASSUME Quit PROVE RequestInv'
  BY <1>16 DEF Quit, Goto
<1>17. ASSUME WritePart PROVE RequestInv'
  BY <1>17 DEF WritePart, NextPart, Goto
<1>18. ASSUME WriteBreaks PROVE RequestInv'
  BY <1>18 DEF WriteBreaks
<1>19. ASSUME SwapFails PROVE RequestInv'
  BY <1>19 DEF SwapFails, Goto, Swapping
<1>20. ASSUME Crash PROVE RequestInv'
  BY <1>20 DEF Crash, Goto
<1>21. ASSUME NEW w \in Works, Work(w) PROVE RequestInv'
  BY <1>21 DEF Work, Held
<1>22. ASSUME NEW a \in Archives, RequestRestore(a) PROVE RequestInv'
  BY <1>22 DEF RequestRestore, Goto
<1>23. ASSUME UNCHANGED vars PROVE RequestInv'
  BY <1>23 DEF vars
<1> QED
  BY <1>1, <1>2, <1>3, <1>4, <1>5, <1>6, <1>7, <1>8, <1>9, <1>10, <1>11, <1>12, <1>13,
     <1>14, <1>15, <1>16, <1>17, <1>18, <1>19, <1>20, <1>21, <1>22, <1>23 DEF Next,
     Startup

\* The application runs, nothing is set aside or pending.
LEMMA InitInv == Init => RInv
<1> SUFFICES ASSUME Init PROVE RInv
  OBVIOUS
<1> USE RestoreAssumption
    DEF Init, Nothing, Held, Contents, States, Parts, Dirs, Phases, Swapping
<1>1. live \in [Parts -> Contents] /\ live[0] \in Works
        /\ \A p \in Dirs : live[p] \in {live[0], "none"}
  OBVIOUS
<1>2. TypeOK
  <2>1. ran \subseteq Parts \X States
    BY <1>1
  <2> QED
    BY <1>1, <2>1 DEF TypeOK
<1>3. PartInv
  BY DEF PartInv
<1>4. KeptInv
  BY <1>1 DEF KeptInv, RanIsKept, DisplacedIsSaved, Recovered, SavedOnly,
    PutBackIsSaved, SavedBeforeSwap, Saving, AllSaved
<1>5. TogetherInv
  BY <1>1 DEF TogetherInv, Together
<1> QED
  BY <1>2, <1>3, <1>4, <1>5 DEF RInv, RequestInv

-----------------------------------------------------------------------------
\* The inductive invariant of restores, for every number of directories and archives.
THEOREM RestoreInvariant == Spec => []RInv
<1>1. Init => RInv
  BY InitInv
<1>2. RInv /\ [Next]_vars => RInv'
  BY StepTyped, StepKept, StepTogether DEF RInv
<1> QED
  BY <1>1, <1>2, PTL DEF Spec

\* Whatever the server ran with, and no work has overwritten, is live or in a recovery
\* snapshot at every step of every restore (EverythingKept).
THEOREM NothingRanIsLost == Spec => []EverythingKept
<1>1. RInv => EverythingKept
  <2> SUFFICES ASSUME RInv, NEW x \in ran
               PROVE  x \in Held(live) \cup snapshots
    BY DEF EverythingKept
  <2>1. PICK p \in Parts, c \in States : x = <<p, c>>
    BY DEF RInv, TypeOK
  <2>2. live[p] = c \/ x \in snapshots
    BY <2>1 DEF RInv, KeptInv, RanIsKept
  <2> QED
    BY <2>1, <2>2 DEF Held
<1> QED
  BY <1>1, RestoreInvariant, PTL

\* The types hold, and after complete requests the server never works with a mixture of
\* two programs (RestoreInv).
THEOREM NeverAMixture == Spec => []RestoreInv
<1>1. RInv => RestoreInv
  BY DEF RInv, RequestInv, RestoreInv, RequestsTogether, RestoredTogether, TogetherInv,
     Together
<1> QED
  BY <1>1, RestoreInvariant, PTL
=============================================================================
