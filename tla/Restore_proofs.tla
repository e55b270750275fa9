---------------------------- MODULE Restore_proofs ---------------------------
(***************************************************************************)
(* The restore keeps its promises, for every set of names, volumes and     *)
(* files, and any number of stops, failures and runs.                      *)
(*                                                                         *)
(* The file swap (FileSwap): the inductive invariant SwapInv is preserved  *)
(* by each action (one lemma per action: what it does, what it leaves      *)
(* alone, then the parts of SwapInv), and the safety properties follow.    *)
(*                                                                         *)
(* The whole run (Restore): it only does what FileSwap allows, since the   *)
(* journal and the marker row together tell recover whether the database   *)
(* was replaced (Marks); so what is shown of the files holds of it, and it *)
(* keeps the promise of RestoreContract; and what it reports is what       *)
(* happened to the database (Truth, Upgraded).                             *)
(*                                                                         *)
(* Stops inside the known windows are excluded, as in the runs: there the  *)
(* properties are false.                                                   *)
(***************************************************************************)
EXTENDS Restore, TLAPS

-----------------------------------------------------------------------------
(* The file swap.                                                          *)

\* What is shown of the latest attempt, whatever word takes its place.
LEMMA ReportTyped ==
  ASSUME FileTypeOK, NEW what \in Outcomes \union {"lost"}, report' = [report EXCEPT !.what = what]
  PROVE  report' \in [what : Outcomes \union {"lost"}, kept : BOOLEAN] /\ report'.what = what
BY DEF FileTypeOK

LEMMA NoneTyped == "none" \in Outcomes \union {"lost"}
BY DEF Outcomes

\* Saying an outcome leaves something said, whether or not it reached the disk.
LEMMA SayTyped ==
  ASSUME FileTypeOK, NEW what \in Outcomes, what # "none", Say(what)
  PROVE  /\ report' \in [what : Outcomes \union {"lost"}, kept : BOOLEAN]
         /\ report'.what \in {what, "lost"} /\ failures' \in 0 .. MaxFailures
<1>1. report \in [what : Outcomes \union {"lost"}, kept : BOOLEAN] /\ failures \in 0 .. MaxFailures
  BY DEF FileTypeOK
<1>2. CASE report' = [what |-> what, kept |-> TRUE] /\ UNCHANGED failures
  BY <1>1, <1>2
<1>3. CASE /\ failures < MaxFailures /\ failures' = failures + 1
           /\ report' = [report EXCEPT !.what = IF report.kept THEN "lost" ELSE what]
  BY <1>1, <1>3, FileSwapAssumption
<1>4. QED BY <1>2, <1>3 DEF Say

\* What is shown after a stop, and that a word already said is not unsaid.
LEMMA StopTyped ==
  ASSUME FileTypeOK, report' = [report EXCEPT !.what = AfterStop]
  PROVE  /\ report' \in [what : Outcomes \union {"lost"}, kept : BOOLEAN]
         /\ report'.what \in {report.what, "lost"}
         /\ report.what # "none" => report'.what # "none"
         /\ journal = "none" /\ op # "idle" => report'.what # "none"
<1>1. AfterStop \in Outcomes \union {"lost"} /\ AfterStop \in {report.what, "lost"}
  BY DEF AfterStop, FileTypeOK
<1>2. report'.what = AfterStop
  BY <1>1, ReportTyped
<1>3. QED BY <1>1, <1>2, ReportTyped DEF AfterStop

\* A run begins: nothing is unpacked, and the journal says so.
LEMMA BeginPreserves ==
  ASSUME SwapInv, Begin
  PROVE  SwapInv'
<1>1. /\ op = "idle" /\ runs < MaxRuns /\ runs' = runs + 1 /\ (\A v \in Volumes : Unreplaced(v))
      /\ committed' = FALSE /\ journal' = "preparing" /\ swaps' = {} /\ outcome' = "none" /\ op' = "clear"
      /\ step' = "none" /\ todo' = Volumes /\ report' = [report EXCEPT !.what = "none"]
  BY DEF Begin, Volumes, Go, FirstStep, NewAttempt
<1>2. /\ live' = live /\ new' = new /\ old' = old /\ newDir' = newDir /\ oldDir' = oldDir
      /\ movedOut' = movedOut /\ crashes' = crashes /\ failures' = failures
  BY DEF Begin, Volumes, Go, files, dirs
<1>3. FileTypeOK'
  <2>1. FileTypeOK /\ report' \in [what : Outcomes \union {"lost"}, kept : BOOLEAN]
    BY <1>1, ReportTyped, NoneTyped DEF SwapInv
  <2>2. runs' \in 0 .. MaxRuns
    BY <1>1, <2>1, FileSwapAssumption DEF FileTypeOK
  <2>3. op' \in Ops /\ step' \in Steps /\ outcome' \in Outcomes /\ todo' \subseteq Volumes
    BY <1>1 DEF Ops, Steps, Outcomes
  <2>4. QED BY <1>1, <1>2, <2>1, <2>2, <2>3 DEF FileTypeOK
<1>4. Shape'
  BY <1>1, <1>2, FileSwapAssumption, SMTT(20) DEF SwapInv, Shape, VolumeShape, Kept, Moved, Replaced, Untouched
<1>5. ReadyToFinish'
  BY <1>1, <1>2, FileSwapAssumption DEF SwapInv, ReadyToFinish, Armed
<1>6. NotReplaced'
  BY <1>1, <1>2, FileSwapAssumption DEF SwapInv, NotReplaced, Unreplaced, LeftInOld
<1>7. JournalTells' /\ Between' /\ Recorded' /\ OkDone'
  BY <1>1, <1>2 DEF SwapInv, JournalTells, Between, Recorded, OkDone, Recording
<1>8. Unpacking' /\ ApplyingTurn' /\ ApplyLoop' /\ FinishLoop' /\ ForwardLoop' /\ UndoLoop'
  BY <1>1, <1>2, SMTT(20) DEF SwapInv, Unpacking, ApplyingTurn, ApplyLoop, FinishLoop, ForwardLoop, UndoLoop
<1>9. QED BY <1>3, <1>4, <1>5, <1>6, <1>7, <1>8 DEF SwapInv

\* A refused run touches no file.
LEMMA RefuseEarlyPreserves ==
  ASSUME SwapInv, RefuseEarly
  PROVE  SwapInv'
<1>1. /\ op = "idle" /\ failures < MaxFailures /\ failures' = failures + 1
      /\ (\A v \in Volumes : Unreplaced(v)) /\ swaps' = {} /\ outcome' = "nothing_changed" /\ op' = "settle"
      /\ step' = "none" /\ todo' = {} /\ report' = [report EXCEPT !.what = "none"]
  BY DEF RefuseEarly, Volumes, Go, FirstStep, NewAttempt
<1>2. /\ crashes' = crashes /\ runs' = runs
  BY DEF RefuseEarly
<1>3. /\ live' = live /\ new' = new /\ old' = old /\ newDir' = newDir /\ oldDir' = oldDir
      /\ movedOut' = movedOut /\ journal' = journal /\ committed' = committed
  BY DEF RefuseEarly, files, dirs
<1>4. FileTypeOK'
  <2>1. FileTypeOK /\ report' \in [what : Outcomes \union {"lost"}, kept : BOOLEAN]
    BY <1>1, ReportTyped, NoneTyped DEF SwapInv
  <2>2. failures' \in 0 .. MaxFailures
    BY <1>1, <2>1, FileSwapAssumption DEF FileTypeOK
  <2>3. op' \in Ops /\ step' \in Steps /\ outcome' \in Outcomes
    BY <1>1 DEF Ops, Steps, Outcomes
  <2>4. QED BY <1>1, <1>2, <1>3, <2>1, <2>2, <2>3 DEF FileTypeOK
<1>5. Shape'
  BY <1>1, <1>2, <1>3, FileSwapAssumption, SMTT(20)
     DEF SwapInv, Shape, VolumeShape, Kept, Moved, Replaced, Untouched
<1>6. ReadyToFinish'
  BY <1>1, <1>2, <1>3, FileSwapAssumption, SMTT(20)
     DEF SwapInv, ReadyToFinish, Armed, Ready, Sweeping, AllThere, Kept, Replaced
<1>7. NotReplaced'
  BY <1>1, <1>2, <1>3, FileSwapAssumption DEF SwapInv, NotReplaced, Unreplaced, LeftInOld
<1>8. JournalTells' /\ Between' /\ Recorded' /\ OkDone'
  BY <1>1, <1>2, <1>3 DEF SwapInv, JournalTells, Between, Recorded, OkDone, Recording
<1>9. Unpacking' /\ ApplyingTurn' /\ ApplyLoop' /\ FinishLoop' /\ ForwardLoop' /\ UndoLoop'
  BY <1>1, <1>2, <1>3, SMTT(20)
     DEF SwapInv, Unpacking, ApplyingTurn, ApplyLoop, FinishLoop, ForwardLoop, UndoLoop
<1>10. QED BY <1>4, <1>5, <1>6, <1>7, <1>8, <1>9 DEF SwapInv

\* A run that gives up before unpacking has nothing to discard.
LEMMA PrepareFailsPreserves ==
  ASSUME SwapInv, PrepareFails
  PROVE  SwapInv'
<1>1. /\ op = "clear" /\ failures < MaxFailures /\ failures' = failures + 1 /\ outcome' = "nothing_changed"
      /\ op' = "discard" /\ step' = "sweep" /\ todo' = swaps
  BY DEF PrepareFails, GiveUp, Go, FirstStep
<1>2. /\ disk' = disk /\ swaps' = swaps /\ crashes' = crashes /\ runs' = runs
  BY DEF PrepareFails, GiveUp, Go, disk
<1>3. /\ live' = live /\ new' = new /\ old' = old /\ newDir' = newDir /\ oldDir' = oldDir
      /\ movedOut' = movedOut /\ journal' = journal /\ report' = report /\ committed' = committed
  BY <1>2 DEF disk, files, dirs
<1>4. FileTypeOK'
  BY <1>1, <1>2, <1>3, FileSwapAssumption DEF SwapInv, FileTypeOK, Ops, Steps, Outcomes
<1>5. Shape'
  BY <1>1, <1>2, <1>3, FileSwapAssumption, SMTT(20)
     DEF SwapInv, Shape, VolumeShape, Kept, Moved, Replaced, Untouched
<1>6. ReadyToFinish'
  BY <1>1, <1>2, <1>3, FileSwapAssumption, SMTT(20)
     DEF SwapInv, ReadyToFinish, Armed, Ready, Sweeping, AllThere, Kept, Replaced
<1>7. NotReplaced'
  BY <1>1, <1>2, <1>3, FileSwapAssumption
     DEF SwapInv, NotReplaced, NothingDone, Recording, Unreplaced, LeftInOld
<1>8. JournalTells' /\ Between' /\ Recorded' /\ OkDone'
  BY <1>1, <1>2, <1>3 DEF SwapInv, JournalTells, Between, Recorded, OkDone, Recording
<1>9. Unpacking' /\ ApplyingTurn' /\ ApplyLoop' /\ FinishLoop' /\ ForwardLoop' /\ UndoLoop'
  BY <1>1, <1>2, <1>3, SMTT(20)
     DEF SwapInv, Unpacking, ApplyingTurn, ApplyLoop, FinishLoop, ForwardLoop, UndoLoop
<1>10. QED BY <1>4, <1>5, <1>6, <1>7, <1>8, <1>9 DEF SwapInv

\* A refused clearing leaves OLD_DIR for a person to look at.
LEMMA ClearRefusedPreserves ==
  ASSUME SwapInv, NEW v \in Volumes, ClearRefused(v)
  PROVE  SwapInv'
<1>1. /\ op = "clear" /\ Turn(v) /\ outcome' = "nothing_changed" /\ op' = "discard" /\ step' = "sweep"
      /\ todo' = swaps
  BY DEF ClearRefused, Turn, GiveUp, Go, FirstStep
<1>2. /\ disk' = disk /\ swaps' = swaps /\ crashes' = crashes /\ failures' = failures /\ runs' = runs
  BY DEF ClearRefused, GiveUp, bounds, Go, disk
<1>3. /\ live' = live /\ new' = new /\ old' = old /\ newDir' = newDir /\ oldDir' = oldDir
      /\ movedOut' = movedOut /\ journal' = journal /\ report' = report /\ committed' = committed
  BY <1>2 DEF disk, files, dirs
<1>4. FileTypeOK'
  BY <1>1, <1>2, <1>3, FileSwapAssumption DEF SwapInv, FileTypeOK, Ops, Steps, Outcomes
<1>5. Shape'
  BY <1>1, <1>2, <1>3, FileSwapAssumption, SMTT(20)
     DEF SwapInv, Shape, VolumeShape, Kept, Moved, Replaced, Untouched
<1>6. ReadyToFinish'
  BY <1>1, <1>2, <1>3, FileSwapAssumption, SMTT(20)
     DEF SwapInv, ReadyToFinish, Armed, Ready, Sweeping, AllThere, Kept, Replaced
<1>7. NotReplaced'
  BY <1>1, <1>2, <1>3, FileSwapAssumption
     DEF SwapInv, NotReplaced, NothingDone, Recording, Unreplaced, LeftInOld
<1>8. JournalTells' /\ Between' /\ Recorded' /\ OkDone'
  BY <1>1, <1>2, <1>3 DEF SwapInv, JournalTells, Between, Recorded, OkDone, Recording
<1>9. Unpacking' /\ ApplyingTurn' /\ ApplyLoop' /\ FinishLoop' /\ ForwardLoop' /\ UndoLoop'
  BY <1>1, <1>2, <1>3, SMTT(20)
     DEF SwapInv, Unpacking, ApplyingTurn, ApplyLoop, FinishLoop, ForwardLoop, UndoLoop
<1>10. QED BY <1>4, <1>5, <1>6, <1>7, <1>8, <1>9 DEF SwapInv

\* Clearing a volume takes nothing that is not live as well.
LEMMA ClearPreserves ==
  ASSUME SwapInv, NEW v \in Volumes, Clear(v)
  PROVE  SwapInv'
<1>1. /\ op = "clear" /\ Turn(v) /\ ~LeftInOld(v) /\ new' = [new EXCEPT ![v] = Empty]
      /\ old' = [old EXCEPT ![v] = Empty] /\ newDir' = [newDir EXCEPT ![v] = FALSE]
      /\ oldDir' = [oldDir EXCEPT ![v] = FALSE] /\ movedOut' = [movedOut EXCEPT ![v] = FALSE]
      /\ todo' = todo \ {v} /\ step' = "none" /\ op' = op
  BY DEF Clear, Turn, Empty, NextVolume, FirstStep
<1>2. /\ live' = live /\ journal' = journal /\ report' = report /\ committed' = committed /\ swaps' = swaps
      /\ outcome' = outcome /\ crashes' = crashes /\ failures' = failures /\ runs' = runs
  BY DEF Clear, Empty, NextVolume, bounds
<1>3. FileTypeOK'
  BY <1>1, <1>2, FileSwapAssumption DEF SwapInv, FileTypeOK, Steps, Empty
<1>4. Shape'
  BY <1>1, <1>2, FileSwapAssumption, SMTT(20)
     DEF SwapInv, Shape, VolumeShape, Kept, Moved, Replaced, Untouched, FileTypeOK, IsEmpty, Empty, ApplyLoop,
         LeftInOld, Recording, OkDone, Recorded
<1>5. ReadyToFinish'
  BY <1>1, <1>2, FileSwapAssumption DEF SwapInv, ReadyToFinish, Armed, JournalTells
<1>6. NotReplaced'
  BY <1>1, <1>2, FileSwapAssumption DEF SwapInv, NotReplaced, NothingDone, Recording, Unreplaced, LeftInOld
<1>7. JournalTells' /\ Recorded' /\ OkDone'
  BY <1>1, <1>2 DEF SwapInv, JournalTells, Recorded, OkDone, Recording
<1>8. Between'
  BY <1>1, <1>2, FileSwapAssumption, SMTT(20)
     DEF SwapInv, Between, Untouched, JournalTells, FileTypeOK, IsEmpty, Empty, Unreplaced, NothingDone,
         NotReplaced
<1>9. Unpacking' /\ ApplyingTurn' /\ ApplyLoop' /\ FinishLoop' /\ ForwardLoop' /\ UndoLoop'
  BY <1>1, <1>2, SMTT(20) DEF SwapInv, Unpacking, ApplyingTurn, ApplyLoop, FinishLoop, ForwardLoop, UndoLoop
<1>10. QED BY <1>3, <1>4, <1>5, <1>6, <1>7, <1>8, <1>9 DEF SwapInv

\* With every volume cleared, unpacking starts from untouched volumes.
LEMMA ClearDonePreserves ==
  ASSUME SwapInv, ClearDone
  PROVE  SwapInv'
<1>1. /\ op = "clear" /\ todo = {} /\ op' = "unpack" /\ step' = "mkdir" /\ todo' = InArchive
  BY DEF ClearDone, Go, FirstStep
<1>2. /\ disk' = disk /\ swaps' = swaps /\ outcome' = outcome /\ crashes' = crashes /\ failures' = failures
      /\ runs' = runs
  BY DEF ClearDone, Go, bounds
<1>3. /\ live' = live /\ new' = new /\ old' = old /\ newDir' = newDir /\ oldDir' = oldDir
      /\ movedOut' = movedOut /\ journal' = journal /\ report' = report /\ committed' = committed
  BY <1>2 DEF disk, files, dirs
<1>4. FileTypeOK'
  BY <1>1, <1>2, <1>3, FileSwapAssumption DEF SwapInv, FileTypeOK, Ops, Steps
<1>5. Shape'
  BY <1>1, <1>2, <1>3, FileSwapAssumption, SMTT(20)
     DEF SwapInv, Shape, VolumeShape, Kept, Moved, Replaced, Untouched
<1>6. ReadyToFinish'
  BY <1>1, <1>2, <1>3, FileSwapAssumption, SMTT(20)
     DEF SwapInv, ReadyToFinish, Armed, Ready, Sweeping, AllThere, Kept, Replaced
<1>7. NotReplaced'
  BY <1>1, <1>2, <1>3, FileSwapAssumption
     DEF SwapInv, NotReplaced, NothingDone, Recording, Unreplaced, LeftInOld
<1>8. JournalTells' /\ Between' /\ Recorded' /\ OkDone'
  BY <1>1, <1>2, <1>3 DEF SwapInv, JournalTells, Between, Recorded, OkDone, Recording
<1>9. ApplyingTurn' /\ ApplyLoop' /\ FinishLoop' /\ ForwardLoop' /\ UndoLoop'
  BY <1>1, <1>2, <1>3 DEF SwapInv, ApplyingTurn, ApplyLoop, FinishLoop, ForwardLoop, UndoLoop
<1>10. Unpacking'
  BY <1>1, <1>2, <1>3, FileSwapAssumption DEF SwapInv, Unpacking, Untouched, Between
<1>11. QED BY <1>4, <1>5, <1>6, <1>7, <1>8, <1>9, <1>10 DEF SwapInv

\* NEW_DIR of the volume being unpacked is made.
LEMMA ExtractDirPreserves ==
  ASSUME SwapInv, NEW v \in Volumes, ExtractDir(v)
  PROVE  SwapInv'
<1>1. /\ op = "unpack" /\ Turn(v) /\ step = "mkdir" /\ newDir' = [newDir EXCEPT ![v] = TRUE] /\ step' = "in"
      /\ op' = op /\ todo' = todo
  BY DEF ExtractDir, Turn, AtStep
<1>2. /\ live' = live /\ new' = new /\ old' = old /\ oldDir' = oldDir /\ movedOut' = movedOut
      /\ journal' = journal /\ report' = report /\ committed' = committed /\ swaps' = swaps
      /\ outcome' = outcome /\ crashes' = crashes /\ failures' = failures /\ runs' = runs
  BY DEF ExtractDir, AtStep, files, bounds
<1>3. FileTypeOK'
  BY <1>1, <1>2, FileSwapAssumption DEF SwapInv, FileTypeOK, Steps
<1>4. Shape'
  BY <1>1, <1>2, FileSwapAssumption, SMTT(20)
     DEF SwapInv, Shape, VolumeShape, Kept, Replaced, Untouched, Turn, Unpacking
<1>5. ReadyToFinish'
  BY <1>1, <1>2, FileSwapAssumption DEF SwapInv, ReadyToFinish, Armed, JournalTells
<1>6. NotReplaced'
  BY <1>1, <1>2, FileSwapAssumption DEF SwapInv, NotReplaced, NothingDone, Recording, Unreplaced, LeftInOld
<1>7. JournalTells' /\ Between' /\ Recorded' /\ OkDone'
  BY <1>1, <1>2 DEF SwapInv, JournalTells, Between, Recorded, OkDone, Recording
<1>8. ApplyingTurn' /\ ApplyLoop' /\ FinishLoop' /\ ForwardLoop' /\ UndoLoop'
  BY <1>1, <1>2 DEF SwapInv, ApplyingTurn, ApplyLoop, FinishLoop, ForwardLoop, UndoLoop
<1>9. Unpacking'
  BY <1>1, <1>2, FileSwapAssumption DEF SwapInv, Unpacking, FileTypeOK, Turn, Volumes
<1>10. QED BY <1>3, <1>4, <1>5, <1>6, <1>7, <1>8, <1>9 DEF SwapInv

\* Unpacking an entry touches nothing live.
LEMMA ExtractPreserves ==
  ASSUME SwapInv, NEW v \in Volumes, NEW n \in Names, Extract(v, n)
  PROVE  SwapInv'
<1>1. /\ op = "unpack" /\ Turn(v) /\ step = "in" /\ n \in Archived[v]
      /\ new' = [new EXCEPT ![v][n] = "archived"]
  BY DEF Extract, Turn
<1>2. /\ live' = live /\ old' = old /\ newDir' = newDir /\ oldDir' = oldDir /\ movedOut' = movedOut
      /\ journal' = journal /\ report' = report /\ committed' = committed /\ op' = op /\ step' = step
      /\ todo' = todo /\ swaps' = swaps /\ outcome' = outcome /\ crashes' = crashes /\ failures' = failures
      /\ runs' = runs
  BY DEF Extract, dirs, memory, bounds
<1>3. FileTypeOK'
  BY <1>1, <1>2 DEF SwapInv, FileTypeOK
<1>4. Shape'
  BY <1>1, <1>2, FileSwapAssumption, SMTT(20)
     DEF SwapInv, Shape, VolumeShape, Kept, Replaced, Untouched, IsPrevious, IsArchived, Holds, Unpacking
<1>5. ReadyToFinish'
  BY <1>1, <1>2, FileSwapAssumption DEF SwapInv, ReadyToFinish, Armed, JournalTells
<1>6. NotReplaced'
  BY <1>1, <1>2, FileSwapAssumption DEF SwapInv, NotReplaced, NothingDone, Recording, Unreplaced, LeftInOld
<1>7. JournalTells' /\ Between' /\ Recorded' /\ OkDone'
  BY <1>1, <1>2 DEF SwapInv, JournalTells, Between, Recorded, OkDone, Recording
<1>8. ApplyingTurn' /\ ApplyLoop' /\ FinishLoop' /\ ForwardLoop' /\ UndoLoop'
  BY <1>1, <1>2 DEF SwapInv, ApplyingTurn, ApplyLoop, FinishLoop, ForwardLoop, UndoLoop
<1>9. Unpacking'
  BY <1>1, <1>2, FileSwapAssumption DEF SwapInv, Unpacking, IsArchived, Holds, Turn
<1>10. QED BY <1>3, <1>4, <1>5, <1>6, <1>7, <1>8, <1>9 DEF SwapInv

\* A volume joins `swaps` once NEW_DIR holds all of the archive.
LEMMA ExtractedPreserves ==
  ASSUME SwapInv, NEW v \in Volumes, Extracted(v)
  PROVE  SwapInv'
<1>1. /\ op = "unpack" /\ Turn(v) /\ step = "in" /\ IsArchived(new[v], v) /\ swaps' = swaps \union {v}
      /\ todo' = todo \ {v} /\ step' = "mkdir" /\ op' = op
  BY DEF Extracted, Turn, NextVolume, FirstStep
<1>2. /\ disk' = disk /\ outcome' = outcome /\ crashes' = crashes /\ failures' = failures /\ runs' = runs
  BY DEF Extracted, NextVolume, bounds
<1>3. /\ live' = live /\ new' = new /\ old' = old /\ newDir' = newDir /\ oldDir' = oldDir
      /\ movedOut' = movedOut /\ journal' = journal /\ report' = report /\ committed' = committed
  BY <1>2 DEF disk, files, dirs
<1>4. FileTypeOK'
  BY <1>1, <1>2, <1>3, FileSwapAssumption DEF SwapInv, FileTypeOK, Steps, Turn, Unpacking
<1>5. Shape'
  BY <1>1, <1>2, <1>3, FileSwapAssumption, SMTT(20)
     DEF SwapInv, Shape, VolumeShape, Kept, Moved, Replaced, Untouched
<1>6. ReadyToFinish'
  BY <1>1, <1>2, <1>3, FileSwapAssumption, SMTT(20)
     DEF SwapInv, ReadyToFinish, Armed, Ready, Sweeping, AllThere, Kept, Replaced
<1>7. NotReplaced'
  BY <1>1, <1>2, <1>3, FileSwapAssumption
     DEF SwapInv, NotReplaced, NothingDone, Recording, Unreplaced, LeftInOld
<1>8. JournalTells' /\ Between' /\ Recorded' /\ OkDone'
  BY <1>1, <1>2, <1>3 DEF SwapInv, JournalTells, Between, Recorded, OkDone, Recording
<1>9. ApplyingTurn' /\ ApplyLoop' /\ FinishLoop' /\ ForwardLoop' /\ UndoLoop'
  BY <1>1, <1>2, <1>3 DEF SwapInv, ApplyingTurn, ApplyLoop, FinishLoop, ForwardLoop, UndoLoop
<1>10. Unpacking'
  BY <1>1, <1>2, <1>3, FileSwapAssumption DEF SwapInv, Unpacking, Turn
<1>11. QED BY <1>4, <1>5, <1>6, <1>7, <1>8, <1>9, <1>10 DEF SwapInv

\* What was wholly unpacked is discarded.
LEMMA UnpackFailsPreserves ==
  ASSUME SwapInv, NEW v \in Volumes, UnpackFails(v)
  PROVE  SwapInv'
<1>1. /\ op = "unpack" /\ Turn(v) /\ failures < MaxFailures /\ failures' = failures + 1
      /\ outcome' = "nothing_changed" /\ op' = "discard" /\ step' = "sweep" /\ todo' = swaps
  BY DEF UnpackFails, Turn, GiveUp, Go, FirstStep
<1>2. /\ disk' = disk /\ swaps' = swaps /\ crashes' = crashes /\ runs' = runs
  BY DEF UnpackFails, GiveUp, Go, disk
<1>3. /\ live' = live /\ new' = new /\ old' = old /\ newDir' = newDir /\ oldDir' = oldDir
      /\ movedOut' = movedOut /\ journal' = journal /\ report' = report /\ committed' = committed
  BY <1>2 DEF disk, files, dirs
<1>4. FileTypeOK'
  BY <1>1, <1>2, <1>3, FileSwapAssumption DEF SwapInv, FileTypeOK, Ops, Steps, Outcomes
<1>5. Shape'
  BY <1>1, <1>2, <1>3, FileSwapAssumption, SMTT(20)
     DEF SwapInv, Shape, VolumeShape, Kept, Moved, Replaced, Untouched
<1>6. ReadyToFinish'
  BY <1>1, <1>2, <1>3, FileSwapAssumption, SMTT(20)
     DEF SwapInv, ReadyToFinish, Armed, Ready, Sweeping, AllThere, Kept, Replaced
<1>7. NotReplaced'
  BY <1>1, <1>2, <1>3, FileSwapAssumption
     DEF SwapInv, NotReplaced, NothingDone, Recording, Unreplaced, LeftInOld
<1>8. JournalTells' /\ Between' /\ Recorded' /\ OkDone'
  BY <1>1, <1>2, <1>3 DEF SwapInv, JournalTells, Between, Recorded, OkDone, Recording
<1>9. Unpacking' /\ ApplyingTurn' /\ ApplyLoop' /\ FinishLoop' /\ ForwardLoop' /\ UndoLoop'
  BY <1>1, <1>2, <1>3, SMTT(20)
     DEF SwapInv, Unpacking, ApplyingTurn, ApplyLoop, FinishLoop, ForwardLoop, UndoLoop
<1>10. QED BY <1>4, <1>5, <1>6, <1>7, <1>8, <1>9 DEF SwapInv

\* Every volume of the archive is ready when the database step begins.
LEMMA UnpackDonePreserves ==
  ASSUME SwapInv, UnpackDone
  PROVE  SwapInv'
<1>1. /\ op = "unpack" /\ todo = {} /\ op' = "database" /\ step' = "none" /\ todo' = {}
  BY DEF UnpackDone, Go, FirstStep
<1>2. /\ disk' = disk /\ swaps' = swaps /\ outcome' = outcome /\ crashes' = crashes /\ failures' = failures
      /\ runs' = runs
  BY DEF UnpackDone, Go, bounds
<1>3. /\ live' = live /\ new' = new /\ old' = old /\ newDir' = newDir /\ oldDir' = oldDir
      /\ movedOut' = movedOut /\ journal' = journal /\ report' = report /\ committed' = committed
  BY <1>2 DEF disk, files, dirs
<1>4. FileTypeOK'
  BY <1>1, <1>2, <1>3, FileSwapAssumption DEF SwapInv, FileTypeOK, Ops, Steps
<1>5. Shape'
  BY <1>1, <1>2, <1>3, FileSwapAssumption, SMTT(20)
     DEF SwapInv, Shape, VolumeShape, Kept, Moved, Replaced, Untouched
<1>6. ReadyToFinish'
  BY <1>1, <1>2, <1>3, FileSwapAssumption, SMTT(20)
     DEF SwapInv, ReadyToFinish, Ready, Kept, IsPrevious, IsEmpty, Holds, Unpacking
<1>7. NotReplaced'
  BY <1>1, <1>2, <1>3, FileSwapAssumption
     DEF SwapInv, NotReplaced, NothingDone, Recording, Unreplaced, LeftInOld
<1>8. JournalTells' /\ Between' /\ Recorded' /\ OkDone'
  BY <1>1, <1>2, <1>3, SMTT(20) DEF SwapInv, JournalTells, Between, Unpacking, Recorded, OkDone, Recording
<1>9. Unpacking' /\ ApplyingTurn' /\ ApplyLoop' /\ FinishLoop' /\ ForwardLoop' /\ UndoLoop'
  BY <1>1, <1>2, <1>3, SMTT(20)
     DEF SwapInv, Unpacking, ApplyingTurn, ApplyLoop, FinishLoop, ForwardLoop, UndoLoop
<1>10. QED BY <1>4, <1>5, <1>6, <1>7, <1>8, <1>9 DEF SwapInv

\* The journal asks the database.
LEMMA JournalDatabasePreserves ==
  ASSUME SwapInv, JournalDatabase
  PROVE  SwapInv'
<1>1. /\ op = "database" /\ ~committed /\ journal' = "database"
  BY DEF JournalDatabase
<1>2. /\ live' = live /\ new' = new /\ old' = old /\ newDir' = newDir /\ oldDir' = oldDir
      /\ movedOut' = movedOut /\ report' = report /\ committed' = committed /\ op' = op /\ step' = step
      /\ todo' = todo /\ swaps' = swaps /\ outcome' = outcome /\ crashes' = crashes /\ failures' = failures
      /\ runs' = runs
  BY DEF JournalDatabase, files, dirs, memory, bounds
<1>3. FileTypeOK'
  BY <1>1, <1>2 DEF SwapInv, FileTypeOK
<1>4. Shape'
  BY <1>1, <1>2, FileSwapAssumption, SMTT(20) DEF SwapInv, Shape, VolumeShape, Kept, Moved, Replaced, Untouched
<1>5. ReadyToFinish'
  BY <1>1, <1>2, FileSwapAssumption, SMTT(20)
     DEF SwapInv, ReadyToFinish, Armed, Ready, Sweeping, AllThere, Kept, Replaced
<1>6. NotReplaced'
  BY <1>1, <1>2, FileSwapAssumption DEF SwapInv, NotReplaced, NothingDone, Unreplaced, LeftInOld, JournalTells
<1>7. JournalTells' /\ Between' /\ Recorded' /\ OkDone'
  BY <1>1, <1>2 DEF SwapInv, JournalTells, Between, Recorded, OkDone, Recording
<1>8. Unpacking' /\ ApplyingTurn' /\ ApplyLoop' /\ FinishLoop' /\ ForwardLoop' /\ UndoLoop'
  BY <1>1, <1>2, SMTT(20) DEF SwapInv, Unpacking, ApplyingTurn, ApplyLoop, FinishLoop, ForwardLoop, UndoLoop
<1>9. QED BY <1>3, <1>4, <1>5, <1>6, <1>7, <1>8 DEF SwapInv

\* An unreplaced database discards what was unpacked.
LEMMA DatabaseFailsPreserves ==
  ASSUME SwapInv, UnsafeCrashes = {}, DatabaseFails
  PROVE  SwapInv'
<1>1. /\ op = "database" /\ ~committed /\ outcome' \in {"nothing_changed", "partial"} /\ op' = "discard"
      /\ step' = "sweep" /\ todo' = swaps
  BY DEF DatabaseFails, GiveUp, Go, FirstStep
<1>2. /\ disk' = disk /\ swaps' = swaps /\ crashes' = crashes /\ failures' = failures /\ runs' = runs
  BY DEF DatabaseFails, GiveUp, bounds, Go, disk
<1>3. /\ live' = live /\ new' = new /\ old' = old /\ newDir' = newDir /\ oldDir' = oldDir
      /\ movedOut' = movedOut /\ journal' = journal /\ report' = report /\ committed' = committed
  BY <1>2 DEF disk, files, dirs
<1>4. FileTypeOK'
  BY <1>1, <1>2, <1>3, FileSwapAssumption DEF SwapInv, FileTypeOK, Ops, Steps, Outcomes
<1>5. Shape'
  BY <1>1, <1>2, <1>3, FileSwapAssumption, SMTT(20)
     DEF SwapInv, Shape, VolumeShape, Kept, Moved, Replaced, Untouched
<1>6. ReadyToFinish'
  BY <1>1, <1>2, <1>3, FileSwapAssumption, SMTT(20)
     DEF SwapInv, ReadyToFinish, Armed, Ready, Sweeping, AllThere, Kept, Replaced
<1>7. NotReplaced'
  BY <1>1, <1>2, <1>3, FileSwapAssumption
     DEF SwapInv, NotReplaced, NothingDone, Recording, Unreplaced, LeftInOld
<1>8. JournalTells' /\ Between' /\ Recorded' /\ OkDone'
  BY <1>1, <1>2, <1>3 DEF SwapInv, JournalTells, Between, Recorded, OkDone, Recording
<1>9. Unpacking' /\ ApplyingTurn' /\ ApplyLoop' /\ FinishLoop' /\ ForwardLoop' /\ UndoLoop'
  BY <1>1, <1>2, <1>3, SMTT(20)
     DEF SwapInv, Unpacking, ApplyingTurn, ApplyLoop, FinishLoop, ForwardLoop, UndoLoop
<1>10. QED BY <1>4, <1>5, <1>6, <1>7, <1>8, <1>9 DEF SwapInv

\* From here on the swap is what has to be finished.
LEMMA DatabaseCommitsPreserves ==
  ASSUME SwapInv, DatabaseCommits
  PROVE  SwapInv'
<1>1. /\ op = "database" /\ ~committed /\ journal = "database" /\ committed' = TRUE
  BY DEF DatabaseCommits
<1>2. /\ live' = live /\ new' = new /\ old' = old /\ newDir' = newDir /\ oldDir' = oldDir
      /\ movedOut' = movedOut /\ journal' = journal /\ report' = report /\ op' = op /\ step' = step
      /\ todo' = todo /\ swaps' = swaps /\ outcome' = outcome /\ crashes' = crashes /\ failures' = failures
      /\ runs' = runs
  BY DEF DatabaseCommits, files, dirs, memory, bounds
<1>3. FileTypeOK'
  BY <1>1, <1>2 DEF SwapInv, FileTypeOK
<1>4. Shape'
  BY <1>1, <1>2, FileSwapAssumption, SMTT(20) DEF SwapInv, Shape, VolumeShape, Kept, Moved, Replaced, Untouched
<1>5. ReadyToFinish'
  BY <1>1, <1>2, FileSwapAssumption, SMTT(20)
     DEF SwapInv, ReadyToFinish, Armed, Ready, Sweeping, AllThere, Kept, Replaced
<1>6. NotReplaced'
  BY <1>1, <1>2, FileSwapAssumption DEF SwapInv, NotReplaced, NothingDone, Recording
<1>7. JournalTells' /\ Between' /\ Recorded' /\ OkDone'
  BY <1>1, <1>2 DEF SwapInv, JournalTells, Between, Recorded, OkDone, Recording
<1>8. Unpacking' /\ ApplyingTurn' /\ ApplyLoop' /\ FinishLoop' /\ ForwardLoop' /\ UndoLoop'
  BY <1>1, <1>2, SMTT(20) DEF SwapInv, Unpacking, ApplyingTurn, ApplyLoop, FinishLoop, ForwardLoop, UndoLoop
<1>9. QED BY <1>3, <1>4, <1>5, <1>6, <1>7, <1>8 DEF SwapInv

\* The journal follows the database.
LEMMA JournalSwappingPreserves ==
  ASSUME SwapInv, JournalSwapping
  PROVE  SwapInv'
<1>1. /\ op = "database" /\ committed /\ journal' = "swapping" /\ op' = "restored" /\ step' = "none"
      /\ todo' = {}
  BY DEF JournalSwapping, Go, FirstStep
<1>2. /\ live' = live /\ new' = new /\ old' = old /\ newDir' = newDir /\ oldDir' = oldDir
      /\ movedOut' = movedOut /\ report' = report /\ committed' = committed /\ swaps' = swaps
      /\ outcome' = outcome /\ crashes' = crashes /\ failures' = failures /\ runs' = runs
  BY DEF JournalSwapping, Go, files, dirs, bounds
<1>3. FileTypeOK'
  BY <1>1, <1>2, FileSwapAssumption DEF SwapInv, FileTypeOK, Ops, Steps
<1>4. Shape'
  BY <1>1, <1>2, FileSwapAssumption, SMTT(20) DEF SwapInv, Shape, VolumeShape, Kept, Moved, Replaced, Untouched
<1>5. ReadyToFinish'
  BY <1>1, <1>2, FileSwapAssumption, SMTT(20)
     DEF SwapInv, ReadyToFinish, Armed, Ready, Sweeping, AllThere, Kept, Replaced
<1>6. NotReplaced'
  BY <1>1, <1>2, FileSwapAssumption DEF SwapInv, NotReplaced, NothingDone, Recording
<1>7. JournalTells' /\ Between' /\ Recorded' /\ OkDone'
  BY <1>1, <1>2 DEF SwapInv, JournalTells, Between, Recorded, OkDone, Recording
<1>8. Unpacking' /\ ApplyingTurn' /\ ApplyLoop' /\ FinishLoop' /\ ForwardLoop' /\ UndoLoop'
  BY <1>1, <1>2, SMTT(20) DEF SwapInv, Unpacking, ApplyingTurn, ApplyLoop, FinishLoop, ForwardLoop, UndoLoop
<1>9. QED BY <1>3, <1>4, <1>5, <1>6, <1>7, <1>8 DEF SwapInv

\* A failure after the database step leaves the swap to finish.
LEMMA AfterDatabaseFailsPreserves ==
  ASSUME SwapInv, AfterDatabaseFails
  PROVE  SwapInv'
<1>1. /\ op \in {"database", "restored"} /\ committed /\ failures < MaxFailures /\ failures' = failures + 1
      /\ outcome' = "failed" /\ op' = "settle" /\ step' = "none" /\ todo' = {}
  BY DEF AfterDatabaseFails, Go, FirstStep
<1>2. /\ disk' = disk /\ swaps' = swaps /\ crashes' = crashes /\ runs' = runs
  BY DEF AfterDatabaseFails, Go
<1>3. /\ live' = live /\ new' = new /\ old' = old /\ newDir' = newDir /\ oldDir' = oldDir
      /\ movedOut' = movedOut /\ journal' = journal /\ report' = report /\ committed' = committed
  BY <1>2 DEF disk, files, dirs
<1>4. FileTypeOK'
  BY <1>1, <1>2, <1>3, FileSwapAssumption DEF SwapInv, FileTypeOK, Ops, Steps, Outcomes
<1>5. Shape'
  BY <1>1, <1>2, <1>3, FileSwapAssumption, SMTT(20)
     DEF SwapInv, Shape, VolumeShape, Kept, Moved, Replaced, Untouched
<1>6. ReadyToFinish'
  BY <1>1, <1>2, <1>3, FileSwapAssumption, SMTT(20)
     DEF SwapInv, ReadyToFinish, Armed, Ready, Sweeping, AllThere, Kept, Replaced
<1>7. NotReplaced'
  BY <1>1, <1>2, <1>3, FileSwapAssumption
     DEF SwapInv, NotReplaced, NothingDone, Recording, Unreplaced, LeftInOld
<1>8. JournalTells' /\ Between' /\ Recorded' /\ OkDone'
  BY <1>1, <1>2, <1>3 DEF SwapInv, JournalTells, Between, Recorded, OkDone, Recording
<1>9. Unpacking' /\ ApplyingTurn' /\ ApplyLoop' /\ FinishLoop' /\ ForwardLoop' /\ UndoLoop'
  BY <1>1, <1>2, <1>3, SMTT(20)
     DEF SwapInv, Unpacking, ApplyingTurn, ApplyLoop, FinishLoop, ForwardLoop, UndoLoop
<1>10. QED BY <1>4, <1>5, <1>6, <1>7, <1>8, <1>9 DEF SwapInv

\* The swap begins with every volume ready.
LEMMA StartSwapPreserves ==
  ASSUME SwapInv, StartSwap
  PROVE  SwapInv'
<1>1. /\ op = "restored" /\ op' = "apply" /\ step' = "mkdir" /\ todo' = swaps
  BY DEF StartSwap, Go, FirstStep
<1>2. /\ disk' = disk /\ swaps' = swaps /\ outcome' = outcome /\ crashes' = crashes /\ failures' = failures
      /\ runs' = runs
  BY DEF StartSwap, Go, bounds
<1>3. /\ live' = live /\ new' = new /\ old' = old /\ newDir' = newDir /\ oldDir' = oldDir
      /\ movedOut' = movedOut /\ journal' = journal /\ report' = report /\ committed' = committed
  BY <1>2 DEF disk, files, dirs
<1>4. FileTypeOK'
  BY <1>1, <1>2, <1>3, FileSwapAssumption DEF SwapInv, FileTypeOK, Ops, Steps
<1>5. Shape'
  BY <1>1, <1>2, <1>3, FileSwapAssumption, SMTT(20)
     DEF SwapInv, Shape, VolumeShape, Kept, Moved, Replaced, Untouched
<1>6. ReadyToFinish'
  BY <1>1, <1>2, <1>3, FileSwapAssumption, SMTT(20)
     DEF SwapInv, ReadyToFinish, Armed, Ready, Sweeping, AllThere, Kept, Replaced
<1>7. NotReplaced'
  BY <1>1, <1>2, <1>3, FileSwapAssumption
     DEF SwapInv, NotReplaced, NothingDone, Recording, Unreplaced, LeftInOld
<1>8. JournalTells' /\ Between' /\ Recorded' /\ OkDone'
  BY <1>1, <1>2, <1>3 DEF SwapInv, JournalTells, Between, Recorded, OkDone, Recording
<1>9. Unpacking' /\ FinishLoop' /\ ForwardLoop' /\ UndoLoop'
  BY <1>1, <1>2, <1>3 DEF SwapInv, Unpacking, FinishLoop, ForwardLoop, UndoLoop
<1>10. ApplyingTurn'
  BY <1>1, <1>2, <1>3, FileSwapAssumption DEF SwapInv, ApplyingTurn, Between, Turn
<1>11. ApplyLoop'
  BY <1>1, <1>2, <1>3, FileSwapAssumption DEF SwapInv, ApplyLoop, Between
<1>12. QED BY <1>4, <1>5, <1>6, <1>7, <1>8, <1>9, <1>10, <1>11 DEF SwapInv

\* OLD_DIR is there before anything is moved into it.
LEMMA MakeOldPreserves ==
  ASSUME SwapInv, NEW v \in Volumes, MakeOld(v)
  PROVE  SwapInv'
<1>1. /\ op \in {"apply", "forward"} /\ Turn(v) /\ step = "mkdir" /\ oldDir' = [oldDir EXCEPT ![v] = TRUE]
      /\ (step' = IF movedOut[v] THEN "in" ELSE "out") /\ op' = op /\ todo' = todo
  BY DEF MakeOld, Applying, Turn, AtStep
<1>2. /\ live' = live /\ new' = new /\ old' = old /\ newDir' = newDir /\ movedOut' = movedOut
      /\ journal' = journal /\ report' = report /\ committed' = committed /\ swaps' = swaps
      /\ outcome' = outcome /\ crashes' = crashes /\ failures' = failures /\ runs' = runs
  BY DEF MakeOld, Applying, AtStep, files, bounds
<1>3. FileTypeOK'
  BY <1>1, <1>2, FileSwapAssumption DEF SwapInv, FileTypeOK, Steps
<1>4. Shape'
  BY <1>1, <1>2, FileSwapAssumption, SMTT(20)
     DEF SwapInv, Shape, VolumeShape, Kept, Moved, Replaced, Untouched, ApplyingTurn, Sweeping, ReadyToFinish,
         Armed, Ready
<1>5. ReadyToFinish'
  BY <1>1, <1>2, FileSwapAssumption, SMTT(20)
     DEF SwapInv, ReadyToFinish, Armed, Ready, Sweeping, AllThere, Kept, Replaced, ApplyingTurn
<1>6. NotReplaced'
  BY <1>1, <1>2, FileSwapAssumption DEF SwapInv, NotReplaced, NothingDone, Recording, Unreplaced, LeftInOld
<1>7. JournalTells' /\ Between' /\ Recorded' /\ OkDone'
  BY <1>1, <1>2 DEF SwapInv, JournalTells, Between, Recorded, OkDone, Recording
<1>8. Unpacking' /\ FinishLoop' /\ UndoLoop'
  BY <1>1, <1>2 DEF SwapInv, Unpacking, FinishLoop, UndoLoop
<1>9. ApplyingTurn'
  BY <1>1, <1>2, FileSwapAssumption DEF SwapInv, ApplyingTurn, FileTypeOK, Turn, Volumes
<1>10. ApplyLoop'
  BY <1>1, <1>2, FileSwapAssumption DEF SwapInv, ApplyLoop, Emptied
<1>11. ForwardLoop'
  BY <1>1, <1>2, FileSwapAssumption DEF SwapInv, ForwardLoop, Replaced, Turn
<1>12. QED BY <1>3, <1>4, <1>5, <1>6, <1>7, <1>8, <1>9, <1>10, <1>11 DEF SwapInv

\* A previous file goes from live to OLD_DIR.
LEMMA MoveOutPreserves ==
  ASSUME SwapInv, NEW v \in Volumes, NEW n \in Names, MoveOut(v, n)
  PROVE  SwapInv'
<1>1. /\ op \in {"apply", "forward"} /\ Turn(v) /\ step = "out" /\ live[v][n] # "none"
      /\ live' = [live EXCEPT ![v][n] = "none"] /\ old' = [old EXCEPT ![v][n] = live[v][n]]
  BY DEF MoveOut, Applying, Turn, Move
<1>2. /\ new' = new /\ newDir' = newDir /\ oldDir' = oldDir /\ movedOut' = movedOut /\ journal' = journal
      /\ report' = report /\ committed' = committed /\ op' = op /\ step' = step /\ todo' = todo
      /\ swaps' = swaps /\ outcome' = outcome /\ crashes' = crashes /\ failures' = failures /\ runs' = runs
  BY DEF MoveOut, Applying, dirs, memory, bounds
<1>3. FileTypeOK'
  BY <1>1, <1>2 DEF SwapInv, FileTypeOK
<1>4. Shape'
  BY <1>1, <1>2, FileSwapAssumption, SMTT(20)
     DEF SwapInv, Shape, VolumeShape, Kept, Moved, Replaced, Untouched, FileTypeOK, ApplyingTurn, ForwardLoop,
         ReadyToFinish, Armed, Ready
<1>5. ReadyToFinish'
  BY <1>1, <1>2, FileSwapAssumption, SMTT(20)
     DEF SwapInv, ReadyToFinish, Armed, Ready, Sweeping, AllThere, Kept, Replaced, FileTypeOK, ApplyingTurn
<1>6. NotReplaced'
  BY <1>1, <1>2, FileSwapAssumption DEF SwapInv, NotReplaced, NothingDone, Recording, JournalTells
<1>7. JournalTells' /\ Between' /\ Recorded' /\ OkDone'
  BY <1>1, <1>2 DEF SwapInv, JournalTells, Between, Recorded, OkDone, Recording
<1>8. Unpacking' /\ FinishLoop' /\ UndoLoop'
  BY <1>1, <1>2 DEF SwapInv, Unpacking, FinishLoop, UndoLoop
<1>9. ApplyingTurn'
  BY <1>1, <1>2, FileSwapAssumption DEF SwapInv, ApplyingTurn, Turn
<1>10. ApplyLoop'
  BY <1>1, <1>2, FileSwapAssumption DEF SwapInv, ApplyLoop, Emptied
<1>11. ForwardLoop'
  BY <1>1, <1>2, FileSwapAssumption DEF SwapInv, ForwardLoop, Replaced, Turn
<1>12. QED BY <1>3, <1>4, <1>5, <1>6, <1>7, <1>8, <1>9, <1>10, <1>11 DEF SwapInv

\* The marker is set once nothing previous is live.
LEMMA TouchMovedOutPreserves ==
  ASSUME SwapInv, NEW v \in Volumes, TouchMovedOut(v)
  PROVE  SwapInv'
<1>1. /\ op \in {"apply", "forward"} /\ Turn(v) /\ step = "out" /\ IsEmpty(live[v])
      /\ movedOut' = [movedOut EXCEPT ![v] = TRUE] /\ step' = "in" /\ op' = op /\ todo' = todo
  BY DEF TouchMovedOut, Applying, Turn, AtStep
<1>2. /\ live' = live /\ new' = new /\ old' = old /\ newDir' = newDir /\ oldDir' = oldDir
      /\ journal' = journal /\ report' = report /\ committed' = committed /\ swaps' = swaps
      /\ outcome' = outcome /\ crashes' = crashes /\ failures' = failures /\ runs' = runs
  BY DEF TouchMovedOut, Applying, AtStep, files, bounds
<1>3. FileTypeOK'
  BY <1>1, <1>2, FileSwapAssumption DEF SwapInv, FileTypeOK, Steps
<1>4. Shape'
  BY <1>1, <1>2, FileSwapAssumption, SMTT(20)
     DEF SwapInv, Shape, VolumeShape, Kept, Moved, Replaced, Untouched, IsPrevious, IsEmpty, Holds, ApplyingTurn
<1>5. ReadyToFinish'
  BY <1>1, <1>2, FileSwapAssumption, SMTT(20)
     DEF SwapInv, ReadyToFinish, Armed, Ready, Sweeping, AllThere, Kept, Replaced, IsArchived, Holds, Volumes,
         ApplyingTurn
<1>6. NotReplaced'
  BY <1>1, <1>2, FileSwapAssumption DEF SwapInv, NotReplaced, NothingDone, Recording, Unreplaced, LeftInOld
<1>7. JournalTells' /\ Between' /\ Recorded' /\ OkDone'
  BY <1>1, <1>2 DEF SwapInv, JournalTells, Between, Recorded, OkDone, Recording
<1>8. Unpacking' /\ FinishLoop' /\ UndoLoop'
  BY <1>1, <1>2 DEF SwapInv, Unpacking, FinishLoop, UndoLoop
<1>9. ApplyingTurn'
  BY <1>1, <1>2, FileSwapAssumption DEF SwapInv, ApplyingTurn, FileTypeOK, Turn, Volumes
<1>10. ApplyLoop'
  BY <1>1, <1>2, FileSwapAssumption DEF SwapInv, ApplyLoop, Emptied
<1>11. ForwardLoop'
  BY <1>1, <1>2, FileSwapAssumption DEF SwapInv, ForwardLoop, Replaced
<1>12. QED BY <1>3, <1>4, <1>5, <1>6, <1>7, <1>8, <1>9, <1>10, <1>11 DEF SwapInv

\* An archived file goes from NEW_DIR to live.
LEMMA MoveInPreserves ==
  ASSUME SwapInv, NEW v \in Volumes, NEW n \in Names, MoveIn(v, n)
  PROVE  SwapInv'
<1>1. /\ op \in {"apply", "forward"} /\ Turn(v) /\ step = "in" /\ new[v][n] # "none"
      /\ new' = [new EXCEPT ![v][n] = "none"] /\ live' = [live EXCEPT ![v][n] = new[v][n]]
  BY DEF MoveIn, Applying, Turn, Move
<1>2. /\ old' = old /\ newDir' = newDir /\ oldDir' = oldDir /\ movedOut' = movedOut /\ journal' = journal
      /\ report' = report /\ committed' = committed /\ op' = op /\ step' = step /\ todo' = todo
      /\ swaps' = swaps /\ outcome' = outcome /\ crashes' = crashes /\ failures' = failures /\ runs' = runs
  BY DEF MoveIn, Applying, dirs, memory, bounds
<1>3. FileTypeOK'
  BY <1>1, <1>2 DEF SwapInv, FileTypeOK
<1>4. Shape'
  BY <1>1, <1>2, FileSwapAssumption, SMTT(20)
     DEF SwapInv, Shape, VolumeShape, Kept, Moved, Replaced, Untouched, FileTypeOK, ApplyingTurn
<1>5. ReadyToFinish'
  BY <1>1, <1>2, FileSwapAssumption, SMTT(20)
     DEF SwapInv, ReadyToFinish, Armed, Ready, Sweeping, AllThere, Kept, Replaced, FileTypeOK, Shape,
         VolumeShape, ApplyingTurn
<1>6. NotReplaced'
  BY <1>1, <1>2, FileSwapAssumption DEF SwapInv, NotReplaced, NothingDone, Recording, JournalTells
<1>7. JournalTells' /\ Between' /\ Recorded' /\ OkDone'
  BY <1>1, <1>2 DEF SwapInv, JournalTells, Between, Recorded, OkDone, Recording
<1>8. Unpacking' /\ FinishLoop' /\ UndoLoop'
  BY <1>1, <1>2 DEF SwapInv, Unpacking, FinishLoop, UndoLoop
<1>9. ApplyingTurn'
  BY <1>1, <1>2, FileSwapAssumption DEF SwapInv, ApplyingTurn, Turn
<1>10. ApplyLoop'
  BY <1>1, <1>2, FileSwapAssumption DEF SwapInv, ApplyLoop, Emptied, IsEmpty
<1>11. ForwardLoop'
  BY <1>1, <1>2, FileSwapAssumption DEF SwapInv, ForwardLoop, Replaced, IsEmpty
<1>12. QED BY <1>3, <1>4, <1>5, <1>6, <1>7, <1>8, <1>9, <1>10, <1>11 DEF SwapInv

\* With NEW_DIR empty the volume is the archive's.
LEMMA AppliedPreserves ==
  ASSUME SwapInv, NEW v \in Volumes, Applied(v)
  PROVE  SwapInv'
<1>1. /\ op \in {"apply", "forward"} /\ Turn(v) /\ step = "in" /\ IsEmpty(new[v]) /\ op' = op
      /\ (todo' = IF op = "apply" THEN todo \ {v} ELSE todo)
      /\ (step' = IF op = "apply" THEN "mkdir" ELSE "keep")
  BY DEF Applied, Applying, Turn, NextVolume, AtStep, FirstStep
<1>2. /\ disk' = disk /\ swaps' = swaps /\ outcome' = outcome /\ crashes' = crashes /\ failures' = failures
      /\ runs' = runs
  BY DEF Applied, Applying, NextVolume, AtStep, bounds
<1>3. /\ live' = live /\ new' = new /\ old' = old /\ newDir' = newDir /\ oldDir' = oldDir
      /\ movedOut' = movedOut /\ journal' = journal /\ report' = report /\ committed' = committed
  BY <1>2 DEF disk, files, dirs
<1>4. FileTypeOK'
  BY <1>1, <1>2, <1>3, FileSwapAssumption DEF SwapInv, FileTypeOK, Steps
<1>5. Shape'
  BY <1>1, <1>2, <1>3, FileSwapAssumption, SMTT(20)
     DEF SwapInv, Shape, VolumeShape, Kept, Moved, Replaced, Untouched
<1>6. ReadyToFinish'
  BY <1>1, <1>2, <1>3, FileSwapAssumption, SMTT(20)
     DEF SwapInv, ReadyToFinish, Armed, Ready, Sweeping, AllThere, Kept, Replaced
<1>7. NotReplaced'
  BY <1>1, <1>2, <1>3, FileSwapAssumption
     DEF SwapInv, NotReplaced, NothingDone, Recording, Unreplaced, LeftInOld
<1>8. JournalTells' /\ Between' /\ Recorded' /\ OkDone'
  BY <1>1, <1>2, <1>3 DEF SwapInv, JournalTells, Between, Recorded, OkDone, Recording
<1>9. Unpacking' /\ FinishLoop' /\ UndoLoop'
  BY <1>1, <1>2, <1>3 DEF SwapInv, Unpacking, FinishLoop, UndoLoop
<1>10. ApplyingTurn'
  BY <1>1, <1>2, <1>3, FileSwapAssumption DEF SwapInv, ApplyingTurn, Turn, ApplyLoop
<1>11. ApplyLoop'
  BY <1>1, <1>2, <1>3, FileSwapAssumption DEF SwapInv, ApplyLoop, Emptied, ApplyingTurn
<1>12. ForwardLoop'
  BY <1>1, <1>2, <1>3, FileSwapAssumption, SMTT(20)
     DEF SwapInv, ForwardLoop, Replaced, IsArchived, IsEmpty, Holds, Turn, Volumes, Shape, VolumeShape, Kept,
         Moved, ApplyLoop, ApplyingTurn, FinishLoop, UndoLoop, Unpacking, Sweeping, ReadyToFinish, Armed, Ready,
         AllThere, Unreplaced, LeftInOld, NotReplaced
<1>13. QED BY <1>4, <1>5, <1>6, <1>7, <1>8, <1>9, <1>10, <1>11, <1>12 DEF SwapInv

\* Every volume was applied before the first is finished.
LEMMA ApplyDonePreserves ==
  ASSUME SwapInv, ApplyDone
  PROVE  SwapInv'
<1>1. /\ op = "apply" /\ todo = {} /\ op' = "finish" /\ step' = "keep" /\ todo' = swaps
  BY DEF ApplyDone, Go, FirstStep
<1>2. /\ disk' = disk /\ swaps' = swaps /\ outcome' = outcome /\ crashes' = crashes /\ failures' = failures
      /\ runs' = runs
  BY DEF ApplyDone, Go, bounds
<1>3. /\ live' = live /\ new' = new /\ old' = old /\ newDir' = newDir /\ oldDir' = oldDir
      /\ movedOut' = movedOut /\ journal' = journal /\ report' = report /\ committed' = committed
  BY <1>2 DEF disk, files, dirs
<1>4. FileTypeOK'
  BY <1>1, <1>2, <1>3, FileSwapAssumption DEF SwapInv, FileTypeOK, Ops, Steps
<1>5. Shape'
  BY <1>1, <1>2, <1>3, FileSwapAssumption, SMTT(20)
     DEF SwapInv, Shape, VolumeShape, Kept, Moved, Replaced, Untouched
<1>6. ReadyToFinish'
  BY <1>1, <1>2, <1>3, FileSwapAssumption, SMTT(20)
     DEF SwapInv, ReadyToFinish, Armed, Ready, Sweeping, AllThere, Kept, Replaced
<1>7. NotReplaced'
  BY <1>1, <1>2, <1>3, FileSwapAssumption
     DEF SwapInv, NotReplaced, NothingDone, Recording, Unreplaced, LeftInOld
<1>8. JournalTells' /\ Between' /\ Recorded' /\ OkDone'
  BY <1>1, <1>2, <1>3 DEF SwapInv, JournalTells, Between, Recorded, OkDone, Recording
<1>9. Unpacking' /\ ApplyingTurn' /\ ApplyLoop' /\ ForwardLoop' /\ UndoLoop'
  BY <1>1, <1>2, <1>3 DEF SwapInv, Unpacking, ApplyingTurn, ApplyLoop, ForwardLoop, UndoLoop
<1>10. FinishLoop'
  BY <1>1, <1>2, <1>3, FileSwapAssumption DEF SwapInv, FinishLoop, Emptied, Sweeping, Between, ApplyLoop
<1>11. QED BY <1>4, <1>5, <1>6, <1>7, <1>8, <1>9, <1>10 DEF SwapInv

\* A failed rename starts the undo.
LEMMA ApplyFailsPreserves ==
  ASSUME SwapInv, NEW v \in Volumes, ApplyFails(v)
  PROVE  SwapInv'
<1>1. /\ op = "apply" /\ Turn(v) /\ failures < MaxFailures /\ failures' = failures + 1
      /\ outcome' = "put_back" /\ op' = "undo" /\ step' = "look" /\ todo' = swaps
  BY DEF ApplyFails, Turn, Go, FirstStep
<1>2. /\ disk' = disk /\ swaps' = swaps /\ crashes' = crashes /\ runs' = runs
  BY DEF ApplyFails, Go
<1>3. /\ live' = live /\ new' = new /\ old' = old /\ newDir' = newDir /\ oldDir' = oldDir
      /\ movedOut' = movedOut /\ journal' = journal /\ report' = report /\ committed' = committed
  BY <1>2 DEF disk, files, dirs
<1>4. FileTypeOK'
  BY <1>1, <1>2, <1>3, FileSwapAssumption DEF SwapInv, FileTypeOK, Ops, Steps, Outcomes
<1>5. Shape'
  BY <1>1, <1>2, <1>3, FileSwapAssumption, SMTT(20)
     DEF SwapInv, Shape, VolumeShape, Kept, Moved, Replaced, Untouched
<1>6. ReadyToFinish'
  BY <1>1, <1>2, <1>3, FileSwapAssumption, SMTT(20)
     DEF SwapInv, ReadyToFinish, Armed, Ready, Sweeping, AllThere, Kept, Replaced
<1>7. NotReplaced'
  BY <1>1, <1>2, <1>3, FileSwapAssumption
     DEF SwapInv, NotReplaced, NothingDone, Recording, Unreplaced, LeftInOld
<1>8. JournalTells' /\ Between' /\ Recorded' /\ OkDone'
  BY <1>1, <1>2, <1>3 DEF SwapInv, JournalTells, Between, Recorded, OkDone, Recording
<1>9. Unpacking' /\ ApplyingTurn' /\ ApplyLoop' /\ FinishLoop' /\ ForwardLoop'
  BY <1>1, <1>2, <1>3 DEF SwapInv, Unpacking, ApplyingTurn, ApplyLoop, FinishLoop, ForwardLoop
<1>10. UndoLoop'
  BY <1>1, <1>2, <1>3, FileSwapAssumption, SMTT(20)
     DEF SwapInv, UndoLoop, Unreplaced, Kept, Between, IsPrevious, IsArchived, IsEmpty, Holds, Volumes, Shape,
         VolumeShape, Moved, Untouched, ApplyLoop, Emptied, Sweeping, ReadyToFinish, Armed, Ready
<1>11. QED BY <1>4, <1>5, <1>6, <1>7, <1>8, <1>9, <1>10 DEF SwapInv

\* Previous files go only once the archive's are all live.
LEMMA DropOldPreserves ==
  ASSUME SwapInv, NEW v \in Volumes, DropOld(v)
  PROVE  SwapInv'
<1>1. /\ op \in {"finish", "forward"} /\ Turn(v) /\ step = "keep" /\ old' = [old EXCEPT ![v] = Empty]
      /\ oldDir' = [oldDir EXCEPT ![v] = FALSE] /\ movedOut' = [movedOut EXCEPT ![v] = FALSE]
      /\ step' = "sweep" /\ op' = op /\ todo' = todo
  BY DEF DropOld, Turn, Empty, AtStep
<1>2. /\ live' = live /\ new' = new /\ newDir' = newDir /\ journal' = journal /\ report' = report
      /\ committed' = committed /\ swaps' = swaps /\ outcome' = outcome /\ crashes' = crashes
      /\ failures' = failures /\ runs' = runs
  BY DEF DropOld, Empty, AtStep, bounds
<1>3. FileTypeOK'
  BY <1>1, <1>2, FileSwapAssumption DEF SwapInv, FileTypeOK, Steps, Empty
<1>4. Shape'
  BY <1>1, <1>2, FileSwapAssumption, SMTT(20)
     DEF SwapInv, Shape, VolumeShape, Kept, Moved, Replaced, Untouched, FileTypeOK, IsPrevious, IsArchived,
         IsEmpty, Holds, Volumes, Empty, FinishLoop, ForwardLoop, Emptied, ReadyToFinish, Armed, Ready, AllThere,
         NotReplaced
<1>5. ReadyToFinish'
  BY <1>1, <1>2, FileSwapAssumption, SMTT(20)
     DEF SwapInv, ReadyToFinish, Armed, Ready, Sweeping, AllThere, Kept, Replaced, FileTypeOK, IsArchived,
         IsEmpty, Holds, Turn, Shape, VolumeShape, Moved, Empty, FinishLoop, ForwardLoop, Emptied
<1>6. NotReplaced'
  BY <1>1, <1>2, FileSwapAssumption DEF SwapInv, NotReplaced, NothingDone, Recording, JournalTells
<1>7. JournalTells' /\ Between' /\ Recorded' /\ OkDone'
  BY <1>1, <1>2 DEF SwapInv, JournalTells, Between, Recorded, OkDone, Recording
<1>8. Unpacking' /\ ApplyingTurn' /\ ApplyLoop' /\ UndoLoop'
  BY <1>1, <1>2 DEF SwapInv, Unpacking, ApplyingTurn, ApplyLoop, UndoLoop
<1>9. FinishLoop'
  BY <1>1, <1>2, FileSwapAssumption, SMTT(20)
     DEF SwapInv, FinishLoop, Emptied, Replaced, Sweeping, FileTypeOK, IsArchived, IsEmpty, Holds, Turn, Volumes,
         Shape, VolumeShape, Moved, Empty, ReadyToFinish, Armed, Ready, AllThere
<1>10. ForwardLoop'
  BY <1>1, <1>2, FileSwapAssumption, SMTT(20)
     DEF SwapInv, ForwardLoop, Replaced, FileTypeOK, IsEmpty, Turn, Volumes, Shape, Kept, Moved, Untouched,
         Empty, FinishLoop, UndoLoop, Unpacking, ReadyToFinish, Armed, Recording, NothingDone, NotReplaced,
         Recorded
<1>11. QED BY <1>3, <1>4, <1>5, <1>6, <1>7, <1>8, <1>9, <1>10 DEF SwapInv

\* A finish that fails leaves the swap to finish.
LEMMA FinishFailsPreserves ==
  ASSUME SwapInv, NEW v \in Volumes, FinishFails(v)
  PROVE  SwapInv'
<1>1. /\ op = "finish" /\ Turn(v) /\ step = "keep" /\ oldDir[v] /\ failures < MaxFailures
      /\ failures' = failures + 1 /\ outcome' = "failed" /\ op' = "settle" /\ step' = "none" /\ todo' = {}
  BY DEF FinishFails, Turn, Go, FirstStep
<1>2. /\ disk' = disk /\ swaps' = swaps /\ crashes' = crashes /\ runs' = runs
  BY DEF FinishFails, Go
<1>3. /\ live' = live /\ new' = new /\ old' = old /\ newDir' = newDir /\ oldDir' = oldDir
      /\ movedOut' = movedOut /\ journal' = journal /\ report' = report /\ committed' = committed
  BY <1>2 DEF disk, files, dirs
<1>4. FileTypeOK'
  BY <1>1, <1>2, <1>3, FileSwapAssumption DEF SwapInv, FileTypeOK, Ops, Steps, Outcomes
<1>5. Shape'
  BY <1>1, <1>2, <1>3, FileSwapAssumption, SMTT(20)
     DEF SwapInv, Shape, VolumeShape, Kept, Moved, Replaced, Untouched
<1>6. ReadyToFinish'
  BY <1>1, <1>2, <1>3, FileSwapAssumption, SMTT(20)
     DEF SwapInv, ReadyToFinish, Armed, Ready, Sweeping, AllThere, Kept, Replaced
<1>7. NotReplaced'
  BY <1>1, <1>2, <1>3, FileSwapAssumption
     DEF SwapInv, NotReplaced, NothingDone, Recording, Unreplaced, LeftInOld
<1>8. JournalTells' /\ Between' /\ Recorded' /\ OkDone'
  BY <1>1, <1>2, <1>3 DEF SwapInv, JournalTells, Between, Recorded, OkDone, Recording
<1>9. Unpacking' /\ ApplyingTurn' /\ ApplyLoop' /\ FinishLoop' /\ ForwardLoop' /\ UndoLoop'
  BY <1>1, <1>2, <1>3, SMTT(20)
     DEF SwapInv, Unpacking, ApplyingTurn, ApplyLoop, FinishLoop, ForwardLoop, UndoLoop
<1>10. QED BY <1>4, <1>5, <1>6, <1>7, <1>8, <1>9 DEF SwapInv

\* What a sweep removes from NEW_DIR is not needed any more.
LEMMA SweepPreserves ==
  ASSUME SwapInv, NEW v \in Volumes, NEW n \in Names, Sweep(v, n)
  PROVE  SwapInv'
<1>1. /\ Turn(v) /\ step = "sweep" /\ new[v][n] # "none" /\ new' = [new EXCEPT ![v][n] = "none"]
  BY DEF Sweep, Turn
<1>2. /\ live' = live /\ old' = old /\ newDir' = newDir /\ oldDir' = oldDir /\ movedOut' = movedOut
      /\ journal' = journal /\ report' = report /\ committed' = committed /\ op' = op /\ step' = step
      /\ todo' = todo /\ swaps' = swaps /\ outcome' = outcome /\ crashes' = crashes /\ failures' = failures
      /\ runs' = runs
  BY DEF Sweep, dirs, memory, bounds
<1>3. FileTypeOK'
  BY <1>1, <1>2 DEF SwapInv, FileTypeOK
<1>4. Shape'
  BY <1>1, <1>2, FileSwapAssumption, SMTT(20)
     DEF SwapInv, Shape, VolumeShape, Kept, Moved, Replaced, Untouched, IsEmpty
<1>5. ReadyToFinish'
  <2>1. op \notin {"finish", "forward"}
    <3>1. v \in InArchive /\ op \in {"finish", "forward"} => Replaced(v)
      BY <1>1 DEF SwapInv, FinishLoop, ForwardLoop, Sweeping, Turn
    <3>2. v \notin InArchive => Untouched(v)
      BY DEF SwapInv, Shape, VolumeShape
    <3>3. QED BY <1>1, <3>1, <3>2 DEF Replaced, Untouched, IsEmpty
  <2>2. ~Armed
    BY <1>1, <2>1 DEF SwapInv, Armed, JournalTells, Between, Unpacking, ApplyLoop, FileTypeOK, Ops
  <2>3. QED BY <1>1, <1>2, <2>2 DEF ReadyToFinish, Armed
<1>6. NotReplaced'
  BY <1>1, <1>2, FileSwapAssumption DEF SwapInv, NotReplaced, NothingDone, Recording, Unreplaced, LeftInOld
<1>7. JournalTells' /\ Between' /\ Recorded' /\ OkDone'
  BY <1>1, <1>2 DEF SwapInv, JournalTells, Between, Recorded, OkDone, Recording
<1>8. Unpacking' /\ ApplyingTurn' /\ ApplyLoop'
  BY <1>1, <1>2 DEF SwapInv, Unpacking, ApplyingTurn, ApplyLoop
<1>9. FinishLoop'
  BY <1>1, <1>2, FileSwapAssumption DEF SwapInv, FinishLoop, Emptied, Replaced, IsEmpty, Turn
<1>10. ForwardLoop'
  BY <1>1, <1>2, FileSwapAssumption DEF SwapInv, ForwardLoop, Replaced, IsEmpty, Turn, Shape
<1>11. UndoLoop'
  <2>1. \A w \in Volumes : (movedOut[w] \/ Kept(w) => movedOut'[w] \/ Kept(w)') /\ (Unreplaced(w) => Unreplaced(w)')
    BY <1>2 DEF Kept, Unreplaced, LeftInOld
  <2>2. \A w \in Volumes : Turn(w)' <=> Turn(w)
    BY <1>2 DEF Turn
  <2>3. QED BY <1>2, <2>1, <2>2 DEF SwapInv, UndoLoop
<1>12. QED BY <1>3, <1>4, <1>5, <1>6, <1>7, <1>8, <1>9, <1>10, <1>11 DEF SwapInv

\* A swept volume is the archive's, or is as it was.
LEMMA SweptPreserves ==
  ASSUME SwapInv, NEW v \in Volumes, Swept(v)
  PROVE  SwapInv'
<1>1. /\ Turn(v) /\ step = "sweep" /\ IsEmpty(new[v]) /\ newDir' = [newDir EXCEPT ![v] = FALSE]
      /\ todo' = todo \ {v} /\ op' = op /\ (op = "finish" => step' = "keep")
      /\ (op \in {"discard", "drop"} => step' = "sweep") /\ (op \in {"undo", "forward"} => step' = "look")
      /\ step' \in Steps
  BY DEF Swept, Turn, NextVolume, FirstStep, Steps
<1>2. /\ live' = live /\ new' = new /\ old' = old /\ oldDir' = oldDir /\ movedOut' = movedOut
      /\ journal' = journal /\ report' = report /\ committed' = committed /\ swaps' = swaps
      /\ outcome' = outcome /\ crashes' = crashes /\ failures' = failures /\ runs' = runs
  BY DEF Swept, NextVolume, files, bounds
<1>3. FileTypeOK'
  BY <1>1, <1>2 DEF SwapInv, FileTypeOK
<1>4. Shape'
  BY <1>1, <1>2, FileSwapAssumption, SMTT(20) DEF SwapInv, Shape, VolumeShape, Kept, Moved, Replaced, Untouched
<1>5. ReadyToFinish'
  <2>1. SUFFICES ASSUME Armed', NEW w \in InArchive PROVE Ready(w)'
    BY DEF ReadyToFinish
  <2>2. Armed /\ Ready(w) /\ w \in Volumes
    BY <1>1, <1>2, <2>1, FileSwapAssumption DEF SwapInv, Armed, ReadyToFinish
  <2>3. op \in {"finish", "forward"}
    BY <1>1, <2>2 DEF SwapInv, Armed, JournalTells, Between, Unpacking, ApplyLoop, FileTypeOK, Ops
  <2>4. CASE w = v
    <3>1. Replaced(v) /\ ~movedOut[v]
      BY <1>1, <2>1, <2>2, <2>3, <2>4
         DEF SwapInv, FinishLoop, ForwardLoop, Sweeping, Turn, Shape, VolumeShape, Moved, Replaced
    <3>2. ~newDir'[v]
      BY <1>1 DEF SwapInv, FileTypeOK
    <3>3. QED BY <1>2, <2>4, <3>1, <3>2 DEF Ready, Replaced
  <2>5. CASE w # v
    <3>1. newDir'[w] = newDir[w]
      BY <1>1, <2>2, <2>5 DEF SwapInv, FileTypeOK
    <3>2. ~Sweeping(w)
      BY <1>1, <2>2, <2>5 DEF Sweeping, Turn, Volumes
    <3>3. QED BY <1>2, <2>2, <3>1, <3>2 DEF Ready, Replaced, Kept, AllThere
  <2>6. QED BY <2>4, <2>5
<1>6. NotReplaced'
  BY <1>1, <1>2, FileSwapAssumption DEF SwapInv, NotReplaced, NothingDone, Recording, Unreplaced, LeftInOld
<1>7. JournalTells' /\ Between' /\ Recorded'
  BY <1>1, <1>2 DEF SwapInv, JournalTells, Between, Recorded
<1>8. OkDone'
  BY <1>1, <1>2, FileSwapAssumption DEF SwapInv, OkDone, Recording, Replaced
<1>9. Unpacking' /\ ApplyLoop'
  BY <1>1, <1>2 DEF SwapInv, Unpacking, ApplyLoop
<1>10. ApplyingTurn'
  BY <1>1, <1>2, FileSwapAssumption DEF SwapInv, ApplyingTurn, ApplyLoop
<1>11. FinishLoop'
  BY <1>1, <1>2, FileSwapAssumption, SMTT(20)
     DEF SwapInv, FinishLoop, Emptied, Replaced, Sweeping, FileTypeOK, Turn, Volumes
<1>12. ForwardLoop'
  BY <1>1, <1>2, FileSwapAssumption DEF SwapInv, ForwardLoop, Replaced, FileTypeOK
<1>13. UndoLoop'
  BY <1>1, <1>2, FileSwapAssumption DEF SwapInv, UndoLoop, Unreplaced, LeftInOld, Kept
<1>14. QED BY <1>3, <1>4, <1>5, <1>6, <1>7, <1>8, <1>9, <1>10, <1>11, <1>12, <1>13 DEF SwapInv

\* Every volume is the archive's when the run says so.
LEMMA FinishDonePreserves ==
  ASSUME SwapInv, FinishDone
  PROVE  SwapInv'
<1>1. /\ op = "finish" /\ todo = {} /\ outcome' \in {"ok", "failed"} /\ op' = "settle" /\ step' = "none"
      /\ todo' = {}
  BY DEF FinishDone, Go, FirstStep
<1>2. /\ disk' = disk /\ swaps' = swaps /\ crashes' = crashes /\ failures' = failures /\ runs' = runs
  BY DEF FinishDone, Go, bounds
<1>3. /\ live' = live /\ new' = new /\ old' = old /\ newDir' = newDir /\ oldDir' = oldDir
      /\ movedOut' = movedOut /\ journal' = journal /\ report' = report /\ committed' = committed
  BY <1>2 DEF disk, files, dirs
<1>4. FileTypeOK'
  BY <1>1, <1>2, <1>3, FileSwapAssumption DEF SwapInv, FileTypeOK, Ops, Steps, Outcomes
<1>5. Shape'
  BY <1>1, <1>2, <1>3, FileSwapAssumption, SMTT(20)
     DEF SwapInv, Shape, VolumeShape, Kept, Moved, Replaced, Untouched
<1>6. ReadyToFinish'
  BY <1>1, <1>2, <1>3, FileSwapAssumption, SMTT(20)
     DEF SwapInv, ReadyToFinish, Armed, Ready, Sweeping, AllThere, Kept, Replaced, Turn
<1>7. NotReplaced'
  BY <1>1, <1>2, <1>3, FileSwapAssumption
     DEF SwapInv, NotReplaced, NothingDone, Recording, Unreplaced, LeftInOld
<1>8. JournalTells' /\ Between' /\ Recorded'
  BY <1>1, <1>2, <1>3 DEF SwapInv, JournalTells, Between, Recorded
<1>9. OkDone'
  BY <1>1, <1>2, <1>3, FileSwapAssumption DEF SwapInv, OkDone, Replaced, FinishLoop
<1>10. Unpacking' /\ ApplyingTurn' /\ ApplyLoop' /\ FinishLoop' /\ ForwardLoop' /\ UndoLoop'
  BY <1>1, <1>2, <1>3, SMTT(20)
     DEF SwapInv, Unpacking, ApplyingTurn, ApplyLoop, FinishLoop, ForwardLoop, UndoLoop
<1>11. QED BY <1>4, <1>5, <1>6, <1>7, <1>8, <1>9, <1>10 DEF SwapInv

\* The undo goes by the MOVED_OUT marker.
LEMMA UndoLookPreserves ==
  ASSUME SwapInv, NEW v \in Volumes, UndoLook(v)
  PROVE  SwapInv'
<1>1. /\ op = "undo" /\ Turn(v) /\ step = "look" /\ op' = op
      /\ (~oldDir[v] => todo' = todo \ {v} /\ step' = "look" /\ newDir' = newDir)
      /\ (oldDir[v] => todo' = todo) /\ (oldDir[v] /\ ~movedOut[v] => step' = "return" /\ newDir' = newDir)
      /\ (oldDir[v] /\ movedOut[v] => step' = "back" /\ newDir' = [newDir EXCEPT ![v] = TRUE])
  BY DEF UndoLook, Turn, NextVolume, AtStep, FirstStep
<1>2. /\ live' = live /\ new' = new /\ old' = old /\ oldDir' = oldDir /\ movedOut' = movedOut
      /\ journal' = journal /\ report' = report /\ committed' = committed /\ swaps' = swaps
      /\ outcome' = outcome /\ crashes' = crashes /\ failures' = failures /\ runs' = runs
  BY DEF UndoLook, NextVolume, AtStep, files, bounds
<1>3. FileTypeOK'
  <2>1. newDir' \in [Volumes -> BOOLEAN]
    BY <1>1 DEF SwapInv, FileTypeOK
  <2>2. step' \in Steps /\ todo' \subseteq Volumes
    BY <1>1 DEF SwapInv, FileTypeOK, Steps
  <2>3. FileTypeOK
    BY DEF SwapInv
  <2>4. QED BY <1>1, <1>2, <2>1, <2>2, <2>3 DEF FileTypeOK
<1>4. Shape'
  <2>1. v \in InArchive
    BY <1>1 DEF SwapInv, UndoLoop, Turn
  <2>2. \A w \in Volumes : newDir'[w] = newDir[w] \/ (w = v /\ newDir'[w])
    BY <1>1 DEF SwapInv, FileTypeOK
  <2>3. QED BY <1>2, <2>1, <2>2 DEF SwapInv, Shape, VolumeShape, Moved, Kept, Replaced, Untouched
<1>5. ReadyToFinish'
  BY <1>1, <1>2, FileSwapAssumption DEF SwapInv, ReadyToFinish, Armed, JournalTells
<1>6. NotReplaced'
  BY <1>1, <1>2, FileSwapAssumption DEF SwapInv, NotReplaced, NothingDone, Recording, Unreplaced, LeftInOld
<1>7. JournalTells' /\ Between' /\ Recorded' /\ OkDone'
  BY <1>1, <1>2 DEF SwapInv, JournalTells, Between, Recorded, OkDone, Recording
<1>8. Unpacking' /\ ApplyingTurn' /\ ApplyLoop' /\ FinishLoop' /\ ForwardLoop'
  BY <1>1, <1>2 DEF SwapInv, Unpacking, ApplyingTurn, ApplyLoop, FinishLoop, ForwardLoop
<1>9. UndoLoop'
  <2>1. todo \subseteq InArchive /\ v \in InArchive
    BY <1>1 DEF SwapInv, UndoLoop, Turn
  <2>2. \A w \in Volumes : (movedOut'[w] \/ Kept(w)') /\ (Unreplaced(w) => Unreplaced(w)')
    BY <1>1, <1>2 DEF SwapInv, UndoLoop, Kept, Unreplaced, LeftInOld
  <2>3. CASE ~oldDir[v]
    <3>1. Unreplaced(v)
      BY <1>1, <2>3
         DEF SwapInv, Shape, VolumeShape, Unreplaced, Kept, Moved, Replaced, UndoLoop, IsPrevious, Holds, IsEmpty
    <3>2. QED BY <1>1, <1>2, <2>1, <2>2, <2>3, <3>1 DEF SwapInv, UndoLoop
  <2>4. CASE oldDir[v]
    <3>1. \A w \in Volumes : Turn(w)' => w = v
      BY <1>1, <1>2, <2>4, FileSwapAssumption DEF Turn, Volumes
    <3>2. step' = "back" => movedOut[v] /\ newDir'[v]
      BY <1>1, <2>4 DEF SwapInv, FileTypeOK
    <3>3. step' \in {"back", "return"} /\ (step' = "return" => ~movedOut[v])
      BY <1>1, <2>4
    <3>4. QED BY <1>1, <1>2, <2>1, <2>2, <2>4, <3>1, <3>2, <3>3 DEF SwapInv, UndoLoop
  <2>5. QED BY <2>3, <2>4
<1>10. QED BY <1>3, <1>4, <1>5, <1>6, <1>7, <1>8, <1>9 DEF SwapInv

\* The archive's files go back to NEW_DIR.
LEMMA MoveBackPreserves ==
  ASSUME SwapInv, NEW v \in Volumes, NEW n \in Names, MoveBack(v, n)
  PROVE  SwapInv'
<1>1. /\ op = "undo" /\ Turn(v) /\ step = "back" /\ live[v][n] # "none"
      /\ live' = [live EXCEPT ![v][n] = "none"] /\ new' = [new EXCEPT ![v][n] = live[v][n]]
  BY DEF MoveBack, Turn, Move
<1>2. /\ old' = old /\ newDir' = newDir /\ oldDir' = oldDir /\ movedOut' = movedOut /\ journal' = journal
      /\ report' = report /\ committed' = committed /\ op' = op /\ step' = step /\ todo' = todo
      /\ swaps' = swaps /\ outcome' = outcome /\ crashes' = crashes /\ failures' = failures /\ runs' = runs
  BY DEF MoveBack, dirs, memory, bounds
<1>3. FileTypeOK'
  BY <1>1, <1>2 DEF SwapInv, FileTypeOK
<1>4. Shape'
  BY <1>1, <1>2, FileSwapAssumption, SMTT(20)
     DEF SwapInv, Shape, VolumeShape, Kept, Moved, Replaced, Untouched, FileTypeOK, UndoLoop
<1>5. ReadyToFinish'
  BY <1>1, <1>2, FileSwapAssumption DEF SwapInv, ReadyToFinish, Armed, JournalTells
<1>6. NotReplaced'
  BY <1>1, <1>2, FileSwapAssumption DEF SwapInv, NotReplaced, NothingDone, Recording, JournalTells
<1>7. JournalTells' /\ Between' /\ Recorded' /\ OkDone'
  BY <1>1, <1>2 DEF SwapInv, JournalTells, Between, Recorded, OkDone, Recording
<1>8. Unpacking' /\ ApplyingTurn' /\ ApplyLoop' /\ FinishLoop' /\ ForwardLoop'
  BY <1>1, <1>2 DEF SwapInv, Unpacking, ApplyingTurn, ApplyLoop, FinishLoop, ForwardLoop
<1>9. UndoLoop'
  BY <1>1, <1>2, FileSwapAssumption DEF SwapInv, UndoLoop, Unreplaced, LeftInOld, Kept, Turn
<1>10. QED BY <1>3, <1>4, <1>5, <1>6, <1>7, <1>8, <1>9 DEF SwapInv

\* The marker goes once nothing of the archive's is live.
LEMMA UnlinkMovedOutPreserves ==
  ASSUME SwapInv, NEW v \in Volumes, UnlinkMovedOut(v)
  PROVE  SwapInv'
<1>1. /\ op = "undo" /\ Turn(v) /\ step = "back" /\ IsEmpty(live[v])
      /\ movedOut' = [movedOut EXCEPT ![v] = FALSE] /\ step' = "return" /\ op' = op /\ todo' = todo
  BY DEF UnlinkMovedOut, Turn, AtStep
<1>2. /\ live' = live /\ new' = new /\ old' = old /\ newDir' = newDir /\ oldDir' = oldDir
      /\ journal' = journal /\ report' = report /\ committed' = committed /\ swaps' = swaps
      /\ outcome' = outcome /\ crashes' = crashes /\ failures' = failures /\ runs' = runs
  BY DEF UnlinkMovedOut, AtStep, files, bounds
<1>3. FileTypeOK'
  BY <1>1, <1>2, FileSwapAssumption DEF SwapInv, FileTypeOK, Steps
<1>4. Shape'
  BY <1>1, <1>2, FileSwapAssumption, SMTT(20)
     DEF SwapInv, Shape, VolumeShape, Kept, Moved, Replaced, Untouched, IsPrevious, IsEmpty, Holds
<1>5. ReadyToFinish'
  BY <1>1, <1>2, FileSwapAssumption DEF SwapInv, ReadyToFinish, Armed, JournalTells
<1>6. NotReplaced'
  BY <1>1, <1>2, FileSwapAssumption DEF SwapInv, NotReplaced, NothingDone, Recording, JournalTells
<1>7. JournalTells' /\ Between' /\ Recorded' /\ OkDone'
  BY <1>1, <1>2 DEF SwapInv, JournalTells, Between, Recorded, OkDone, Recording
<1>8. Unpacking' /\ ApplyingTurn' /\ ApplyLoop' /\ FinishLoop' /\ ForwardLoop'
  BY <1>1, <1>2 DEF SwapInv, Unpacking, ApplyingTurn, ApplyLoop, FinishLoop, ForwardLoop
<1>9. UndoLoop'
  BY <1>1, <1>2, FileSwapAssumption, SMTT(20)
     DEF SwapInv, UndoLoop, Unreplaced, LeftInOld, Kept, FileTypeOK, IsPrevious, IsEmpty, Holds, Turn, Volumes,
         Shape, VolumeShape, Moved
<1>10. QED BY <1>3, <1>4, <1>5, <1>6, <1>7, <1>8, <1>9 DEF SwapInv

\* A previous file goes from OLD_DIR to live.
LEMMA ReturnPreserves ==
  ASSUME SwapInv, NEW v \in Volumes, NEW n \in Names, Return(v, n)
  PROVE  SwapInv'
<1>1. /\ op = "undo" /\ Turn(v) /\ step = "return" /\ old[v][n] # "none"
      /\ old' = [old EXCEPT ![v][n] = "none"] /\ live' = [live EXCEPT ![v][n] = old[v][n]]
  BY DEF Return, Turn, Move
<1>2. /\ new' = new /\ newDir' = newDir /\ oldDir' = oldDir /\ movedOut' = movedOut /\ journal' = journal
      /\ report' = report /\ committed' = committed /\ op' = op /\ step' = step /\ todo' = todo
      /\ swaps' = swaps /\ outcome' = outcome /\ crashes' = crashes /\ failures' = failures /\ runs' = runs
  BY DEF Return, dirs, memory, bounds
<1>3. FileTypeOK'
  BY <1>1, <1>2 DEF SwapInv, FileTypeOK
<1>4. Shape'
  BY <1>1, <1>2, FileSwapAssumption, SMTT(20)
     DEF SwapInv, Shape, VolumeShape, Kept, Moved, Replaced, Untouched, FileTypeOK, UndoLoop
<1>5. ReadyToFinish'
  BY <1>1, <1>2, FileSwapAssumption DEF SwapInv, ReadyToFinish, Armed, JournalTells
<1>6. NotReplaced'
  BY <1>1, <1>2, FileSwapAssumption DEF SwapInv, NotReplaced, NothingDone, Recording, JournalTells
<1>7. JournalTells' /\ Between' /\ Recorded' /\ OkDone'
  BY <1>1, <1>2 DEF SwapInv, JournalTells, Between, Recorded, OkDone, Recording
<1>8. Unpacking' /\ ApplyingTurn' /\ ApplyLoop' /\ FinishLoop' /\ ForwardLoop'
  BY <1>1, <1>2 DEF SwapInv, Unpacking, ApplyingTurn, ApplyLoop, FinishLoop, ForwardLoop
<1>9. UndoLoop'
  BY <1>1, <1>2, FileSwapAssumption, SMTT(20)
     DEF SwapInv, UndoLoop, Unreplaced, LeftInOld, Kept, FileTypeOK, Turn
<1>10. QED BY <1>3, <1>4, <1>5, <1>6, <1>7, <1>8, <1>9 DEF SwapInv

\* OLD_DIR goes once every previous file is live.
LEMMA RemoveOldPreserves ==
  ASSUME SwapInv, NEW v \in Volumes, RemoveOld(v)
  PROVE  SwapInv'
<1>1. /\ op = "undo" /\ Turn(v) /\ step = "return" /\ IsEmpty(old[v])
      /\ oldDir' = [oldDir EXCEPT ![v] = FALSE] /\ step' = "sweep" /\ op' = op /\ todo' = todo
  BY DEF RemoveOld, Turn, AtStep
<1>2. /\ live' = live /\ new' = new /\ old' = old /\ newDir' = newDir /\ movedOut' = movedOut
      /\ journal' = journal /\ report' = report /\ committed' = committed /\ swaps' = swaps
      /\ outcome' = outcome /\ crashes' = crashes /\ failures' = failures /\ runs' = runs
  BY DEF RemoveOld, AtStep, files, bounds
<1>3. FileTypeOK'
  BY <1>1, <1>2, FileSwapAssumption DEF SwapInv, FileTypeOK, Steps
<1>4. Shape'
  BY <1>1, <1>2, FileSwapAssumption, SMTT(20)
     DEF SwapInv, Shape, VolumeShape, Kept, Moved, Replaced, Untouched, ApplyLoop, ApplyingTurn, FinishLoop,
         ForwardLoop, UndoLoop, Unpacking, ReadyToFinish, Unreplaced
<1>5. ReadyToFinish'
  BY <1>1, <1>2, FileSwapAssumption, SMTT(20)
     DEF SwapInv, ReadyToFinish, Armed, Ready, Sweeping, AllThere, Kept, Replaced
<1>6. NotReplaced'
  BY <1>1, <1>2, FileSwapAssumption DEF SwapInv, NotReplaced, NothingDone, Recording, JournalTells
<1>7. JournalTells' /\ Between' /\ Recorded' /\ OkDone'
  BY <1>1, <1>2 DEF SwapInv, JournalTells, Between, Recorded, OkDone, Recording
<1>8. Unpacking' /\ ApplyingTurn' /\ ApplyLoop' /\ FinishLoop' /\ ForwardLoop'
  BY <1>1, <1>2 DEF SwapInv, Unpacking, ApplyingTurn, ApplyLoop, FinishLoop, ForwardLoop
<1>9. UndoLoop'
  BY <1>1, <1>2, FileSwapAssumption, SMTT(20)
     DEF SwapInv, UndoLoop, Unreplaced, LeftInOld, Kept, FileTypeOK, IsPrevious, IsEmpty, Holds, Turn, Volumes
<1>10. QED BY <1>3, <1>4, <1>5, <1>6, <1>7, <1>8, <1>9 DEF SwapInv

\* A volume that could not be put back keeps OLD_DIR.
LEMMA UndoFailsPreserves ==
  ASSUME SwapInv, NEW v \in Volumes, UndoFails(v)
  PROVE  SwapInv'
<1>1. /\ op = "undo" /\ Turn(v) /\ step \in {"back", "return"} /\ failures < MaxFailures
      /\ failures' = failures + 1 /\ todo' = todo \ {v} /\ step' = "look" /\ op' = op
  BY DEF UndoFails, Turn, NextVolume, FirstStep
<1>2. /\ disk' = disk /\ swaps' = swaps /\ outcome' = outcome /\ crashes' = crashes /\ runs' = runs
  BY DEF UndoFails, NextVolume
<1>3. /\ live' = live /\ new' = new /\ old' = old /\ newDir' = newDir /\ oldDir' = oldDir
      /\ movedOut' = movedOut /\ journal' = journal /\ report' = report /\ committed' = committed
  BY <1>2 DEF disk, files, dirs
<1>4. FileTypeOK'
  BY <1>1, <1>2, <1>3, FileSwapAssumption DEF SwapInv, FileTypeOK, Steps
<1>5. Shape'
  BY <1>1, <1>2, <1>3, FileSwapAssumption, SMTT(20)
     DEF SwapInv, Shape, VolumeShape, Kept, Moved, Replaced, Untouched
<1>6. ReadyToFinish'
  BY <1>1, <1>2, <1>3, FileSwapAssumption, SMTT(20)
     DEF SwapInv, ReadyToFinish, Armed, Ready, Sweeping, AllThere, Kept, Replaced
<1>7. NotReplaced'
  BY <1>1, <1>2, <1>3, FileSwapAssumption
     DEF SwapInv, NotReplaced, NothingDone, Recording, Unreplaced, LeftInOld
<1>8. JournalTells' /\ Between' /\ Recorded' /\ OkDone'
  BY <1>1, <1>2, <1>3 DEF SwapInv, JournalTells, Between, Recorded, OkDone, Recording
<1>9. Unpacking' /\ ApplyingTurn' /\ ApplyLoop' /\ FinishLoop' /\ ForwardLoop'
  BY <1>1, <1>2, <1>3 DEF SwapInv, Unpacking, ApplyingTurn, ApplyLoop, FinishLoop, ForwardLoop
<1>10. UndoLoop'
  BY <1>1, <1>2, <1>3, FileSwapAssumption, SMTT(20)
     DEF SwapInv, UndoLoop, Unreplaced, LeftInOld, Kept, IsPrevious, IsEmpty, Holds, Shape, VolumeShape, Moved
<1>11. QED BY <1>4, <1>5, <1>6, <1>7, <1>8, <1>9, <1>10 DEF SwapInv

\* Every volume was put back, or keeps OLD_DIR.
LEMMA UndoDonePreserves ==
  ASSUME SwapInv, UndoDone
  PROVE  SwapInv'
<1>1. /\ op = "undo" /\ todo = {} /\ op' = "settle" /\ step' = "none" /\ todo' = {}
  BY DEF UndoDone, Go, FirstStep
<1>2. /\ disk' = disk /\ swaps' = swaps /\ outcome' = outcome /\ crashes' = crashes /\ failures' = failures
      /\ runs' = runs
  BY DEF UndoDone, Go, bounds
<1>3. /\ live' = live /\ new' = new /\ old' = old /\ newDir' = newDir /\ oldDir' = oldDir
      /\ movedOut' = movedOut /\ journal' = journal /\ report' = report /\ committed' = committed
  BY <1>2 DEF disk, files, dirs
<1>4. FileTypeOK'
  BY <1>1, <1>2, <1>3, FileSwapAssumption DEF SwapInv, FileTypeOK, Ops, Steps
<1>5. Shape'
  BY <1>1, <1>2, <1>3, FileSwapAssumption, SMTT(20)
     DEF SwapInv, Shape, VolumeShape, Kept, Moved, Replaced, Untouched
<1>6. ReadyToFinish'
  BY <1>1, <1>2, <1>3, FileSwapAssumption, SMTT(20)
     DEF SwapInv, ReadyToFinish, Armed, Ready, Sweeping, AllThere, Kept, Replaced
<1>7. NotReplaced'
  BY <1>1, <1>2, <1>3, FileSwapAssumption DEF SwapInv, NotReplaced, Unreplaced, LeftInOld, UndoLoop
<1>8. JournalTells' /\ Between' /\ Recorded' /\ OkDone'
  BY <1>1, <1>2, <1>3 DEF SwapInv, JournalTells, Between, Recorded, OkDone, Recording
<1>9. Unpacking' /\ ApplyingTurn' /\ ApplyLoop' /\ FinishLoop' /\ ForwardLoop' /\ UndoLoop'
  BY <1>1, <1>2, <1>3, SMTT(20)
     DEF SwapInv, Unpacking, ApplyingTurn, ApplyLoop, FinishLoop, ForwardLoop, UndoLoop
<1>10. QED BY <1>4, <1>5, <1>6, <1>7, <1>8, <1>9 DEF SwapInv

\* The discarded run changed no volume.
LEMMA DiscardDonePreserves ==
  ASSUME SwapInv, DiscardDone
  PROVE  SwapInv'
<1>1. /\ op = "discard" /\ todo = {} /\ op' = "settle" /\ step' = "none" /\ todo' = {}
  BY DEF DiscardDone, Go, FirstStep
<1>2. /\ disk' = disk /\ swaps' = swaps /\ outcome' = outcome /\ crashes' = crashes /\ failures' = failures
      /\ runs' = runs
  BY DEF DiscardDone, Go, bounds
<1>3. /\ live' = live /\ new' = new /\ old' = old /\ newDir' = newDir /\ oldDir' = oldDir
      /\ movedOut' = movedOut /\ journal' = journal /\ report' = report /\ committed' = committed
  BY <1>2 DEF disk, files, dirs
<1>4. FileTypeOK'
  BY <1>1, <1>2, <1>3, FileSwapAssumption DEF SwapInv, FileTypeOK, Ops, Steps
<1>5. Shape'
  BY <1>1, <1>2, <1>3, FileSwapAssumption, SMTT(20)
     DEF SwapInv, Shape, VolumeShape, Kept, Moved, Replaced, Untouched
<1>6. ReadyToFinish'
  BY <1>1, <1>2, <1>3, FileSwapAssumption, SMTT(20)
     DEF SwapInv, ReadyToFinish, Armed, Ready, Sweeping, AllThere, Kept, Replaced
<1>7. NotReplaced'
  BY <1>1, <1>2, <1>3, FileSwapAssumption
     DEF SwapInv, NotReplaced, NothingDone, Unreplaced, LeftInOld, JournalTells
<1>8. JournalTells' /\ Between' /\ Recorded' /\ OkDone'
  BY <1>1, <1>2, <1>3 DEF SwapInv, JournalTells, Between, Recorded, OkDone, Recording
<1>9. Unpacking' /\ ApplyingTurn' /\ ApplyLoop' /\ FinishLoop' /\ ForwardLoop' /\ UndoLoop'
  BY <1>1, <1>2, <1>3, SMTT(20)
     DEF SwapInv, Unpacking, ApplyingTurn, ApplyLoop, FinishLoop, ForwardLoop, UndoLoop
<1>10. QED BY <1>4, <1>5, <1>6, <1>7, <1>8, <1>9 DEF SwapInv

\* The journal goes when nothing is left to recover.
LEMMA SettlePreserves ==
  ASSUME SwapInv, Settle
  PROVE  SwapInv'
<1>1. /\ op = "settle" /\ journal' = "none" /\ op' = "record" /\ step' = "none" /\ todo' = {}
  BY DEF Settle, Go, FirstStep
<1>2. /\ live' = live /\ new' = new /\ old' = old /\ newDir' = newDir /\ oldDir' = oldDir
      /\ movedOut' = movedOut /\ report' = report /\ committed' = committed /\ swaps' = swaps
      /\ outcome' = outcome /\ crashes' = crashes /\ failures' = failures /\ runs' = runs
  BY DEF Settle, Go, files, dirs, bounds
<1>3. FileTypeOK'
  BY <1>1, <1>2, FileSwapAssumption DEF SwapInv, FileTypeOK, Ops, Steps
<1>4. Shape'
  BY <1>1, <1>2, FileSwapAssumption, SMTT(20) DEF SwapInv, Shape, VolumeShape, Kept, Moved, Replaced, Untouched
<1>5. ReadyToFinish'
  BY <1>1, <1>2, FileSwapAssumption DEF SwapInv, ReadyToFinish, Armed
<1>6. NotReplaced'
  BY <1>1, <1>2, FileSwapAssumption DEF SwapInv, NotReplaced, NothingDone, Recording, Unreplaced, LeftInOld
<1>7. JournalTells' /\ Between' /\ Recorded'
  BY <1>1, <1>2 DEF SwapInv, JournalTells, Between, Recorded
<1>8. OkDone'
  BY <1>1, <1>2, FileSwapAssumption DEF SwapInv, OkDone, Recording, Replaced
<1>9. Unpacking' /\ ApplyingTurn' /\ ApplyLoop' /\ FinishLoop' /\ ForwardLoop' /\ UndoLoop'
  BY <1>1, <1>2, SMTT(20) DEF SwapInv, Unpacking, ApplyingTurn, ApplyLoop, FinishLoop, ForwardLoop, UndoLoop
<1>10. QED BY <1>3, <1>4, <1>5, <1>6, <1>7, <1>8, <1>9 DEF SwapInv

\* A journal that stays says the same as before.
LEMMA SettleFailsPreserves ==
  ASSUME SwapInv, SettleFails
  PROVE  SwapInv'
<1>1. /\ op = "settle" /\ failures < MaxFailures /\ failures' = failures + 1 /\ op' = "record"
      /\ step' = "none" /\ todo' = {}
  BY DEF SettleFails, Go, FirstStep
<1>2. /\ disk' = disk /\ swaps' = swaps /\ outcome' = outcome /\ crashes' = crashes /\ runs' = runs
  BY DEF SettleFails, Go
<1>3. /\ live' = live /\ new' = new /\ old' = old /\ newDir' = newDir /\ oldDir' = oldDir
      /\ movedOut' = movedOut /\ journal' = journal /\ report' = report /\ committed' = committed
  BY <1>2 DEF disk, files, dirs
<1>4. FileTypeOK'
  BY <1>1, <1>2, <1>3, FileSwapAssumption DEF SwapInv, FileTypeOK, Ops, Steps
<1>5. Shape'
  BY <1>1, <1>2, <1>3, FileSwapAssumption, SMTT(20)
     DEF SwapInv, Shape, VolumeShape, Kept, Moved, Replaced, Untouched
<1>6. ReadyToFinish'
  BY <1>1, <1>2, <1>3, FileSwapAssumption, SMTT(20)
     DEF SwapInv, ReadyToFinish, Armed, Ready, Sweeping, AllThere, Kept, Replaced
<1>7. NotReplaced'
  BY <1>1, <1>2, <1>3, FileSwapAssumption
     DEF SwapInv, NotReplaced, NothingDone, Recording, Unreplaced, LeftInOld
<1>8. JournalTells' /\ Between' /\ Recorded'
  BY <1>1, <1>2, <1>3 DEF SwapInv, JournalTells, Between, Recorded
<1>9. OkDone'
  BY <1>1, <1>2, <1>3, FileSwapAssumption DEF SwapInv, OkDone, Recording, Replaced
<1>10. Unpacking' /\ ApplyingTurn' /\ ApplyLoop' /\ FinishLoop' /\ ForwardLoop' /\ UndoLoop'
  BY <1>1, <1>2, <1>3, SMTT(20)
     DEF SwapInv, Unpacking, ApplyingTurn, ApplyLoop, FinishLoop, ForwardLoop, UndoLoop
<1>11. QED BY <1>4, <1>5, <1>6, <1>7, <1>8, <1>9, <1>10 DEF SwapInv

\* The outcome is written.
LEMMA RecordPreserves ==
  ASSUME SwapInv, Record
  PROVE  SwapInv'
<1>1. op = "record" /\ Say(outcome) /\ op' = "idle" /\ step' = "none" /\ todo' = {}
  BY DEF Record, Go, FirstStep
<1>2. /\ live' = live /\ new' = new /\ old' = old /\ newDir' = newDir /\ oldDir' = oldDir
      /\ movedOut' = movedOut /\ journal' = journal /\ committed' = committed /\ swaps' = swaps
      /\ outcome' = outcome /\ crashes' = crashes /\ runs' = runs
  BY DEF Record, files, dirs
<1>said. /\ report' \in [what : Outcomes \union {"lost"}, kept : BOOLEAN]
         /\ report'.what # "none" /\ failures' \in 0 .. MaxFailures
  <2>1. FileTypeOK /\ outcome \in Outcomes /\ outcome # "none"
    BY <1>1 DEF SwapInv, FileTypeOK, Recorded
  <2>2. QED BY <1>1, <2>1, SayTyped
<1>3. FileTypeOK'
  BY <1>1, <1>2, <1>said DEF SwapInv, FileTypeOK, Ops, Steps
<1>4. Shape'
  BY <1>1, <1>2, FileSwapAssumption, SMTT(20) DEF SwapInv, Shape, VolumeShape, Kept, Moved, Replaced, Untouched
<1>5. ReadyToFinish'
  BY <1>1, <1>2, FileSwapAssumption, SMTT(20)
     DEF SwapInv, ReadyToFinish, Armed, Ready, Sweeping, AllThere, Kept, Replaced
<1>6. NotReplaced'
  BY <1>1, <1>2, FileSwapAssumption DEF SwapInv, NotReplaced, NothingDone, Recording, Unreplaced, LeftInOld
<1>7. JournalTells' /\ Between' /\ Recorded' /\ OkDone'
  BY <1>1, <1>2, <1>said DEF SwapInv, JournalTells, Between, Recorded, OkDone, Recording
<1>8. Unpacking' /\ ApplyingTurn' /\ ApplyLoop' /\ FinishLoop' /\ ForwardLoop' /\ UndoLoop'
  BY <1>1, <1>2, SMTT(20) DEF SwapInv, Unpacking, ApplyingTurn, ApplyLoop, FinishLoop, ForwardLoop, UndoLoop
<1>9. QED BY <1>3, <1>4, <1>5, <1>6, <1>7, <1>8 DEF SwapInv

\* A stop outside the known windows leaves what the journal says.
LEMMA CrashPreserves ==
  ASSUME SwapInv, UnsafeCrashes = {}, Crash
  PROVE  SwapInv'
<1>1. /\ op # "down" /\ (op = "idle" => journal # "none")
      /\ ~(step = "sweep" /\ op \in {"finish", "forward"})
      /\ ~(journal = "swapping" /\ outcome \in {"put_back", "nothing_changed"})
      /\ crashes < MaxCrashes /\ crashes' = crashes + 1
      /\ swaps' = {} /\ outcome' = "none" /\ op' = "down" /\ step' = "none" /\ todo' = {}
  BY DEF Crash, Window, Go, FirstStep
<1>2. failures' = failures /\ runs' = runs
  BY DEF Crash
<1>3. /\ live' = live /\ new' = new /\ old' = old /\ newDir' = newDir /\ oldDir' = oldDir
      /\ movedOut' = movedOut /\ journal' = journal /\ committed' = committed
  BY DEF Crash, files, dirs
<1>said. /\ report' \in [what : Outcomes \union {"lost"}, kept : BOOLEAN]
         /\ report.what # "none" => report'.what # "none"
         /\ journal = "none" /\ op # "idle" => report'.what # "none"
  BY StopTyped DEF SwapInv, Crash
<1>4. FileTypeOK'
  BY <1>1, <1>2, <1>3, <1>said, FileSwapAssumption DEF SwapInv, FileTypeOK, Ops, Steps, Outcomes
<1>5. Shape'
  BY <1>1, <1>2, <1>3, FileSwapAssumption, SMTT(20)
     DEF SwapInv, Shape, VolumeShape, Kept, Moved, Replaced, Untouched
<1>6. ReadyToFinish'
  BY <1>1, <1>2, <1>3, FileSwapAssumption, SMTT(20)
     DEF SwapInv, ReadyToFinish, Armed, Ready, Sweeping, AllThere, Kept, Replaced
<1>7. NotReplaced'
  BY <1>1, <1>2, <1>3, FileSwapAssumption
     DEF SwapInv, NotReplaced, NothingDone, Recording, Unreplaced, LeftInOld
<1>8. JournalTells' /\ Between' /\ Recorded' /\ OkDone'
  BY <1>1, <1>2, <1>3, <1>said DEF SwapInv, JournalTells, Between, Recorded, OkDone, Recording
<1>9. Unpacking' /\ ApplyingTurn' /\ ApplyLoop' /\ FinishLoop' /\ ForwardLoop' /\ UndoLoop'
  BY <1>1, <1>2, <1>3, SMTT(20)
     DEF SwapInv, Unpacking, ApplyingTurn, ApplyLoop, FinishLoop, ForwardLoop, UndoLoop
<1>10. QED BY <1>4, <1>5, <1>6, <1>7, <1>8, <1>9 DEF SwapInv

\* A stop while nothing is under way: only what is shown may change.
LEMMA RestartedPreserves ==
  ASSUME SwapInv, Restarted
  PROVE  SwapInv'
<1>1. op \in {"idle", "down"} /\ UNCHANGED memory /\ UNCHANGED bounds
  BY DEF Restarted
<1>2. /\ live' = live /\ new' = new /\ old' = old /\ newDir' = newDir /\ oldDir' = oldDir
      /\ movedOut' = movedOut /\ journal' = journal /\ committed' = committed
  BY DEF Restarted, files, dirs
<1>3. /\ op' = op /\ step' = step /\ todo' = todo /\ swaps' = swaps /\ outcome' = outcome
      /\ crashes' = crashes /\ failures' = failures /\ runs' = runs
  BY <1>1 DEF memory, bounds
<1>4. /\ report' \in [what : Outcomes \union {"lost"}, kept : BOOLEAN]
      /\ report.what # "none" => report'.what # "none"
  BY StopTyped DEF SwapInv, Restarted
<1>5. FileTypeOK'
  BY <1>2, <1>3, <1>4 DEF SwapInv, FileTypeOK
<1>6. Shape'
  BY <1>2 DEF SwapInv, Shape, VolumeShape, Kept, Moved, Replaced, Untouched
<1>7. ReadyToFinish'
  BY <1>2, <1>3 DEF SwapInv, ReadyToFinish, Armed, Ready, Sweeping, Turn, AllThere, Kept, Replaced
<1>8. NotReplaced'
  BY <1>2, <1>3 DEF SwapInv, NotReplaced, NothingDone, Recording, Unreplaced, LeftInOld
<1>9. JournalTells' /\ Recorded'
  BY <1>2, <1>3, <1>4 DEF SwapInv, JournalTells, Recorded
<1>10. Between' /\ OkDone'
  BY <1>1, <1>2, <1>3 DEF SwapInv, Between, OkDone, Recording
<1>11. Unpacking' /\ ApplyingTurn' /\ ApplyLoop' /\ FinishLoop' /\ ForwardLoop' /\ UndoLoop'
  BY <1>1, <1>3 DEF SwapInv, Unpacking, ApplyingTurn, ApplyLoop, FinishLoop, ForwardLoop, UndoLoop
<1>12. QED BY <1>5, <1>6, <1>7, <1>8, <1>9, <1>10, <1>11 DEF SwapInv

\* Without a journal there is nothing to do.
LEMMA RestartCleanPreserves ==
  ASSUME SwapInv, RestartClean
  PROVE  SwapInv'
<1>1. /\ op = "down" /\ journal = "none" /\ op' = "idle" /\ step' = "none" /\ todo' = {}
  BY DEF RestartClean, Go, FirstStep
<1>2. /\ disk' = disk /\ swaps' = swaps /\ outcome' = outcome /\ crashes' = crashes /\ failures' = failures
      /\ runs' = runs
  BY DEF RestartClean, Go, bounds
<1>3. /\ live' = live /\ new' = new /\ old' = old /\ newDir' = newDir /\ oldDir' = oldDir
      /\ movedOut' = movedOut /\ journal' = journal /\ report' = report /\ committed' = committed
  BY <1>2 DEF disk, files, dirs
<1>4. FileTypeOK'
  BY <1>1, <1>2, <1>3, FileSwapAssumption DEF SwapInv, FileTypeOK, Ops, Steps
<1>5. Shape'
  BY <1>1, <1>2, <1>3, FileSwapAssumption, SMTT(20)
     DEF SwapInv, Shape, VolumeShape, Kept, Moved, Replaced, Untouched
<1>6. ReadyToFinish'
  BY <1>1, <1>2, <1>3, FileSwapAssumption DEF SwapInv, ReadyToFinish, Armed
<1>7. NotReplaced'
  BY <1>1, <1>2, <1>3, FileSwapAssumption DEF SwapInv, NotReplaced, NothingDone, Recording
<1>8. JournalTells' /\ Between' /\ Recorded' /\ OkDone'
  BY <1>1, <1>2, <1>3 DEF SwapInv, JournalTells, Between, Recorded, OkDone, Recording
<1>9. Unpacking' /\ ApplyingTurn' /\ ApplyLoop' /\ FinishLoop' /\ ForwardLoop' /\ UndoLoop'
  BY <1>1, <1>2, <1>3, SMTT(20)
     DEF SwapInv, Unpacking, ApplyingTurn, ApplyLoop, FinishLoop, ForwardLoop, UndoLoop
<1>10. QED BY <1>4, <1>5, <1>6, <1>7, <1>8, <1>9 DEF SwapInv

\* An unreplaced database drops what was unpacked.
LEMMA RestartDropPreserves ==
  ASSUME SwapInv, RestartDrop
  PROVE  SwapInv'
<1>1. /\ op = "down" /\ (journal = "preparing" \/ (journal = "database" /\ ~committed))
      /\ outcome' \in {"nothing_changed", "partial"} /\ op' = "drop" /\ step' = "sweep" /\ todo' = Volumes
  BY DEF RestartDrop, DropUnpacked, Go, Volumes, FirstStep
<1>2. /\ disk' = disk /\ swaps' = swaps /\ crashes' = crashes /\ failures' = failures /\ runs' = runs
  BY DEF RestartDrop, DropUnpacked, Go, Volumes, bounds
<1>3. /\ live' = live /\ new' = new /\ old' = old /\ newDir' = newDir /\ oldDir' = oldDir
      /\ movedOut' = movedOut /\ journal' = journal /\ report' = report /\ committed' = committed
  BY <1>2 DEF disk, files, dirs
<1>4. FileTypeOK'
  BY <1>1, <1>2, <1>3, FileSwapAssumption DEF SwapInv, FileTypeOK, Ops, Steps, Outcomes
<1>5. Shape'
  BY <1>1, <1>2, <1>3, FileSwapAssumption, SMTT(20)
     DEF SwapInv, Shape, VolumeShape, Kept, Moved, Replaced, Untouched
<1>6. ReadyToFinish'
  BY <1>1, <1>2, <1>3, FileSwapAssumption DEF SwapInv, ReadyToFinish, Armed
<1>7. NotReplaced'
  BY <1>1, <1>2, <1>3, FileSwapAssumption DEF SwapInv, NotReplaced, NothingDone, Unreplaced, LeftInOld
<1>8. JournalTells' /\ Between' /\ Recorded' /\ OkDone'
  BY <1>1, <1>2, <1>3 DEF SwapInv, JournalTells, Between, Recorded, OkDone, Recording
<1>9. Unpacking' /\ ApplyingTurn' /\ ApplyLoop' /\ FinishLoop' /\ ForwardLoop' /\ UndoLoop'
  BY <1>1, <1>2, <1>3, SMTT(20)
     DEF SwapInv, Unpacking, ApplyingTurn, ApplyLoop, FinishLoop, ForwardLoop, UndoLoop
<1>10. QED BY <1>4, <1>5, <1>6, <1>7, <1>8, <1>9 DEF SwapInv

\* A replaced one is rolled forward.
LEMMA RestartForwardPreserves ==
  ASSUME SwapInv, RestartForward
  PROVE  SwapInv'
<1>1. /\ op = "down" /\ (journal = "swapping" \/ (journal = "database" /\ committed)) /\ outcome' = "ok"
      /\ op' = "forward" /\ step' = "look" /\ todo' = Volumes
  BY DEF RestartForward, RollForward, Go, Volumes, FirstStep
<1>2. /\ disk' = disk /\ swaps' = swaps /\ crashes' = crashes /\ failures' = failures /\ runs' = runs
  BY DEF RestartForward, RollForward, Go, Volumes, bounds
<1>3. /\ live' = live /\ new' = new /\ old' = old /\ newDir' = newDir /\ oldDir' = oldDir
      /\ movedOut' = movedOut /\ journal' = journal /\ report' = report /\ committed' = committed
  BY <1>2 DEF disk, files, dirs
<1>4. FileTypeOK'
  BY <1>1, <1>2, <1>3, FileSwapAssumption DEF SwapInv, FileTypeOK, Ops, Steps, Outcomes
<1>5. Shape'
  BY <1>1, <1>2, <1>3, FileSwapAssumption, SMTT(20)
     DEF SwapInv, Shape, VolumeShape, Kept, Moved, Replaced, Untouched
<1>6. ReadyToFinish'
  BY <1>1, <1>2, <1>3, FileSwapAssumption, SMTT(20)
     DEF SwapInv, ReadyToFinish, Armed, Ready, Sweeping, AllThere, Kept, Replaced, JournalTells
<1>7. NotReplaced'
  BY <1>1, <1>2, <1>3, FileSwapAssumption DEF SwapInv, NotReplaced, NothingDone, Recording
<1>8. JournalTells' /\ Between' /\ Recorded' /\ OkDone'
  BY <1>1, <1>2, <1>3 DEF SwapInv, JournalTells, Between, Recorded, OkDone, Recording
<1>9. Unpacking' /\ ApplyingTurn' /\ ApplyLoop' /\ FinishLoop' /\ UndoLoop'
  BY <1>1, <1>2, <1>3 DEF SwapInv, Unpacking, ApplyingTurn, ApplyLoop, FinishLoop, UndoLoop
<1>10. ForwardLoop'
  <2>1. InArchive \ todo' = {}
    BY <1>1, FileSwapAssumption
  <2>2. step' = "look"
    BY <1>1
  <2>3. QED BY <2>1, <2>2 DEF ForwardLoop
<1>11. QED BY <1>4, <1>5, <1>6, <1>7, <1>8, <1>9, <1>10 DEF SwapInv

\* Rolling forward applies a volume that still has NEW_DIR.
LEMMA ForwardLookPreserves ==
  ASSUME SwapInv, NEW v \in Volumes, ForwardLook(v)
  PROVE  SwapInv'
<1>1. /\ op = "forward" /\ Turn(v) /\ step = "look" /\ (step' = IF newDir[v] THEN "mkdir" ELSE "keep")
      /\ op' = op /\ todo' = todo
  BY DEF ForwardLook, Turn, AtStep
<1>2. /\ disk' = disk /\ swaps' = swaps /\ outcome' = outcome /\ crashes' = crashes /\ failures' = failures
      /\ runs' = runs
  BY DEF ForwardLook, AtStep, bounds
<1>3. /\ live' = live /\ new' = new /\ old' = old /\ newDir' = newDir /\ oldDir' = oldDir
      /\ movedOut' = movedOut /\ journal' = journal /\ report' = report /\ committed' = committed
  BY <1>2 DEF disk, files, dirs
<1>4. FileTypeOK'
  BY <1>1, <1>2, <1>3, FileSwapAssumption DEF SwapInv, FileTypeOK, Steps
<1>5. Shape'
  BY <1>1, <1>2, <1>3, FileSwapAssumption, SMTT(20)
     DEF SwapInv, Shape, VolumeShape, Kept, Moved, Replaced, Untouched
<1>6. ReadyToFinish'
  BY <1>1, <1>2, <1>3, FileSwapAssumption, SMTT(20)
     DEF SwapInv, ReadyToFinish, Armed, Ready, Sweeping, AllThere, Kept, Replaced
<1>7. NotReplaced'
  BY <1>1, <1>2, <1>3, FileSwapAssumption
     DEF SwapInv, NotReplaced, NothingDone, Recording, Unreplaced, LeftInOld
<1>8. JournalTells' /\ Between' /\ Recorded' /\ OkDone'
  BY <1>1, <1>2, <1>3 DEF SwapInv, JournalTells, Between, Recorded, OkDone, Recording
<1>9. Unpacking' /\ ApplyLoop' /\ FinishLoop' /\ UndoLoop'
  BY <1>1, <1>2, <1>3 DEF SwapInv, Unpacking, ApplyLoop, FinishLoop, UndoLoop
<1>10. ApplyingTurn'
  BY <1>1, <1>2, <1>3, FileSwapAssumption DEF SwapInv, ApplyingTurn, Turn, Volumes
<1>11. ForwardLoop'
  BY <1>1, <1>2, <1>3, FileSwapAssumption, SMTT(20)
     DEF SwapInv, ForwardLoop, Replaced, Turn, Volumes, ReadyToFinish, Armed, Ready
<1>12. QED BY <1>4, <1>5, <1>6, <1>7, <1>8, <1>9, <1>10, <1>11 DEF SwapInv

\* A roll-forward that fails is given up.
LEMMA ForwardFailsPreserves ==
  ASSUME SwapInv, NEW v \in Volumes, ForwardFails(v)
  PROVE  SwapInv'
<1>1. /\ op = "forward" /\ Turn(v) /\ step # "sweep" /\ failures < MaxFailures /\ failures' = failures + 1
      /\ outcome' = "stuck" /\ op' = "resolve" /\ step' = "none" /\ todo' = {}
  BY DEF ForwardFails, Turn, Go, FirstStep
<1>2. /\ disk' = disk /\ swaps' = swaps /\ crashes' = crashes /\ runs' = runs
  BY DEF ForwardFails, Go
<1>3. /\ live' = live /\ new' = new /\ old' = old /\ newDir' = newDir /\ oldDir' = oldDir
      /\ movedOut' = movedOut /\ journal' = journal /\ report' = report /\ committed' = committed
  BY <1>2 DEF disk, files, dirs
<1>4. FileTypeOK'
  BY <1>1, <1>2, <1>3, FileSwapAssumption DEF SwapInv, FileTypeOK, Ops, Steps, Outcomes
<1>5. Shape'
  BY <1>1, <1>2, <1>3, FileSwapAssumption, SMTT(20)
     DEF SwapInv, Shape, VolumeShape, Kept, Moved, Replaced, Untouched
<1>6. ReadyToFinish'
  BY <1>1, <1>2, <1>3, FileSwapAssumption, SMTT(20)
     DEF SwapInv, ReadyToFinish, Armed, Ready, Sweeping, AllThere, Kept, Replaced
<1>7. NotReplaced'
  BY <1>1, <1>2, <1>3, FileSwapAssumption
     DEF SwapInv, NotReplaced, NothingDone, Recording, Unreplaced, LeftInOld
<1>8. JournalTells' /\ Between' /\ Recorded' /\ OkDone'
  BY <1>1, <1>2, <1>3 DEF SwapInv, JournalTells, Between, Recorded, OkDone, Recording
<1>9. Unpacking' /\ ApplyingTurn' /\ ApplyLoop' /\ FinishLoop' /\ ForwardLoop' /\ UndoLoop'
  BY <1>1, <1>2, <1>3, SMTT(20)
     DEF SwapInv, Unpacking, ApplyingTurn, ApplyLoop, FinishLoop, ForwardLoop, UndoLoop
<1>10. QED BY <1>4, <1>5, <1>6, <1>7, <1>8, <1>9 DEF SwapInv

\* Everything was dropped, or every volume is the archive's.
LEMMA RecoverDonePreserves ==
  ASSUME SwapInv, RecoverDone
  PROVE  SwapInv'
<1>1. /\ op \in {"drop", "forward"} /\ todo = {} /\ op' = "resolve" /\ step' = "none" /\ todo' = {}
  BY DEF RecoverDone, Go, FirstStep
<1>2. /\ disk' = disk /\ swaps' = swaps /\ outcome' = outcome /\ crashes' = crashes /\ failures' = failures
      /\ runs' = runs
  BY DEF RecoverDone, Go, bounds
<1>3. /\ live' = live /\ new' = new /\ old' = old /\ newDir' = newDir /\ oldDir' = oldDir
      /\ movedOut' = movedOut /\ journal' = journal /\ report' = report /\ committed' = committed
  BY <1>2 DEF disk, files, dirs
<1>4. FileTypeOK'
  BY <1>1, <1>2, <1>3, FileSwapAssumption DEF SwapInv, FileTypeOK, Ops, Steps
<1>5. Shape'
  BY <1>1, <1>2, <1>3, FileSwapAssumption, SMTT(20)
     DEF SwapInv, Shape, VolumeShape, Kept, Moved, Replaced, Untouched
<1>6. ReadyToFinish'
  BY <1>1, <1>2, <1>3, FileSwapAssumption, SMTT(20)
     DEF SwapInv, ReadyToFinish, Armed, Ready, Sweeping, AllThere, Kept, Replaced, Turn
<1>7. NotReplaced'
  BY <1>1, <1>2, <1>3, FileSwapAssumption, SMTT(20)
     DEF SwapInv, NotReplaced, NothingDone, Recording, Unreplaced, LeftInOld, JournalTells
<1>8. JournalTells' /\ Between' /\ Recorded'
  BY <1>1, <1>2, <1>3 DEF SwapInv, JournalTells, Between, Recorded
<1>9. OkDone'
  BY <1>1, <1>2, <1>3, FileSwapAssumption DEF SwapInv, OkDone, Recording, Replaced, JournalTells, ForwardLoop
<1>10. Unpacking' /\ ApplyingTurn' /\ ApplyLoop' /\ FinishLoop' /\ ForwardLoop' /\ UndoLoop'
  BY <1>1, <1>2, <1>3, SMTT(20)
     DEF SwapInv, Unpacking, ApplyingTurn, ApplyLoop, FinishLoop, ForwardLoop, UndoLoop
<1>11. QED BY <1>4, <1>5, <1>6, <1>7, <1>8, <1>9, <1>10 DEF SwapInv

\* recover records its outcome.
LEMMA ResolvePreserves ==
  ASSUME SwapInv, Resolve
  PROVE  SwapInv'
<1>1. op = "resolve" /\ Say(outcome) /\ op' = "close" /\ step' = "none" /\ todo' = {}
  BY DEF Resolve, Go, FirstStep
<1>2. /\ live' = live /\ new' = new /\ old' = old /\ newDir' = newDir /\ oldDir' = oldDir
      /\ movedOut' = movedOut /\ journal' = journal /\ committed' = committed /\ swaps' = swaps
      /\ outcome' = outcome /\ crashes' = crashes /\ runs' = runs
  BY DEF Resolve, files, dirs
<1>said. /\ report' \in [what : Outcomes \union {"lost"}, kept : BOOLEAN]
         /\ report'.what # "none" /\ failures' \in 0 .. MaxFailures
  <2>1. FileTypeOK /\ outcome \in Outcomes /\ outcome # "none"
    BY <1>1 DEF SwapInv, FileTypeOK, Recorded
  <2>2. QED BY <1>1, <2>1, SayTyped
<1>3. FileTypeOK'
  BY <1>1, <1>2, <1>said DEF SwapInv, FileTypeOK, Ops, Steps
<1>4. Shape'
  BY <1>1, <1>2, FileSwapAssumption, SMTT(20) DEF SwapInv, Shape, VolumeShape, Kept, Moved, Replaced, Untouched
<1>5. ReadyToFinish'
  BY <1>1, <1>2, FileSwapAssumption, SMTT(20)
     DEF SwapInv, ReadyToFinish, Armed, Ready, Sweeping, AllThere, Kept, Replaced
<1>6. NotReplaced'
  BY <1>1, <1>2, FileSwapAssumption DEF SwapInv, NotReplaced, NothingDone, Recording, Unreplaced, LeftInOld
<1>7. JournalTells' /\ Between' /\ Recorded'
  BY <1>1, <1>2, <1>said DEF SwapInv, JournalTells, Between, Recorded
<1>8. OkDone'
  BY <1>1, <1>2, FileSwapAssumption DEF SwapInv, OkDone, Recording, Replaced
<1>9. Unpacking' /\ ApplyingTurn' /\ ApplyLoop' /\ FinishLoop' /\ ForwardLoop' /\ UndoLoop'
  BY <1>1, <1>2, SMTT(20) DEF SwapInv, Unpacking, ApplyingTurn, ApplyLoop, FinishLoop, ForwardLoop, UndoLoop
<1>10. QED BY <1>3, <1>4, <1>5, <1>6, <1>7, <1>8, <1>9 DEF SwapInv

\* Then the journal goes.
LEMMA ClosePreserves ==
  ASSUME SwapInv, Close
  PROVE  SwapInv'
<1>1. /\ op = "close" /\ journal' = "none" /\ op' = "idle" /\ step' = "none" /\ todo' = {}
  BY DEF Close, Go, FirstStep
<1>2. /\ live' = live /\ new' = new /\ old' = old /\ newDir' = newDir /\ oldDir' = oldDir
      /\ movedOut' = movedOut /\ report' = report /\ committed' = committed /\ swaps' = swaps
      /\ outcome' = outcome /\ crashes' = crashes /\ failures' = failures /\ runs' = runs
  BY DEF Close, Go, files, dirs, bounds
<1>3. FileTypeOK'
  BY <1>1, <1>2, FileSwapAssumption DEF SwapInv, FileTypeOK, Ops, Steps
<1>4. Shape'
  BY <1>1, <1>2, FileSwapAssumption, SMTT(20) DEF SwapInv, Shape, VolumeShape, Kept, Moved, Replaced, Untouched
<1>5. ReadyToFinish'
  BY <1>1, <1>2, FileSwapAssumption DEF SwapInv, ReadyToFinish, Armed
<1>6. NotReplaced'
  BY <1>1, <1>2, FileSwapAssumption DEF SwapInv, NotReplaced, NothingDone, Recording
<1>7. JournalTells' /\ Between' /\ Recorded' /\ OkDone'
  BY <1>1, <1>2 DEF SwapInv, JournalTells, Between, Recorded, OkDone, Recording
<1>8. Unpacking' /\ ApplyingTurn' /\ ApplyLoop' /\ FinishLoop' /\ ForwardLoop' /\ UndoLoop'
  BY <1>1, <1>2, SMTT(20) DEF SwapInv, Unpacking, ApplyingTurn, ApplyLoop, FinishLoop, ForwardLoop, UndoLoop
<1>9. QED BY <1>3, <1>4, <1>5, <1>6, <1>7, <1>8 DEF SwapInv

-----------------------------------------------------------------------------
\* The first state: every volume has its previous files and nothing else.
LEMMA InitHolds == FileInit => SwapInv
<1>1. SUFFICES ASSUME FileInit PROVE SwapInv
  OBVIOUS
<1>2. /\ op = "idle" /\ step = "none" /\ todo = {} /\ swaps = {} /\ outcome = "none"
      /\ journal = "none" /\ report \in [what : {"none"}, kept : BOOLEAN] /\ committed = FALSE
      /\ crashes = 0 /\ failures = 0 /\ runs = 0
  BY <1>1 DEF FileInit
<1>3. FileTypeOK
  <2>1. live \in [Volumes -> [Names -> {"none", "previous", "archived"}]]
    BY <1>1 DEF FileInit
  <2>2. /\ new \in [Volumes -> [Names -> {"none", "previous", "archived"}]]
        /\ old \in [Volumes -> [Names -> {"none", "previous", "archived"}]]
    BY <1>1 DEF FileInit, Empty
  <2>3. newDir \in [Volumes -> BOOLEAN] /\ oldDir \in [Volumes -> BOOLEAN] /\ movedOut \in [Volumes -> BOOLEAN]
    BY <1>1 DEF FileInit
  <2>4. report \in [what : Outcomes \union {"lost"}, kept : BOOLEAN]
    BY <1>2 DEF Outcomes
  <2>5. op \in Ops /\ step \in Steps /\ outcome \in Outcomes
    BY <1>2 DEF Ops, Steps, Outcomes
  <2>6. /\ journal \in {"none", "preparing", "database", "swapping"} /\ committed \in BOOLEAN
        /\ todo \subseteq Volumes /\ swaps \subseteq InArchive
    BY <1>2
  <2>7. crashes \in 0 .. MaxCrashes /\ failures \in 0 .. MaxFailures /\ runs \in 0 .. MaxRuns
    BY <1>2, FileSwapAssumption
  <2>8. QED BY <2>1, <2>2, <2>3, <2>4, <2>5, <2>6, <2>7 DEF FileTypeOK
<1>4. \A v \in Volumes : Untouched(v)
  BY <1>1, FileSwapAssumption DEF FileInit, Untouched, IsPrevious, IsEmpty, Holds, Empty
<1>5. Shape
  BY <1>4, FileSwapAssumption DEF Shape, VolumeShape, Kept, Untouched, IsPrevious, IsEmpty, Holds
<1>6. ReadyToFinish /\ NotReplaced /\ OkDone
  BY <1>2 DEF ReadyToFinish, Armed, NotReplaced, NothingDone, OkDone, Recording
<1>7. JournalTells /\ Between /\ Recorded
  BY <1>2 DEF JournalTells, Between, Recorded
<1>8. Unpacking /\ ApplyingTurn /\ ApplyLoop /\ FinishLoop /\ ForwardLoop /\ UndoLoop
  BY <1>2 DEF Unpacking, ApplyingTurn, ApplyLoop, FinishLoop, ForwardLoop, UndoLoop
<1>9. QED BY <1>3, <1>5, <1>6, <1>7, <1>8 DEF SwapInv

\* A step that leaves everything alone.
LEMMA StutterPreserves ==
  ASSUME SwapInv, UNCHANGED fileVars
  PROVE  SwapInv'
<1>1. UNCHANGED disk /\ UNCHANGED memory /\ UNCHANGED bounds
  BY DEF fileVars
<1>2. /\ live' = live /\ new' = new /\ old' = old /\ newDir' = newDir /\ oldDir' = oldDir
      /\ movedOut' = movedOut /\ journal' = journal /\ report' = report /\ committed' = committed
  BY <1>1 DEF disk, files, dirs
<1>3. /\ op' = op /\ step' = step /\ todo' = todo /\ swaps' = swaps /\ outcome' = outcome
      /\ crashes' = crashes /\ failures' = failures /\ runs' = runs
  BY <1>1 DEF memory, bounds
<1>4. FileTypeOK'
  BY <1>2, <1>3 DEF SwapInv, FileTypeOK
<1>5. Shape'
  BY <1>2 DEF SwapInv, Shape, VolumeShape, Kept, Moved, Replaced, Untouched
<1>6. ReadyToFinish'
  BY <1>2, <1>3 DEF SwapInv, ReadyToFinish, Armed, Ready, Sweeping, Turn, AllThere, Kept, Replaced
<1>7. NotReplaced'
  BY <1>2, <1>3 DEF SwapInv, NotReplaced, NothingDone, Recording, Unreplaced, LeftInOld
<1>8. JournalTells' /\ Recorded'
  BY <1>2, <1>3 DEF SwapInv, JournalTells, Recorded
<1>9. Between' /\ Unpacking'
  BY <1>2, <1>3 DEF SwapInv, Between, Unpacking, Untouched, Turn
<1>10. ApplyingTurn' /\ ApplyLoop'
  BY <1>2, <1>3 DEF SwapInv, ApplyingTurn, ApplyLoop, Turn, Emptied
<1>11. FinishLoop' /\ ForwardLoop'
  BY <1>2, <1>3 DEF SwapInv, FinishLoop, ForwardLoop, Turn, Replaced, Emptied, Sweeping
<1>12. UndoLoop'
  BY <1>2, <1>3 DEF SwapInv, UndoLoop, Turn, Kept, Unreplaced, LeftInOld
<1>13. OkDone'
  BY <1>2, <1>3 DEF SwapInv, OkDone, Recording, Replaced
<1>14. QED BY <1>4, <1>5, <1>6, <1>7, <1>8, <1>9, <1>10, <1>11, <1>12, <1>13 DEF SwapInv

\* A step of a loop over the volumes.
LEMMA LoopPreserves ==
  ASSUME SwapInv, LoopStep
  PROVE  SwapInv'
<1>1. ASSUME NEW v \in Volumes, VolumeStep(v) PROVE SwapInv'
  BY <1>1,
     ClearRefusedPreserves, ClearPreserves, ExtractDirPreserves, ExtractedPreserves, MakeOldPreserves,
     TouchMovedOutPreserves, AppliedPreserves, DropOldPreserves, SweptPreserves, UndoLookPreserves,
     UnlinkMovedOutPreserves, RemoveOldPreserves, ForwardLookPreserves, UnpackFailsPreserves,
     ApplyFailsPreserves, FinishFailsPreserves, UndoFailsPreserves, ForwardFailsPreserves
     DEF VolumeStep, Failing
<1>2. ASSUME NEW v \in Volumes, NEW n \in Names, EntryStep(v, n) PROVE SwapInv'
  BY <1>2,
     ExtractPreserves, MoveOutPreserves, MoveInPreserves, SweepPreserves, MoveBackPreserves, ReturnPreserves
     DEF EntryStep
<1>3. ASSUME \/ ClearDone \/ UnpackDone \/ ApplyDone \/ FinishDone \/ UndoDone \/ DiscardDone
             \/ RecoverDone
      PROVE  SwapInv'
  BY <1>3,
     ClearDonePreserves, UnpackDonePreserves, ApplyDonePreserves, FinishDonePreserves, UndoDonePreserves,
     DiscardDonePreserves, RecoverDonePreserves
<1>4. QED BY <1>1, <1>2, <1>3 DEF LoopStep

\* Any step outside the known crash windows.
LEMMA NextPreserves ==
  ASSUME SwapInv, UnsafeCrashes = {}, [FileNext]_fileVars
  PROVE  SwapInv'
<1>1. CASE Progress
  BY <1>1, LoopPreserves,
     PrepareFailsPreserves, JournalDatabasePreserves, DatabaseFailsPreserves, DatabaseCommitsPreserves,
     JournalSwappingPreserves, AfterDatabaseFailsPreserves, StartSwapPreserves, SettlePreserves,
     SettleFailsPreserves, RecordPreserves, RestartCleanPreserves, RestartDropPreserves, RestartForwardPreserves,
     ResolvePreserves, ClosePreserves
     DEF Progress
<1>2. CASE Begin
  BY <1>2, BeginPreserves
<1>3. CASE RefuseEarly
  BY <1>3, RefuseEarlyPreserves
<1>4. CASE Crash
  BY <1>4, CrashPreserves
<1>5. CASE Restarted
  BY <1>5, RestartedPreserves
<1>6. CASE UNCHANGED fileVars
  BY <1>6, StutterPreserves
<1>7. QED BY <1>1, <1>2, <1>3, <1>4, <1>5, <1>6 DEF FileNext

-----------------------------------------------------------------------------
\* The inductive invariant of the file swap holds throughout, whatever fails
\* and wherever the process stops outside the known windows (run MCRestore).
THEOREM SwapInvHolds ==
  ASSUME UnsafeCrashes = {}
  PROVE  FileSpec => []SwapInv
<1>1. SwapInv /\ [FileNext]_fileVars => SwapInv'
  BY NextPreserves
<1>2. QED BY InitHolds, <1>1, PTL DEF FileSpec

\* Type correctness.
THEOREM TypeHolds ==
  ASSUME UnsafeCrashes = {}
  PROVE  FileSpec => []FileTypeOK
<1>1. SwapInv => FileTypeOK
  BY DEF SwapInv
<1>2. QED BY <1>1, SwapInvHolds, PTL

\* At every instant each volume still has every previous file, live or in
\* OLD_DIR, or holds all of the archive's (_Swap's order of renames).
THEOREM NothingIsLost ==
  ASSUME UnsafeCrashes = {}
  PROVE  FileSpec => []KeptUntilReplaced
<1>1. SwapInv => KeptUntilReplaced
  <2>1. SUFFICES ASSUME SwapInv, NEW v \in Volumes
                 PROVE  PreviousKept(v) \/ (v \in InArchive /\ IsArchived(live[v], v))
    BY DEF KeptUntilReplaced
  <2>2. CASE v \in InArchive
    <3>1. Moved(v) \/ Kept(v) \/ Replaced(v)
      <4>1. VolumeShape(v)
        BY <2>1 DEF SwapInv, Shape
      <4>2. QED BY <4>1 DEF VolumeShape
    <3>2. CASE Moved(v)
      BY <3>2, FileSwapAssumption DEF Moved, IsPrevious, Holds, PreviousKept
    <3>3. CASE Kept(v)
      BY <3>3, FileSwapAssumption DEF Kept, PreviousKept
    <3>4. QED BY <2>2, <3>1, <3>2, <3>3 DEF Replaced
  <2>3. CASE v \notin InArchive
    <3>1. VolumeShape(v)
      BY <2>1 DEF SwapInv, Shape
    <3>2. IsPrevious(live[v], v)
      BY <2>3, <3>1 DEF VolumeShape, Untouched
    <3>3. Previous[v] \subseteq Names
      BY <2>1, FileSwapAssumption
    <3>4. QED BY <3>2, <3>3 DEF IsPrevious, Holds, PreviousKept
  <2>4. QED BY <2>2, <2>3
<1>2. QED BY <1>1, SwapInvHolds, PTL

\* A restore reported ok, by its run or by recover after a restart, put the
\* archive's files in place, wholly and only, and left the other volumes alone.
THEOREM OkIsArchive ==
  ASSUME UnsafeCrashes = {}
  PROVE  FileSpec => []OkMeansArchiveInPlace
<1>1. SwapInv => OkMeansArchiveInPlace
  <2>1. SUFFICES ASSUME SwapInv, Recording("ok"), NEW v \in Volumes
                 PROVE  IF v \in InArchive THEN IsArchived(live[v], v) ELSE IsPrevious(live[v], v)
    BY DEF OkMeansArchiveInPlace
  <2>2. v \in InArchive => IsArchived(live[v], v)
    BY <2>1 DEF SwapInv, OkDone, Replaced
  <2>3. v \notin InArchive => IsPrevious(live[v], v)
    BY <2>1 DEF SwapInv, Shape, VolumeShape, Untouched
  <2>4. QED BY <2>2, <2>3
<1>2. QED BY <1>1, SwapInvHolds, PTL

\* A restore that says nothing was changed, or that the files were put back,
\* left each volume as it was or with an OLD_DIR the next restore refuses on.
THEOREM UndoneIsPrevious ==
  ASSUME UnsafeCrashes = {}
  PROVE  FileSpec => []UndoneMeansPrevious
<1>1. SwapInv => UndoneMeansPrevious
  BY DEF SwapInv, NotReplaced, NothingDone, UndoneMeansPrevious
<1>2. QED BY <1>1, SwapInvHolds, PTL

\* A restore that replaced the database is accounted for once the process is
\* idle again: its outcome is shown, or was lost to a failed write or a stop.
THEOREM ReplacementIsRecorded ==
  ASSUME UnsafeCrashes = {}
  PROVE  FileSpec => []ReplacementRecorded
<1>1. SwapInv => ReplacementRecorded
  BY DEF SwapInv, Recorded, ReplacementRecorded
<1>2. QED BY <1>1, SwapInvHolds, PTL

-----------------------------------------------------------------------------
(* No rename overwrites a file.                                            *)

Freely(was, now) == was = now \/ "none" \in {was, now}

LEMMA EntriesAreFree ==
  ASSUME SwapInv, NEW v \in Volumes, NEW n \in Names, EntryStep(v, n), NEW w \in Volumes, NEW m \in Names
  PROVE  Freely(live[w][m], live'[w][m]) /\ Freely(old[w][m], old'[w][m])
<1> USE DEF Freely
<1>1. /\ live \in [Volumes -> [Names -> {"none", "previous", "archived"}]]
      /\ new \in [Volumes -> [Names -> {"none", "previous", "archived"}]]
      /\ old \in [Volumes -> [Names -> {"none", "previous", "archived"}]]
  BY DEF SwapInv, FileTypeOK
<1>2. VolumeShape(v)
  BY DEF SwapInv, Shape
<1>3. CASE MoveOut(v, n)
  <2>1. Applying /\ Turn(v) /\ step = "out"
    BY <1>3 DEF MoveOut
  <2>2. ~movedOut[v] /\ live[v][n] # "none"
    BY <1>3, <2>1 DEF SwapInv, ApplyingTurn, Applying, MoveOut, Move
  <2>3. old[v][n] = "none"
    BY <1>2, <2>2 DEF VolumeShape, Kept, Replaced, IsEmpty
  <2>4. live' = [live EXCEPT ![v][n] = "none"] /\ old' = [old EXCEPT ![v][n] = live[v][n]]
    BY <1>3 DEF MoveOut, Move
  <2>5. QED BY <1>1, <2>3, <2>4
<1>4. CASE MoveIn(v, n)
  <2>1. Applying /\ Turn(v) /\ step = "in"
    BY <1>4 DEF MoveIn
  <2>2. movedOut[v] /\ new[v][n] # "none"
    BY <1>4, <2>1 DEF SwapInv, ApplyingTurn, Applying, MoveIn, Move
  <2>3. live[v][n] = "none"
    BY <1>2, <2>2 DEF VolumeShape, Moved
  <2>4. old' = old /\ live' = [live EXCEPT ![v][n] = new[v][n]]
    BY <1>4 DEF MoveIn, Move
  <2>5. QED BY <1>1, <2>3, <2>4
<1>5. CASE MoveBack(v, n)
  <2>1. old' = old /\ live' = [live EXCEPT ![v][n] = "none"]
    BY <1>5 DEF MoveBack, Move
  <2>2. QED BY <1>1, <2>1
<1>6. CASE Return(v, n)
  <2>1. op = "undo" /\ Turn(v) /\ step = "return" /\ old[v][n] # "none"
    BY <1>6 DEF Return, Move
  <2>2. Kept(v)
    BY <2>1 DEF SwapInv, UndoLoop
  <2>3. live[v][n] = "none"
    BY <2>1, <2>2 DEF Kept
  <2>4. old' = [old EXCEPT ![v][n] = "none"] /\ live' = [live EXCEPT ![v][n] = old[v][n]]
    BY <1>6 DEF Return, Move
  <2>5. QED BY <1>1, <2>3, <2>4
<1>7. CASE Extract(v, n) \/ Sweep(v, n)
  BY <1>7 DEF Extract, Sweep
<1>8. QED BY <1>3, <1>4, <1>5, <1>6, <1>7 DEF EntryStep

LEMMA VolumesAreFree ==
  ASSUME SwapInv, NEW v \in Volumes, VolumeStep(v), NEW w \in Volumes, NEW m \in Names
  PROVE  Freely(live[w][m], live'[w][m]) /\ Freely(old[w][m], old'[w][m])
<1>1. CASE Clear(v) \/ DropOld(v)
  <2>1. live' = live /\ old' = [old EXCEPT ![v] = Empty] /\ old \in [Volumes -> [Names -> {"none", "previous", "archived"}]]
    BY <1>1 DEF SwapInv, FileTypeOK, Clear, DropOld
  <2>2. old'[w][m] = old[w][m] \/ old'[w][m] = "none"
    BY <2>1 DEF Empty
  <2>3. QED BY <2>1, <2>2 DEF Freely
<1>2. CASE ~(Clear(v) \/ DropOld(v))
  <2>1. live' = live /\ old' = old
    BY <1>2 DEF VolumeStep, Failing, ClearRefused, ExtractDir, Extracted, MakeOld, TouchMovedOut, Applied, Swept,
                UndoLook, UnlinkMovedOut, RemoveOld, ForwardLook, UnpackFails, ApplyFails, FinishFails, UndoFails,
                ForwardFails, files, disk
  <2>2. QED BY <2>1 DEF Freely
<1>3. QED BY <1>1, <1>2

LEMMA StepsAreFree ==
  ASSUME SwapInv, [FileNext]_fileVars, NEW w \in Volumes, NEW m \in Names
  PROVE  Freely(live[w][m], live'[w][m]) /\ Freely(old[w][m], old'[w][m])
<1>1. CASE \E v \in Volumes : VolumeStep(v) \/ \E n \in Names : EntryStep(v, n)
  BY <1>1, EntriesAreFree, VolumesAreFree
<1>2. CASE ~\E v \in Volumes : VolumeStep(v) \/ \E n \in Names : EntryStep(v, n)
  <2>1. CASE UNCHANGED fileVars
    BY <2>1 DEF fileVars, disk, files, Freely
  <2>2. CASE Begin \/ RefuseEarly \/ Crash \/ Restarted
    BY <2>2 DEF Begin, RefuseEarly, Crash, Restarted, disk, files, Freely
  <2>3. CASE ClearDone \/ UnpackDone \/ ApplyDone \/ FinishDone \/ UndoDone \/ DiscardDone \/ RecoverDone
    BY <2>3 DEF ClearDone, UnpackDone, ApplyDone, FinishDone, UndoDone, DiscardDone, RecoverDone, disk, files, Freely
  <2>4. CASE \/ PrepareFails \/ JournalDatabase \/ DatabaseFails \/ DatabaseCommits \/ JournalSwapping
             \/ AfterDatabaseFails \/ StartSwap
    BY <2>4 DEF PrepareFails, JournalDatabase, DatabaseFails, DatabaseCommits, JournalSwapping, AfterDatabaseFails,
                StartSwap, disk, files, Freely
  <2>5. CASE Settle \/ SettleFails \/ Record \/ RestartClean \/ RestartDrop \/ RestartForward \/ Resolve \/ Close
    BY <2>5 DEF Settle, SettleFails, Record, RestartClean, RestartDrop, DropUnpacked, RestartForward, RollForward,
                Resolve, Close, disk, files, Freely
  <2>6. QED BY <1>2, <2>1, <2>2, <2>3, <2>4, <2>5 DEF FileNext, Progress, LoopStep
<1>3. QED BY <1>1, <1>2

\* No rename overwrites a file, in a swap, in an undo or rolling forward after
\* a stop (_Swap.apply, undo, _roll_forward: rename would say nothing).
THEOREM NothingIsOverwritten ==
  ASSUME UnsafeCrashes = {}
  PROVE  FileSpec => NothingOverwritten
<1>1. ASSUME SwapInv, [FileNext]_fileVars, NEW v \in Volumes, NEW n \in Names
      PROVE  /\ live'[v][n] # live[v][n] => "none" \in {live[v][n], live'[v][n]}
             /\ old'[v][n] # old[v][n] => "none" \in {old[v][n], old'[v][n]}
  BY <1>1, StepsAreFree DEF Freely
<1>2. SwapInv /\ [FileNext]_fileVars =>
        [\A v \in Volumes, n \in Names :
           /\ live'[v][n] # live[v][n] => "none" \in {live[v][n], live'[v][n]}
           /\ old'[v][n] # old[v][n] => "none" \in {old[v][n], old'[v][n]}]_files
  BY <1>1
<1>3. QED BY <1>2, SwapInvHolds, PTL DEF FileSpec, NothingOverwritten

-----------------------------------------------------------------------------
(* The whole run.                                                          *)

\* Where the run is in the database step, and what the marker row says there.
Marks ==
  /\ committed => marker # "this"
  /\ op \in {"clear", "unpack"} => stage = "none"
  /\ op = "database" => stage \in {"none", "marked", "journalled", "dropping", "loading", "loaded"}
  /\ op = "database" /\ stage \in {"none", "marked"} => journal = "preparing"
  /\ stage = "marked" => op \in {"database", "discard"} /\ (op = "database" => marker = "this")
  /\ stage \in {"journalled", "dropping", "loading"} => op = "database" /\ marker = "this"
  /\ stage = "loaded" => op \in {"database", "restored"} /\ committed
  /\ stage = "cleared" => op = "restored"
  /\ op = "down" /\ journal = "database" /\ ~committed => marker = "this"

\* The doors are closed while a run or recover is at work.
Closed == op # "idle" => serving # "open"

\* There is an outcome by the time it is recorded, and it is ok only of a
\* replaced database.
Says ==
  /\ op \in {"settle", "record", "resolve"} => outcome # "none"
  /\ op \in {"resolve", "close"} => journal # "none"
  /\ outcome = "ok" => committed

\* What was last reported goes with what is seen, whenever nobody is at work
\* on it: idle, or stopped with nothing to recover.  A run has said nothing yet.
AtRest == op \in {"idle", "close"} \/ (journal = "none" /\ op = "down")
Running == op \in {"clear", "unpack", "discard", "database", "restored", "apply", "undo", "finish",
                   "settle", "record"}
Told ==
  /\ Running => report.what = "none"
  /\ AtRest /\ report.what = "ok" => Seen = "archive"
  /\ AtRest /\ Seen = "mixed" => report.what \notin {"none", "ok"}

\* An unreplaced database has its own files, or an OLD_DIR to look at.
Unbegun == ~committed => \A v \in Volumes : Unreplaced(v)

RestoreInv == SwapInv /\ Marks /\ Closed /\ Says /\ Told /\ Unbegun

-----------------------------------------------------------------------------
(* The file loops, seen from outside.                                      *)

\* What one step of the loops does to what the run and recover go by.
LoopMove ==
  \/ op' = op /\ outcome' = outcome /\ (live' = live \/ op \in {"apply", "forward", "undo"})
  \/ op \in {"clear", "unpack"} /\ op' = "discard" /\ outcome' = "nothing_changed"
  \/ op = "clear" /\ op' = "unpack" /\ outcome' = outcome
  \/ op = "unpack" /\ op' = "database" /\ outcome' = outcome
  \/ op = "apply" /\ op' = "finish" /\ outcome' = outcome
  \/ op = "apply" /\ op' = "undo" /\ outcome' = "put_back"
  \/ op = "finish" /\ op' = "settle" /\ (outcome' = "failed" \/ (outcome' = "ok" /\ todo = {}))
  \/ op = "undo" /\ op' = "settle" /\ outcome' = outcome
  \/ op = "discard" /\ todo = {} /\ op' = "settle" /\ outcome' = outcome
  \/ op = "forward" /\ op' = "resolve" /\ outcome' = "stuck"
  \/ op \in {"drop", "forward"} /\ op' = "resolve" /\ outcome' = outcome

LEMMA VolumeMoves ==
  ASSUME NEW v \in Volumes, VolumeStep(v)
  PROVE  LoopMove /\ UNCHANGED <<journal, report, committed>>
<1>1. CASE ClearRefused(v)
  BY <1>1 DEF ClearRefused, GiveUp, Go, LoopMove
<1>2. CASE Clear(v) \/ ExtractDir(v) \/ MakeOld(v) \/ TouchMovedOut(v) \/ DropOld(v) \/ Swept(v)
  BY <1>2 DEF Clear, ExtractDir, MakeOld, TouchMovedOut, DropOld, Swept, NextVolume, AtStep, files, LoopMove
<1>3. CASE Extracted(v) \/ Applied(v) \/ ForwardLook(v)
  BY <1>3 DEF Extracted, Applied, ForwardLook, NextVolume, AtStep, disk, files, LoopMove
<1>4. CASE UndoLook(v) \/ UnlinkMovedOut(v) \/ RemoveOld(v)
  BY <1>4 DEF UndoLook, UnlinkMovedOut, RemoveOld, NextVolume, AtStep, files, LoopMove
<1>5. CASE Failing(v)
  <2>1. CASE UnpackFails(v)
    BY <2>1 DEF UnpackFails, GiveUp, Go, LoopMove
  <2>2. CASE ApplyFails(v) \/ FinishFails(v) \/ UndoFails(v) \/ ForwardFails(v)
    BY <2>2 DEF ApplyFails, FinishFails, UndoFails, ForwardFails, NextVolume, Go, disk, files, LoopMove
  <2>3. QED BY <1>5, <2>1, <2>2 DEF Failing
<1>6. QED BY <1>1, <1>2, <1>3, <1>4, <1>5 DEF VolumeStep

LEMMA EntryMoves ==
  ASSUME NEW v \in Volumes, NEW n \in Names, EntryStep(v, n)
  PROVE  LoopMove /\ UNCHANGED <<journal, report, committed>>
<1>1. CASE Extract(v, n) \/ Sweep(v, n)
  BY <1>1 DEF Extract, Sweep, memory, LoopMove
<1>2. CASE MoveOut(v, n) \/ MoveIn(v, n)
  BY <1>2 DEF MoveOut, MoveIn, Applying, memory, LoopMove
<1>3. CASE MoveBack(v, n) \/ Return(v, n)
  BY <1>3 DEF MoveBack, Return, memory, LoopMove
<1>4. QED BY <1>1, <1>2, <1>3 DEF EntryStep

LEMMA LoopMoves ==
  ASSUME LoopStep
  PROVE  LoopMove /\ UNCHANGED <<journal, report, committed>>
<1>1. CASE ClearDone \/ UnpackDone \/ ApplyDone \/ FinishDone
  BY <1>1 DEF ClearDone, UnpackDone, ApplyDone, FinishDone, Go, disk, LoopMove
<1>2. CASE UndoDone \/ DiscardDone \/ RecoverDone
  BY <1>2 DEF UndoDone, DiscardDone, RecoverDone, Go, disk, LoopMove
<1>3. QED BY <1>1, <1>2, VolumeMoves, EntryMoves DEF LoopStep

\* Renames into and out of a live directory are apply's, forward's and undo's.
LEMMA LoopLive ==
  ASSUME LoopStep, op \notin {"apply", "forward", "undo"}
  PROVE  live' = live
<1>1. ASSUME NEW v \in Volumes, VolumeStep(v)
      PROVE  live' = live
  BY <1>1 DEF VolumeStep, ClearRefused, Clear, ExtractDir, Extracted, MakeOld, TouchMovedOut, Applied, DropOld, Swept,
     UndoLook, UnlinkMovedOut, RemoveOld, ForwardLook, Failing, UnpackFails, ApplyFails, FinishFails, UndoFails,
     ForwardFails, files, disk
<1>2. ASSUME NEW v \in Volumes, NEW n \in Names, EntryStep(v, n)
      PROVE  live' = live
  BY <1>2 DEF EntryStep, Extract, MoveOut, MoveIn, Sweep, MoveBack, Return, Applying
<1>3. CASE ClearDone \/ UnpackDone \/ ApplyDone \/ FinishDone \/ UndoDone \/ DiscardDone \/ RecoverDone
  BY <1>3 DEF ClearDone, UnpackDone, ApplyDone, FinishDone, UndoDone, DiscardDone, RecoverDone, disk, files
<1>4. QED BY <1>1, <1>2, <1>3 DEF LoopStep

\* Before the database is replaced nothing is renamed, and a clearing refuses
\* to take an OLD_DIR with anything in it.
LEMMA LoopUnbegun ==
  ASSUME SwapInv, Unbegun, ~committed, LoopStep
  PROVE  \A v \in Volumes : Unreplaced(v)'
<1>1. op \notin {"apply", "forward", "undo", "finish"}
  BY DEF SwapInv, JournalTells
<1>2. live' = live
  BY <1>1, LoopLive
<1>3. ASSUME NEW u \in Volumes, Clear(u), NEW v \in Volumes
      PROVE  Unreplaced(v)'
  <2>1. ~LeftInOld(u) /\ Unreplaced(u) /\ Unreplaced(v)
    BY <1>3 DEF Clear, Unbegun
  <2>2. CASE v = u
    BY <1>2, <2>1, <2>2 DEF Unreplaced, IsPrevious, Holds
  <2>3. CASE v # u
    BY <1>2, <1>3, <2>1, <2>3
       DEF Clear, Unreplaced, LeftInOld, IsPrevious, IsEmpty, Holds, SwapInv, FileTypeOK
  <2>4. QED BY <2>2, <2>3
<1>4. ASSUME ~\E u \in Volumes : Clear(u)
      PROVE  UNCHANGED <<old, oldDir, movedOut>>
  <2>1. ASSUME NEW v \in Volumes, VolumeStep(v)
        PROVE  UNCHANGED <<old, oldDir, movedOut>>
    BY <1>1, <1>4, <2>1 DEF VolumeStep, ClearRefused, ExtractDir, Extracted, MakeOld, TouchMovedOut, Applied,
       Applying, DropOld, Swept, UndoLook, UnlinkMovedOut, RemoveOld, ForwardLook, Failing, UnpackFails, ApplyFails,
       FinishFails, UndoFails, ForwardFails, files, dirs, disk
  <2>2. ASSUME NEW v \in Volumes, NEW n \in Names, EntryStep(v, n)
        PROVE  UNCHANGED <<old, oldDir, movedOut>>
    BY <1>1, <2>2 DEF EntryStep, Extract, MoveOut, MoveIn, Sweep, MoveBack, Return, Applying, dirs
  <2>3. CASE ClearDone \/ UnpackDone \/ ApplyDone \/ FinishDone \/ UndoDone \/ DiscardDone \/ RecoverDone
    BY <2>3 DEF ClearDone, UnpackDone, ApplyDone, FinishDone, UndoDone, DiscardDone, RecoverDone, disk, files, dirs
  <2>4. QED BY <2>1, <2>2, <2>3 DEF LoopStep
<1>5. CASE ~\E u \in Volumes : Clear(u)
  BY <1>2, <1>4, <1>5 DEF Unbegun, Unreplaced, LeftInOld, IsPrevious, IsEmpty, Holds
<1>6. QED BY <1>3, <1>5

LEMMA UnbegunKept ==
  ASSUME SwapInv, Unbegun, [FileNext]_fileVars
  PROVE  Unbegun'
<1> SUFFICES ASSUME ~committed' PROVE \A v \in Volumes : Unreplaced(v)'
  BY DEF Unbegun
<1>1. CASE Begin
  BY <1>1 DEF Begin, files, dirs, Unreplaced, LeftInOld, IsPrevious, IsEmpty, Holds
<1>2. CASE LoopStep
  <2>1. ~committed
    BY <1>2, LoopMoves
  <2>2. QED BY <1>2, <2>1, LoopUnbegun
<1>3. CASE ~Begin /\ ~LoopStep
  <2>1. UNCHANGED <<live, old, oldDir, movedOut, committed>>
    <3>1. CASE RefuseEarly \/ Crash \/ Restarted \/ UNCHANGED fileVars
      BY <3>1 DEF RefuseEarly, Crash, Restarted, fileVars, disk, files, dirs
    <3>2. CASE PrepareFails \/ JournalDatabase \/ DatabaseFails \/ JournalSwapping \/ AfterDatabaseFails \/ StartSwap
      BY <3>2 DEF PrepareFails, JournalDatabase, DatabaseFails, GiveUp, JournalSwapping, AfterDatabaseFails, StartSwap,
                  disk, files, dirs
    <3>3. CASE DatabaseCommits
      BY <3>3 DEF DatabaseCommits
    <3>4. CASE Settle \/ SettleFails \/ Record \/ RestartClean \/ RestartDrop \/ RestartForward \/ Resolve \/ Close
      BY <3>4 DEF Settle, SettleFails, Record, RestartClean, RestartDrop, RestartForward, DropUnpacked, RollForward,
                  Resolve, Close, disk, files, dirs
    <3>5. QED BY <1>3, <3>1, <3>2, <3>3, <3>4 DEF FileNext, Progress
  <2>2. QED BY <2>1 DEF Unbegun, Unreplaced, LeftInOld, IsPrevious, IsEmpty, Holds
<1>4. QED BY <1>1, <1>2, <1>3

-----------------------------------------------------------------------------
(* Each step of a restore is one of the file swap's.                       *)

LEMMA RunIsSwap ==
  ASSUME StartRun \/ RefuseRun \/ WriteMarker \/ AskDatabase \/ NameDropped \/ DropTables \/ Load \/ LoadFails
         \/ RemoveMarker \/ JournalSwap \/ LaterFailure \/ ClearMarker \/ Migrate \/ Swap \/ Files \/ Tidy \/ Leave
  PROVE  [FileNext]_fileVars
<1>1. CASE StartRun \/ RefuseRun
  BY <1>1 DEF StartRun, RefuseRun, FileNext
<1>2. CASE WriteMarker \/ NameDropped \/ DropTables \/ RemoveMarker \/ ClearMarker \/ Migrate \/ Leave
  BY <1>2 DEF WriteMarker, NameDropped, DropTables, RemoveMarker, ClearMarker, Migrate, Leave
<1>3. CASE AskDatabase \/ Load \/ LoadFails \/ JournalSwap \/ LaterFailure \/ Swap
  BY <1>3 DEF AskDatabase, Load, LoadFails, JournalSwap, LaterFailure, Swap, FileNext, Progress
<1>4. CASE Files \/ Tidy
  BY <1>4 DEF Files, Tidy, FileNext, Progress
<1>5. QED BY <1>1, <1>2, <1>3, <1>4

\* recover's question is answered by the marker row as FileSwap answers it by
\* `committed`.
LEMMA RecoveryIsSwap ==
  ASSUME Marks, SwapInv,
         Stop \/ Reboot \/ RecoverClean \/ RecoverPreparing \/ DecideDrop \/ DecideForward \/ RecoverSwapping
         \/ StayClosed \/ Resolved \/ Boot
  PROVE  [FileNext]_fileVars
<1>1. CASE Stop
  BY <1>1 DEF Stop, FileNext
<1>2. CASE Reboot \/ StayClosed \/ Boot
  BY <1>2 DEF Reboot, StayClosed, Boot, FileNext
<1>3. CASE RecoverClean \/ Resolved
  BY <1>3 DEF RecoverClean, Resolved, FileNext, Progress
<1>4. CASE RecoverPreparing
  BY <1>4 DEF RecoverPreparing, Recovering, RestartDrop, FileNext, Progress
<1>5. CASE DecideDrop
  <2>1. journal = "database" /\ ~committed /\ op = "down"
    BY <1>5 DEF DecideDrop, Recovering, Marks
  <2>2. \E what \in {"nothing_changed", "partial"} : DropUnpacked(what)
    BY <1>5 DEF DecideDrop
  <2>3. QED BY <2>1, <2>2 DEF RestartDrop, FileNext, Progress
<1>6. CASE DecideForward
  <2>1. journal = "database" /\ committed /\ op = "down"
    BY <1>6 DEF DecideForward, Recovering, Marks, SwapInv, FileTypeOK
  <2>2. QED BY <1>6, <2>1 DEF DecideForward, RestartForward, FileNext, Progress
<1>7. CASE RecoverSwapping
  BY <1>7 DEF RecoverSwapping, Recovering, RestartForward, FileNext, Progress
<1>8. QED BY <1>1, <1>2, <1>3, <1>4, <1>5, <1>6, <1>7

LEMMA StepIsSwap ==
  ASSUME Marks, SwapInv, [RestoreNext]_restoreVars
  PROVE  [FileNext]_fileVars
<1>1. CASE UNCHANGED restoreVars
  BY <1>1 DEF restoreVars
<1>2. QED BY <1>1, RunIsSwap, RecoveryIsSwap DEF RestoreNext, RestoreProgress

-----------------------------------------------------------------------------
(* The invariant, step by step.                                            *)

LEMMA SeenSame ==
  ASSUME live' = live, committed' = committed
  PROVE  Seen' = Seen
  BY DEF Seen, IsArchived, IsPrevious, Holds

\* What was reported stays true while files, database and report stay.
LEMMA ToldSame ==
  ASSUME Told, live' = live, committed' = committed, report' = report, AtRest' => AtRest, Running' => Running
  PROVE  Told'
  BY SeenSame DEF Told

\* The same where nobody is at rest, whatever the files are meanwhile.
LEMMA ToldAtWork ==
  ASSUME Told, report' = report, ~AtRest', Running' => Running
  PROVE  Told'
  BY DEF Told

LEMMA RestoreInitHolds == RestoreInit => RestoreInv
<1> SUFFICES ASSUME RestoreInit PROVE RestoreInv
  OBVIOUS
<1>1. FileInit /\ SwapInv
  BY InitHolds DEF RestoreInit
<1>2. Marks /\ Closed /\ Says
  BY <1>1 DEF RestoreInit, FileInit, Marks, Closed, Says
<1>3. Told
  <2>1. \A v \in Volumes : IsPrevious(live[v], v)
    BY <1>1 DEF FileInit, IsPrevious, Holds
  <2>2. Seen = "before" /\ report.what = "none"
    BY <1>1, <2>1 DEF FileInit, Seen
  <2>3. op = "idle"
    BY <1>1 DEF FileInit
  <2>4. QED BY <2>2, <2>3 DEF Told, Running
<1>4. Unbegun
  BY <1>1 DEF FileInit, Unbegun, Unreplaced, IsPrevious, Holds
<1>5. QED BY <1>1, <1>2, <1>3, <1>4 DEF RestoreInv

\* A run begins, or is refused.
LEMMA StartKeeps ==
  ASSUME RestoreInv, StartRun \/ RefuseRun
  PROVE  Marks' /\ Closed' /\ Says' /\ Told'
<1>1. CASE StartRun
  <2>1. op' = "clear" /\ committed' = FALSE /\ journal' = "preparing" /\ outcome' = "none"
        /\ serving' = "maintenance" /\ stage' = "none" /\ marker' # "this" /\ NewAttempt
    BY <1>1 DEF StartRun, Begin, Go, To, RestoreInv, Marks
  <2>2. report'.what = "none"
    BY <2>1, ReportTyped, NoneTyped DEF NewAttempt, RestoreInv, SwapInv
  <2>3. Marks' /\ Closed' /\ Says' /\ Told'
    BY <2>1, <2>2 DEF Marks, Closed, Says, Told, AtRest
  <2>4. QED BY <2>3
<1>2. CASE RefuseRun
  <2>1. op = "idle" /\ op' = "settle" /\ outcome' = "nothing_changed" /\ serving' = "maintenance" /\ stage' = "refused"
        /\ UNCHANGED <<live, journal, committed, marker>> /\ NewAttempt
    BY <1>2 DEF RefuseRun, RefuseEarly, Go, To, files, dbVars
  <2>2. Marks' /\ Closed' /\ Says'
    BY <2>1 DEF RestoreInv, Marks, Closed, Says
  <2>3. Told'
    BY <2>1, ReportTyped, NoneTyped DEF NewAttempt, RestoreInv, SwapInv, Told, AtRest
  <2>4. QED BY <2>2, <2>3
<1>3. QED BY <1>1, <1>2

\* The database step and the migrations: the files stand still.
LEMMA StageKeeps ==
  ASSUME RestoreInv, WriteMarker \/ NameDropped \/ DropTables \/ RemoveMarker \/ ClearMarker \/ Migrate
  PROVE  Marks' /\ Closed' /\ Says' /\ Told'
<1>1. UNCHANGED <<op, journal, committed, outcome, report, live, serving>>
  BY DEF WriteMarker, NameDropped, DropTables, RemoveMarker, ClearMarker, Migrate, fileVars, disk, files, memory
<1>2. Closed' /\ Says'
  BY <1>1 DEF RestoreInv, Closed, Says
<1>3. Told'
  BY <1>1, ToldSame DEF RestoreInv, AtRest, Running
<1>4. Marks'
  <2>1. CASE WriteMarker
    BY <1>1, <2>1 DEF WriteMarker, At, To, RestoreInv, Marks
  <2>2. CASE NameDropped \/ DropTables
    BY <1>1, <2>2 DEF NameDropped, DropTables, At, To, RestoreInv, Marks
  <2>3. CASE RemoveMarker \/ ClearMarker \/ Migrate
    BY <1>1, <2>3 DEF RemoveMarker, ClearMarker, Migrate, At, To, RestoreInv, Marks
  <2>4. QED BY <2>1, <2>2, <2>3
<1>5. QED BY <1>2, <1>3, <1>4

\* pg_restore commits or fails, and the run goes on from there.
LEMMA DatabaseKeeps ==
  ASSUME RestoreInv, UnsafeCrashes = {}, AskDatabase \/ Load \/ LoadFails \/ JournalSwap \/ LaterFailure \/ Swap
  PROVE  Marks' /\ Closed' /\ Says' /\ Told'
<1>1. CASE AskDatabase
  <2>1. op = "database" /\ op' = op /\ ~committed /\ committed' = committed /\ journal' = "database"
        /\ outcome' = outcome /\ stage = "marked" /\ stage' = "journalled" /\ UNCHANGED <<marker, serving, report>>
    BY <1>1 DEF AskDatabase, JournalDatabase, At, To, memory, dbVars
  <2>2. QED BY <2>1, ToldAtWork DEF RestoreInv, Marks, Closed, Says, AtRest, Running
<1>2. CASE Load
  <2>1. op = "database" /\ op' = op /\ committed' = TRUE /\ journal = "database" /\ journal' = journal
        /\ outcome' = outcome /\ stage' = "loaded" /\ marker' # "this" /\ UNCHANGED <<serving, report>>
    BY <1>2 DEF Load, DatabaseCommits, To, memory
  <2>2. QED BY <2>1, ToldAtWork DEF RestoreInv, Marks, Closed, Says, AtRest, Running
<1>3. CASE LoadFails
  <2>1. op = "database" /\ op' = "discard" /\ ~committed /\ UNCHANGED <<committed, journal, marker, serving, report>>
        /\ outcome' \in {"nothing_changed", "partial"} /\ stage' \in {"none", "marked"}
    BY <1>3 DEF LoadFails, DatabaseFails, GiveUp, Go, To, dbVars
  <2>2. QED BY <2>1, ToldAtWork DEF RestoreInv, Marks, Closed, Says, AtRest, Running
<1>4. CASE JournalSwap
  <2>1. op = "database" /\ op' = "restored" /\ committed /\ journal' = "swapping"
        /\ UNCHANGED <<committed, outcome, marker, serving, stage, report>>
    BY <1>4 DEF JournalSwap, JournalSwapping, Go, dbVars
  <2>2. stage = "loaded"
    BY <2>1 DEF RestoreInv, SwapInv, JournalTells, Marks
  <2>3. QED BY <2>1, <2>2, ToldAtWork DEF RestoreInv, Marks, Closed, Says, AtRest, Running
<1>5. CASE LaterFailure
  <2>1. op \in {"database", "restored"} /\ op' = "settle" /\ outcome' = "failed" /\ stage' = "none"
        /\ UNCHANGED <<committed, journal, marker, serving, report>>
    BY <1>5 DEF LaterFailure, AfterDatabaseFails, Go, To, disk, dbVars
  <2>2. journal # "none"
    BY <2>1 DEF RestoreInv, SwapInv, JournalTells
  <2>3. QED BY <2>1, <2>2, ToldAtWork DEF RestoreInv, Marks, Closed, Says, AtRest, Running
<1>6. CASE Swap
  <2>1. op = "restored" /\ op' = "apply" /\ stage = "migrated"
        /\ UNCHANGED <<committed, journal, outcome, marker, serving, stage, report>>
    BY <1>6 DEF Swap, StartSwap, At, Go, disk, dbVars
  <2>2. QED BY <2>1, ToldAtWork DEF RestoreInv, Marks, Closed, Says, AtRest, Running
<1>7. QED BY <1>1, <1>2, <1>3, <1>4, <1>5, <1>6

\* The file loops, of the run and of recover.
LEMMA FilesKeep ==
  ASSUME RestoreInv, Files
  PROVE  Marks' /\ Closed' /\ Says' /\ Told'
<1>1. /\ LoopMove /\ UNCHANGED <<journal, report, committed, marker, serving, stage>>
      /\ op = "discard" /\ todo = {} => stage # "marked"
  <2>1. CASE LoopStep
    BY <2>1, LoopMoves DEF Files, At, dbVars
  <2>2. CASE PrepareFails
    BY <2>2 DEF Files, PrepareFails, GiveUp, Go, At, dbVars, LoopMove
  <2>3. QED BY <2>1, <2>2 DEF Files
<1>2. op \in {"finish", "undo", "discard", "drop", "forward"} => journal # "none"
  BY DEF RestoreInv, SwapInv, JournalTells
<1>3. Marks'
  <2>1. op = "unpack" => journal = "preparing" /\ stage = "none"
    BY DEF RestoreInv, SwapInv, JournalTells, Marks
  <2>2. QED BY <1>1, <2>1 DEF LoopMove, RestoreInv, Marks
<1>4. Closed'
  BY <1>1 DEF LoopMove, RestoreInv, Closed
<1>5. Says'
  <2>1. (op \in {"undo", "discard", "drop", "forward"} => outcome # "none") /\ (op = "finish" => committed)
    BY DEF RestoreInv, SwapInv, JournalTells
  <2>2. QED BY <1>1, <1>2, <2>1 DEF LoopMove, RestoreInv, Says
<1>6. Told'
  <2>1. (AtRest' => AtRest /\ live' = live) /\ (Running' => Running)
    BY <1>1, <1>2 DEF LoopMove, AtRest, Running
  <2>2. CASE AtRest'
    BY <1>1, <2>1, <2>2, ToldSame DEF RestoreInv
  <2>3. CASE ~AtRest'
    BY <1>1, <2>1, <2>3, ToldAtWork DEF RestoreInv
  <2>4. QED BY <2>2, <2>3
<1>7. QED BY <1>3, <1>4, <1>5, <1>6

\* An ok that is about to be recorded is of the archive, database and files.
LEMMA OkIsSeen ==
  ASSUME SwapInv, Says, op \in {"record", "resolve"}, outcome = "ok"
  PROVE  Seen = "archive"
<1>1. \A v \in InArchive : IsArchived(live[v], v)
  BY DEF SwapInv, OkDone, Recording, Replaced
<1>2. QED BY <1>1 DEF Says, Seen

\* The journal is removed and the outcome recorded, by the run and by recover.
LEMMA TidyKeeps ==
  ASSUME RestoreInv, Tidy \/ Resolved
  PROVE  Marks' /\ Closed' /\ Says' /\ Told'
<1>1. UNCHANGED <<live, committed, outcome, marker, serving, stage>>
  BY DEF Tidy, Resolved, Settle, SettleFails, Record, Resolve, Close, disk, files, dbVars
<1>2. CASE Settle \/ SettleFails
  <2>1. op = "settle" /\ op' = "record" /\ journal' \in {journal, "none"} /\ report' = report
    BY <1>2 DEF Settle, SettleFails, Go, disk
  <2>2. QED BY <1>1, <2>1, ToldAtWork DEF RestoreInv, Marks, Closed, Says, AtRest, Running
<1>3. CASE Record \/ Resolve
  <2>1. op \in {"record", "resolve"} /\ op' \in {"idle", "close"} /\ (op' = "close" => op = "resolve")
        /\ Say(outcome) /\ journal' = journal
    BY <1>3 DEF Record, Resolve, Go
  <2>2. Marks' /\ Closed' /\ Says'
    BY <1>1, <2>1 DEF RestoreInv, Marks, Closed, Says
  <2>3. Told'
    <3>1. Seen' = Seen
      BY <1>1, SeenSame
    <3>2. outcome # "none"
      BY <2>1 DEF RestoreInv, Says
    <3>3. outcome = "ok" => Seen = "archive"
      BY <2>1, OkIsSeen DEF RestoreInv
    <3>4. report'.what \in {outcome, "lost"}
      BY <2>1, <3>2, SayTyped DEF RestoreInv, SwapInv, FileTypeOK
    <3>5. QED BY <2>1, <3>1, <3>2, <3>3, <3>4 DEF Told, Running
  <2>4. QED BY <2>2, <2>3
<1>4. CASE Close
  <2>1. op = "close" /\ op' = "idle" /\ journal' = "none" /\ report' = report
    BY <1>4 DEF Close, Go
  <2>2. Marks' /\ Closed' /\ Says'
    BY <1>1, <2>1 DEF RestoreInv, Marks, Closed, Says
  <2>3. Told'
    BY <1>1, <2>1, ToldSame DEF RestoreInv, AtRest, Running
  <2>4. QED BY <2>2, <2>3
<1>5. QED BY <1>2, <1>3, <1>4 DEF Tidy, Resolved

\* The doors open, and a start that has nothing to do or cannot decide.
LEMMA DoorsKeep ==
  ASSUME RestoreInv, Leave \/ Boot \/ Reboot \/ StayClosed
  PROVE  Marks' /\ Closed' /\ Says' /\ Told'
<1>1. UNCHANGED <<live, op, journal, committed, outcome>> /\ op \in {"idle", "down"}
      /\ report'.what \in {report.what, "lost"}
  <2>1. CASE Leave \/ Boot \/ StayClosed
    BY <2>1 DEF Leave, Boot, StayClosed, Recovering, fileVars, disk, files, memory
  <2>2. CASE Reboot
    BY <2>2, StopTyped DEF Reboot, Restarted, files, memory, RestoreInv, SwapInv
  <2>3. QED BY <2>1, <2>2
<1>2. Says' /\ Told'
  BY <1>1, SeenSame DEF RestoreInv, AtRest, Running, Says, Told
<1>3. Closed'
  BY <1>1 DEF Leave, Boot, Reboot, StayClosed, RestoreInv, Closed
<1>4. Marks'
  <2>1. CASE Leave \/ Boot \/ Reboot
    BY <1>1, <2>1 DEF Leave, Boot, Reboot, To, dbVars, RestoreInv, Marks
  <2>2. CASE StayClosed
    BY <1>1, <2>2 DEF StayClosed, RestoreInv, Marks, SwapInv, FileTypeOK
  <2>3. QED BY <2>1, <2>2
<1>5. QED BY <1>2, <1>3, <1>4

\* The process stops: outside the known windows the marker row is there as
\* long as the transaction has not committed.
LEMMA StopKeeps ==
  ASSUME RestoreInv, UnsafeCrashes = {}, Stop
  PROVE  Marks' /\ Closed' /\ Says' /\ Told'
<1>1. /\ op' = "down" /\ outcome' = "none" /\ serving' = "off" /\ stage' = "none"
      /\ UNCHANGED <<live, journal, committed, marker>>
      /\ report' = [report EXCEPT !.what = AfterStop]
      /\ ~MarkerWindow /\ Window = "safe" /\ (op = "idle" => journal # "none")
  BY DEF Stop, Crash, Go, To, files, dbVars
<1>2. Marks'
  <2>1. op = "database" /\ journal = "database" /\ ~committed => marker = "this"
    BY DEF RestoreInv, Marks
  <2>2. journal = "database" /\ ~committed => marker = "this"
    BY <1>1, <2>1 DEF MarkerWindow
  <2>3. QED BY <1>1, <2>2 DEF RestoreInv, Marks
<1>3. Closed' /\ Says'
  BY <1>1 DEF Closed, Says
<1>4. Told'
  <2>1. CASE journal # "none"
    BY <1>1, <2>1 DEF Told, AtRest, Running
  <2>2. CASE journal = "none"
    <3>1. op \in {"settle", "record", "down"}
      BY <1>1, <2>2 DEF RestoreInv, SwapInv, JournalTells, Says, FileTypeOK, Ops
    <3>2. op # "down" => report.what = "none"
      BY <3>1 DEF RestoreInv, Told, Running
    <3>3. AfterStop \in {report.what, "lost"} /\ report'.what \in {report.what, "lost"} /\ report'.what # "none"
      BY <1>1, <2>2, <3>1, StopTyped DEF RestoreInv, SwapInv, AfterStop
    <3>4. op # "down"
      BY DEF Stop, Crash
    <3>5. QED BY <1>1, <3>2, <3>3, <3>4 DEF Told, Running
  <2>3. QED BY <2>1, <2>2
<1>5. QED BY <1>2, <1>3, <1>4

\* recover decides.
LEMMA RecoverKeeps ==
  ASSUME RestoreInv, RecoverClean \/ RecoverPreparing \/ DecideDrop \/ DecideForward \/ RecoverSwapping
  PROVE  Marks' /\ Closed' /\ Says' /\ Told'
<1>1. op = "down" /\ serving = "off" /\ UNCHANGED <<live, journal, report, committed, serving, stage>>
      /\ marker' \in {marker, "none"}
  BY DEF RecoverClean, RecoverPreparing, DecideDrop, DecideForward, RecoverSwapping, Recovering, RestartClean,
         DropUnpacked, RollForward, disk, files, dbVars
<1>2. CASE RecoverClean
  <2>1. op' = "idle" /\ journal = "none" /\ outcome' = outcome
    BY <1>2 DEF RecoverClean, RestartClean, Go
  <2>2. QED BY <1>1, <2>1, ToldSame DEF RestoreInv, Marks, Closed, Says, AtRest, Running
<1>3. CASE RecoverPreparing \/ DecideDrop
  <2>1. op' = "drop" /\ outcome' \in {"nothing_changed", "partial"}
    BY <1>3 DEF RecoverPreparing, DecideDrop, DropUnpacked, Go
  <2>2. QED BY <1>1, <2>1, ToldAtWork DEF RestoreInv, Marks, Closed, Says, AtRest, Running
<1>4. CASE DecideForward \/ RecoverSwapping
  <2>1. op' = "forward" /\ outcome' = "ok"
    BY <1>4 DEF DecideForward, RecoverSwapping, RollForward, Go
  <2>2. committed
    BY <1>1, <1>4 DEF DecideForward, RecoverSwapping, RestoreInv, Marks, SwapInv, JournalTells, FileTypeOK
  <2>3. QED BY <1>1, <2>1, <2>2, ToldAtWork DEF RestoreInv, Marks, Closed, Says, AtRest, Running
<1>5. QED BY <1>2, <1>3, <1>4

LEMMA RestoreStep ==
  ASSUME RestoreInv, UnsafeCrashes = {}, [RestoreNext]_restoreVars
  PROVE  RestoreInv'
<1>1. SwapInv' /\ Unbegun'
  BY StepIsSwap, NextPreserves, UnbegunKept DEF RestoreInv
<1>2. CASE UNCHANGED restoreVars
  <2>1. UNCHANGED <<live, op, journal, report, committed, outcome, marker, serving, stage>>
    BY <1>2 DEF restoreVars, fileVars, disk, files, memory, dbVars
  <2>2. Told'
    BY <2>1, ToldSame DEF RestoreInv, AtRest, Running
  <2>3. QED BY <1>1, <2>1, <2>2 DEF RestoreInv, Marks, Closed, Says
<1>3. CASE RestoreNext
  <2>1. Marks' /\ Closed' /\ Says' /\ Told'
    BY <1>3, StartKeeps, StageKeeps, DatabaseKeeps, FilesKeep, TidyKeeps, DoorsKeep, StopKeeps, RecoverKeeps
       DEF RestoreNext, RestoreProgress
  <2>2. QED BY <1>1, <2>1 DEF RestoreInv
<1>4. QED BY <1>2, <1>3

-----------------------------------------------------------------------------
(* What whoever uses Cabinet sees.                                         *)

LEMMA SeenType == Seen \in {"before", "archive", "mixed"} /\ Seen' \in {"before", "archive", "mixed"}
  BY DEF Seen

LEMMA SeenStands ==
  ASSUME live' = live, committed' = committed, report' = report, (serving' = "open") <=> (serving = "open")
  PROVE  UNCHANGED C!contractVars
  BY SeenSame DEF C!contractVars

LEMMA RunKeepsContract ==
  ASSUME RestoreInv,
         StartRun \/ RefuseRun \/ WriteMarker \/ AskDatabase \/ NameDropped \/ DropTables \/ Load \/ LoadFails
         \/ RemoveMarker \/ JournalSwap \/ LaterFailure \/ ClearMarker \/ Migrate \/ Swap \/ Files
  PROVE  [C!Next]_C!contractVars
<1>1. CASE StartRun
  <2>1. serving = "open" /\ serving' # "open" /\ committed' = FALSE /\ report'.what = "none"
    BY <1>1, ReportTyped, NoneTyped DEF StartRun, Begin, NewAttempt, RestoreInv, SwapInv
  <2>2. Seen' \in {"before", "mixed"}
    BY <2>1 DEF Seen
  <2>3. C!Close
    BY <2>1, <2>2 DEF C!Close
  <2>4. QED BY <2>3 DEF C!Next
<1>2. CASE RefuseRun
  <2>1. serving = "open" /\ serving' # "open" /\ UNCHANGED <<live, committed>> /\ report'.what = "none"
    BY <1>2, ReportTyped, NoneTyped DEF RefuseRun, RefuseEarly, NewAttempt, files, RestoreInv, SwapInv
  <2>2. C!Close
    BY <2>1, SeenSame DEF C!Close
  <2>3. QED BY <2>2 DEF C!Next
<1>3. CASE Load
  <2>1. serving # "open" /\ UNCHANGED <<serving, report>>
    BY <1>3 DEF Load, DatabaseCommits, RestoreInv, Closed
  <2>2. C!Work
    BY <2>1, SeenType DEF C!Work, C!Collections
  <2>3. QED BY <2>2 DEF C!Next
<1>4. CASE Files
  <2>1. UNCHANGED <<report, committed, serving>> /\ (live' = live \/ op \in {"apply", "forward", "undo"})
    <3>1. CASE LoopStep
      <4>1. LoopMove /\ UNCHANGED <<report, committed, serving>>
        BY <1>4, <3>1, LoopMoves DEF Files
      <4>2. op \notin {"apply", "forward", "undo"} => live' = live
        BY <3>1, LoopLive
      <4>3. QED BY <4>1, <4>2 DEF LoopMove
    <3>2. CASE PrepareFails
      BY <1>4, <3>2 DEF Files, PrepareFails, GiveUp, files
    <3>3. QED BY <1>4, <3>1, <3>2 DEF Files
  <2>2. CASE live' = live
    BY <2>1, <2>2, SeenStands
  <2>3. CASE op \in {"apply", "forward", "undo"}
    <3>1. serving # "open"
      BY <2>3 DEF RestoreInv, Closed
    <3>2. C!Work
      BY <2>1, <3>1, SeenType DEF C!Work, C!Collections
    <3>3. QED BY <3>2 DEF C!Next
  <2>4. QED BY <2>1, <2>2, <2>3
<1>5. CASE WriteMarker \/ NameDropped \/ DropTables \/ RemoveMarker \/ ClearMarker \/ Migrate
  <2>1. UNCHANGED <<live, committed, report, serving>>
    BY <1>5 DEF WriteMarker, NameDropped, DropTables, RemoveMarker, ClearMarker, Migrate, fileVars, disk, files
  <2>2. QED BY <2>1, SeenStands
<1>6. CASE AskDatabase \/ LoadFails \/ JournalSwap \/ LaterFailure \/ Swap
  <2>1. UNCHANGED <<live, committed, report, serving>>
    BY <1>6 DEF AskDatabase, LoadFails, JournalSwap, LaterFailure, Swap, JournalDatabase, DatabaseFails, GiveUp,
                JournalSwapping, AfterDatabaseFails, StartSwap, disk, files
  <2>2. QED BY <2>1, SeenStands
<1>7. QED BY <1>1, <1>2, <1>3, <1>4, <1>5, <1>6

LEMMA RecoveryKeepsContract ==
  ASSUME RestoreInv,
         Tidy \/ Leave \/ Stop \/ Reboot \/ RecoverClean \/ RecoverPreparing \/ DecideDrop \/ DecideForward
         \/ RecoverSwapping \/ StayClosed \/ Resolved \/ Boot
  PROVE  [C!Next]_C!contractVars
<1>1. CASE Leave \/ Boot
  <2>1. op = "idle" /\ serving # "open" /\ serving' = "open" /\ UNCHANGED <<live, committed, report>>
    BY <1>1 DEF Leave, Boot, fileVars, disk, files
  <2>2. Told /\ AtRest
    BY <2>1 DEF RestoreInv, AtRest
  <2>3. C!Open
    BY <2>1, <2>2, SeenSame DEF Told, C!Open
  <2>4. QED BY <2>3 DEF C!Next
<1>2. CASE Stop \/ Reboot
  <2>1. serving' # "open" /\ UNCHANGED <<live, committed>> /\ report' = [report EXCEPT !.what = AfterStop]
    BY <1>2 DEF Stop, Crash, Reboot, Restarted, files
  <2>2. report'.what \in {report.what, "lost"}
    BY <2>1, StopTyped DEF RestoreInv, SwapInv
  <2>3. CASE serving = "open"
    <3>1. C!Close
      BY <2>1, <2>2, <2>3, SeenSame DEF C!Close
    <3>2. QED BY <3>1 DEF C!Next
  <2>4. CASE serving # "open" /\ report'.what = "lost"
    <3>1. C!Tell("lost")
      BY <2>1, <2>4, SeenSame DEF C!Tell
    <3>2. QED BY <3>1 DEF C!Next
  <2>5. CASE serving # "open" /\ report'.what = report.what
    BY <2>1, <2>5, SeenSame DEF C!contractVars
  <2>6. QED BY <2>2, <2>3, <2>4, <2>5
<1>3. CASE (Tidy \/ Resolved) /\ (Record \/ Resolve)
  <2>1. op \in {"record", "resolve"} /\ Say(outcome) /\ UNCHANGED <<live, committed>>
    BY <1>3 DEF Record, Resolve, files
  <2>2. serving # "open" /\ outcome \in {"ok", "nothing_changed", "partial", "failed", "put_back", "stuck"}
    BY <2>1 DEF RestoreInv, Closed, Says, SwapInv, FileTypeOK, Outcomes
  <2>3. serving' = serving
    BY <1>3 DEF Tidy, Resolved
  <2>4. report'.what \in {outcome, "lost"}
    BY <2>1, <2>2, SayTyped DEF RestoreInv, SwapInv, FileTypeOK
  <2>5. C!Tell(outcome) \/ C!Tell("lost")
    BY <2>1, <2>2, <2>3, <2>4, SeenSame DEF C!Tell
  <2>6. QED BY <2>2, <2>5 DEF C!Next
<1>4. CASE (Tidy \/ Resolved) /\ ~(Record \/ Resolve)
  <2>1. UNCHANGED <<live, committed, report, serving>>
    BY <1>4 DEF Tidy, Resolved, Settle, SettleFails, Close, disk, files
  <2>2. QED BY <2>1, SeenStands
<1>5. CASE RecoverClean \/ RecoverPreparing \/ DecideDrop \/ DecideForward \/ RecoverSwapping
  <2>1. UNCHANGED <<live, committed, report, serving>>
    BY <1>5 DEF RecoverClean, RecoverPreparing, DecideDrop, DecideForward, RecoverSwapping, RestartClean,
                DropUnpacked, RollForward, disk, files
  <2>2. QED BY <2>1, SeenStands
<1>6. CASE StayClosed
  <2>1. UNCHANGED <<live, committed, report>> /\ serving # "open" /\ serving' # "open"
    BY <1>6 DEF StayClosed, Recovering, fileVars, disk, files
  <2>2. QED BY <2>1, SeenStands
<1>7. QED BY <1>1, <1>2, <1>3, <1>4, <1>5, <1>6

LEMMA StepKeepsContract ==
  ASSUME RestoreInv, [RestoreNext]_restoreVars
  PROVE  [C!Next]_C!contractVars
<1>1. CASE UNCHANGED restoreVars
  <2>1. UNCHANGED <<live, committed, report, serving>>
    BY <1>1 DEF restoreVars, fileVars, disk, files
  <2>2. QED BY <2>1, SeenStands
<1>2. QED BY <1>1, RunKeepsContract, RecoveryKeepsContract DEF RestoreNext, RestoreProgress

-----------------------------------------------------------------------------
(* What is reported of the database.                                       *)

\* Where an outcome stands that will be reported of this run.
Concluding == op \in {"discard", "drop", "forward", "undo", "settle", "record", "resolve", "close"}

\* What an outcome says of the database is so, from where it is decided until
\* it is recorded: tables are dropped only after the journal names them, and
\* with the journal at `database`.
OutcomeHolds ==
  /\ outcome = "nothing_changed" => ~committed /\ (op \in {"drop", "resolve", "close"} => ~dropped)
  /\ outcome = "partial" => ~committed /\ named
  /\ outcome \in {"ok", "failed", "put_back", "stuck"} => committed
Truth ==
  /\ dropped \/ stage = "dropping" => named
  /\ stage \in {"journalled", "dropping"} => journal # "preparing"
  /\ journal = "preparing" \/ stage \in {"journalled", "dropping"} => ~dropped
  /\ Concluding /\ stage # "refused" => OutcomeHolds

\* An ok is not said by a run whose migrations failed; recover says it before
\* startup has migrated, and only startup opens the doors.
Upgraded ==
  /\ op \in {"drop", "forward", "resolve", "close"} => serving = "off"
  /\ op \in {"settle", "record"} /\ outcome = "ok" => ~behind
  /\ AutoMigrate /\ op = "idle" /\ serving # "off" /\ committed /\ behind => report.what # "ok"

LEMMA InitReports ==
  RestoreInit => Truth /\ Upgraded
  BY DEF RestoreInit, FileInit, Truth, Concluding, Upgraded

LEMMA StartReports ==
  ASSUME RestoreInv, Truth, Upgraded, StartRun \/ RefuseRun
  PROVE  Truth' /\ Upgraded'
<1>1. CASE StartRun
  <2>1. op' = "clear" /\ stage' = "none" /\ dropped' = FALSE
    BY <1>1 DEF StartRun, Begin, Go, To
  <2>2. QED BY <2>1 DEF Truth, Concluding, Upgraded
<1>2. CASE RefuseRun
  <2>1. op' = "settle" /\ outcome' = "nothing_changed" /\ stage' = "refused" /\ UNCHANGED <<journal, dropped, named>>
    BY <1>2 DEF RefuseRun, RefuseEarly, Go, To, disk, dbVars
  <2>2. QED BY <2>1 DEF Truth, Concluding, Upgraded
<1>3. QED BY <1>1, <1>2

\* The tables are named before they are dropped.
LEMMA StageReports ==
  ASSUME RestoreInv, Truth, Upgraded, WriteMarker \/ NameDropped \/ DropTables \/ RemoveMarker \/ ClearMarker \/ Migrate
  PROVE  Truth' /\ Upgraded'
<1>1. UNCHANGED <<op, journal, committed, outcome, report, serving>>
  BY DEF WriteMarker, NameDropped, DropTables, RemoveMarker, ClearMarker, Migrate, fileVars, disk, memory
<1>2. Upgraded'
  <2>1. CASE Migrate
    BY <1>1, <2>1 DEF Migrate, Upgraded
  <2>2. CASE ~Migrate
    <3>1. behind' = behind
      BY <2>2 DEF WriteMarker, NameDropped, DropTables, RemoveMarker, ClearMarker
    <3>2. QED BY <1>1, <3>1 DEF Upgraded
  <2>3. QED BY <2>1, <2>2
<1>3. CASE WriteMarker
  BY <1>1, <1>2, <1>3 DEF WriteMarker, At, To, Truth, Concluding, OutcomeHolds
<1>4. CASE NameDropped
  BY <1>1, <1>2, <1>4 DEF NameDropped, At, To, Truth, Concluding, OutcomeHolds
<1>5. CASE DropTables
  <2>1. op = "database" /\ stage = "dropping" /\ stage' = "loading" /\ UNCHANGED named
    BY <1>5 DEF DropTables, At, To
  <2>2. journal # "preparing" /\ named
    BY <2>1 DEF Truth
  <2>3. QED BY <1>1, <1>2, <2>1, <2>2 DEF Truth, Concluding, OutcomeHolds
<1>6. CASE RemoveMarker
  BY <1>1, <1>2, <1>6 DEF RemoveMarker, At, To, Truth, Concluding, OutcomeHolds
<1>7. CASE ClearMarker \/ Migrate
  <2>1. op = "restored" /\ stage' \in {"cleared", "migrated"} /\ UNCHANGED <<dropped, named>>
    BY <1>7 DEF ClearMarker, Migrate, To
  <2>2. QED BY <1>1, <1>2, <2>1 DEF Truth, Concluding
<1>8. QED BY <1>3, <1>4, <1>5, <1>6, <1>7

\* pg_restore commits or fails, and the run goes on from there.
LEMMA DatabaseReports ==
  ASSUME RestoreInv, UnsafeCrashes = {}, Truth, Upgraded, AskDatabase \/ Load \/ LoadFails \/ JournalSwap \/ LaterFailure \/ Swap
  PROVE  Truth' /\ Upgraded'
<1>1. UNCHANGED <<dropped, named, serving>>
  BY DEF AskDatabase, Load, LoadFails, JournalSwap, LaterFailure, Swap, dbVars
<1>2. CASE AskDatabase
  <2>1. op = "database" /\ op' = op /\ journal' = "database" /\ stage = "marked" /\ stage' = "journalled"
    BY <1>2 DEF AskDatabase, JournalDatabase, At, To, memory
  <2>2. ~dropped
    BY <2>1 DEF RestoreInv, Marks, Truth
  <2>3. QED BY <1>1, <2>1, <2>2 DEF Truth, Concluding, Upgraded
<1>3. CASE Load
  <2>1. op = "database" /\ op' = op /\ journal' = "database" /\ stage' = "loaded"
    BY <1>3 DEF Load, DatabaseCommits, To, memory
  <2>2. QED BY <1>1, <2>1 DEF Truth, Concluding, Upgraded
<1>4. CASE LoadFails
  <2>1. op' = "discard" /\ ~committed /\ UNCHANGED <<committed, journal>> /\ stage' \in {"none", "marked"}
        /\ outcome' \in {"nothing_changed", "partial"} /\ (outcome' = "partial" => dropped)
    BY <1>4 DEF LoadFails, DatabaseFails, GiveUp, Go, To
  <2>2. QED BY <1>1, <2>1 DEF Truth, Concluding, OutcomeHolds, Upgraded
<1>5. CASE JournalSwap \/ Swap
  <2>1. op' \in {"restored", "apply"} /\ stage' = stage /\ (journal' = "swapping" \/ journal' = journal)
    BY <1>5 DEF JournalSwap, JournalSwapping, Swap, StartSwap, Go, disk
  <2>2. QED BY <1>1, <2>1 DEF Truth, Concluding, Upgraded
<1>6. CASE LaterFailure
  <2>1. op' = "settle" /\ outcome' = "failed" /\ stage' = "none" /\ committed /\ UNCHANGED <<committed, journal>>
    BY <1>6 DEF LaterFailure, AfterDatabaseFails, Go, To, disk
  <2>2. QED BY <1>1, <2>1 DEF Truth, Concluding, OutcomeHolds, Upgraded
<1>7. QED BY <1>2, <1>3, <1>4, <1>5, <1>6

\* The file loops: what a run gives up on, and what it ends with.
LEMMA FilesReport ==
  ASSUME RestoreInv, Truth, Upgraded, Files
  PROVE  Truth' /\ Upgraded'
<1>1. /\ LoopMove /\ UNCHANGED <<journal, report, committed, dropped, named, behind, serving, stage>>
      /\ op = "finish" /\ todo = {} => outcome' = IF behind THEN "failed" ELSE "ok"
  <2>1. CASE LoopStep
    BY <2>1, LoopMoves DEF Files, dbVars
  <2>2. CASE PrepareFails
    BY <2>2 DEF Files, PrepareFails, GiveUp, Go, dbVars, LoopMove
  <2>3. QED BY <2>1, <2>2 DEF Files
<1>2. op = "finish" /\ op' = "settle" /\ outcome' = "ok" => ~behind
  BY <1>1 DEF LoopMove
<1>3. Truth'
  <2>1. op \in {"clear", "unpack"} => ~committed /\ ~dropped
    BY DEF RestoreInv, SwapInv, JournalTells, Truth
  <2>2. op \in {"apply", "finish", "forward"} => committed
    BY DEF RestoreInv, SwapInv, JournalTells
  <2>3. Concluding' /\ stage' # "refused" => OutcomeHolds'
    BY <1>1, <2>1, <2>2 DEF LoopMove, Truth, Concluding, OutcomeHolds
  <2>4. QED BY <1>1, <2>3 DEF Truth
<1>4. Upgraded'
  <2>1. op \in {"discard", "drop"} => outcome # "ok"
    BY DEF RestoreInv, SwapInv, JournalTells
  <2>2. op = "undo" => outcome = "put_back"
    BY DEF RestoreInv, SwapInv, JournalTells
  <2>3. QED BY <1>1, <1>2, <2>1, <2>2 DEF LoopMove, Upgraded
<1>5. QED BY <1>3, <1>4

\* The journal is removed and the outcome recorded, by the run and by recover.
LEMMA TidyReports ==
  ASSUME RestoreInv, Truth, Upgraded, Tidy \/ Resolved
  PROVE  Truth' /\ Upgraded'
<1>1. UNCHANGED <<committed, outcome, dropped, named, behind, serving, stage>>
  BY DEF Tidy, Resolved, Settle, SettleFails, Record, Resolve, Close, disk, dbVars
<1>2. CASE Settle \/ SettleFails
  <2>1. op = "settle" /\ op' = "record" /\ journal' \in {journal, "none"} /\ report' = report
    BY <1>2 DEF Settle, SettleFails, Go, disk
  <2>2. QED BY <1>1, <2>1 DEF Truth, Concluding, OutcomeHolds, Upgraded
<1>3. CASE Record \/ Resolve
  <2>1. op \in {"record", "resolve"} /\ (IF op = "record" THEN op' = "idle" ELSE op' = "close")
        /\ report'.what \in {outcome, "lost"} /\ journal' = journal
    <3>1. op \in {"record", "resolve"} /\ Say(outcome)
      BY <1>3 DEF Record, Resolve
    <3>2. outcome # "none" /\ outcome \in Outcomes /\ FileTypeOK
      BY <3>1 DEF RestoreInv, Says, SwapInv, FileTypeOK
    <3>3. QED BY <1>3, <3>1, <3>2, SayTyped DEF Record, Resolve, Go
  <2>2. Truth'
    BY <1>1, <2>1 DEF Truth, Concluding, OutcomeHolds
  <2>3. Upgraded'
    BY <1>1, <2>1 DEF Upgraded
  <2>4. QED BY <2>2, <2>3
<1>4. CASE Close
  <2>1. op = "close" /\ op' = "idle" /\ journal' = "none" /\ report' = report
    BY <1>4 DEF Close, Go
  <2>2. QED BY <1>1, <2>1 DEF Truth, Concluding, Upgraded
<1>5. QED BY <1>2, <1>3, <1>4 DEF Tidy, Resolved

\* The doors open, after startup's migration or on a run that is over.
LEMMA DoorsReport ==
  ASSUME RestoreInv, Truth, Upgraded, Leave \/ Boot \/ Reboot \/ StayClosed
  PROVE  Truth' /\ Upgraded'
<1>1. UNCHANGED <<op, journal, committed, outcome, dropped, named>> /\ op \in {"idle", "down"}
      /\ stage' \in {stage, "none"} /\ (Reboot \/ report' = report)
  <2>1. CASE Leave \/ Boot \/ StayClosed
    BY <2>1 DEF Leave, Boot, StayClosed, Recovering, To, fileVars, disk, memory, dbVars
  <2>2. CASE Reboot
    BY <2>2 DEF Reboot, Restarted, To, memory, dbVars
  <2>3. QED BY <2>1, <2>2
<1>2. Truth'
  BY <1>1 DEF Truth, Concluding
<1>3. Upgraded'
  <2>1. CASE Leave
    BY <1>1, <2>1 DEF Leave, fileVars, disk, dbVars, Upgraded
  <2>2. CASE Boot
    <3>1. serving = "off" /\ op = "idle" /\ (AutoMigrate => ~behind')
      BY <2>2 DEF Boot
    <3>2. QED BY <1>1, <3>1 DEF Upgraded
  <2>3. CASE Reboot
    BY <1>1, <2>3 DEF Reboot, Upgraded
  <2>4. CASE StayClosed
    BY <1>1, <2>4 DEF StayClosed, Recovering, Upgraded
  <2>5. QED BY <2>1, <2>2, <2>3, <2>4
<1>4. QED BY <1>2, <1>3

LEMMA StopReports ==
  ASSUME RestoreInv, Truth, Upgraded, Stop
  PROVE  Truth' /\ Upgraded'
<1>1. op' = "down" /\ stage' = "none" /\ UNCHANGED <<journal, dropped, named>>
  BY DEF Stop, Crash, Go, To, disk, dbVars
<1>2. QED BY <1>1 DEF Truth, Concluding, Upgraded

\* recover decides: by what the journal names of the tables, and the marker row.
LEMMA RecoverReports ==
  ASSUME RestoreInv, Truth, Upgraded, RecoverClean \/ RecoverPreparing \/ DecideDrop \/ DecideForward \/ RecoverSwapping
  PROVE  Truth' /\ Upgraded'
<1>1. op = "down" /\ serving = "off" /\ UNCHANGED <<journal, committed, dropped, named, serving, stage>>
  BY DEF RecoverClean, RecoverPreparing, DecideDrop, DecideForward, RecoverSwapping, Recovering, RestartClean,
         DropUnpacked, RollForward, disk, dbVars
<1>2. CASE RecoverClean
  <2>1. op' = "idle"
    BY <1>2 DEF RecoverClean, RestartClean, Go
  <2>2. QED BY <1>1, <2>1 DEF Truth, Concluding, Upgraded
<1>3. CASE RecoverPreparing
  <2>1. op' = "drop" /\ outcome' = "nothing_changed" /\ journal = "preparing"
    BY <1>3 DEF RecoverPreparing, DropUnpacked, Go
  <2>2. ~committed
    BY <2>1 DEF RestoreInv, SwapInv, JournalTells
  <2>3. QED BY <1>1, <2>1, <2>2 DEF Truth, OutcomeHolds, Upgraded
<1>4. CASE DecideDrop
  <2>1. op' = "drop" /\ outcome' = (IF named THEN "partial" ELSE "nothing_changed") /\ marker = "this"
    BY <1>4 DEF DecideDrop, DropUnpacked, Go
  <2>2. ~committed
    BY <2>1 DEF RestoreInv, Marks
  <2>3. QED BY <1>1, <2>1, <2>2 DEF Truth, OutcomeHolds, Upgraded
<1>5. CASE DecideForward \/ RecoverSwapping
  <2>1. op' = "forward" /\ outcome' = "ok"
    BY <1>5 DEF DecideForward, RecoverSwapping, RollForward, Go
  <2>2. committed
    BY <1>1, <1>5 DEF DecideForward, RecoverSwapping, RestoreInv, Marks, SwapInv, JournalTells, FileTypeOK
  <2>3. QED BY <1>1, <2>1, <2>2 DEF Truth, OutcomeHolds, Upgraded
<1>6. QED BY <1>2, <1>3, <1>4, <1>5

LEMMA StepReports ==
  ASSUME RestoreInv, UnsafeCrashes = {}, Truth, Upgraded, [RestoreNext]_restoreVars
  PROVE  Truth' /\ Upgraded'
<1>1. CASE UNCHANGED restoreVars
  <2>1. UNCHANGED <<op, journal, report, committed, outcome, dropped, named, behind, serving, stage>>
    BY <1>1 DEF restoreVars, fileVars, disk, memory, dbVars
  <2>2. Truth'
    BY <2>1 DEF Truth, Concluding, OutcomeHolds
  <2>3. Upgraded'
    BY <2>1 DEF Upgraded
  <2>4. QED BY <2>2, <2>3
<1>2. QED BY <1>1, StartReports, StageReports, DatabaseReports, FilesReport, TidyReports, DoorsReport, StopReports,
             RecoverReports DEF RestoreNext, RestoreProgress

-----------------------------------------------------------------------------
\* The whole restore's invariant, whatever fails and wherever the process
\* stops outside the known windows.
THEOREM RestoreInvHolds ==
  ASSUME UnsafeCrashes = {}
  PROVE  RestoreSpec => []RestoreInv
<1>1. RestoreInv /\ [RestoreNext]_restoreVars => RestoreInv'
  BY RestoreStep
<1>2. QED BY RestoreInitHolds, <1>1, PTL DEF RestoreSpec

\* recover's question has the right answer: with the journal at `database`,
\* the marker row is this restore's exactly when pg_restore did not commit.
THEOREM MarkerTellsRecover ==
  ASSUME UnsafeCrashes = {}
  PROVE  RestoreSpec => []MarkerTells
<1>1. RestoreInv => MarkerTells
  BY DEF RestoreInv, Marks, MarkerTells, SwapInv, FileTypeOK
<1>2. QED BY <1>1, RestoreInvHolds, PTL

\* A restore implements the file swap: what its run does around the database,
\* and what recover decides from the journal and the marker row, are steps
\* FileSwap allows knowing whether the database was replaced.
THEOREM RestoreSwapsFiles ==
  ASSUME UnsafeCrashes = {}
  PROVE  RestoreSpec => SwapsFiles
<1>1. RestoreInit => FileInit
  BY DEF RestoreInit
<1>2. RestoreInv /\ [RestoreNext]_restoreVars => [FileNext]_fileVars
  BY StepIsSwap DEF RestoreInv
<1>3. QED BY <1>1, <1>2, RestoreInvHolds, PTL DEF RestoreSpec, SwapsFiles, FileSpec

\* No previous file is lost before it is replaced, in a whole restore too.
THEOREM RestoreLosesNothing ==
  ASSUME UnsafeCrashes = {}
  PROVE  RestoreSpec => []KeptUntilReplaced
  BY RestoreSwapsFiles, NothingIsLost, PTL DEF SwapsFiles

\* A whole restore that says nothing was changed left the files as they were,
\* or an OLD_DIR to look at.
THEOREM RestoreUndoneIsPrevious ==
  ASSUME UnsafeCrashes = {}
  PROVE  RestoreSpec => []UndoneMeansPrevious
  BY RestoreSwapsFiles, UndoneIsPrevious, PTL DEF SwapsFiles

\* The same of a whole restore.
THEOREM RestoreOverwritesNothing ==
  ASSUME UnsafeCrashes = {}
  PROVE  RestoreSpec => NothingOverwritten
  BY RestoreSwapsFiles, NothingIsOverwritten, PTL DEF SwapsFiles

\* Whenever the API answers, the files go with the database, or the last
\* outcome does not say ok: it says that they may not, or was lost to a write
\* that failed or a stop before it.  Whether startup migrates makes no odds.
THEOREM ServedIsWhole ==
  ASSUME UnsafeCrashes = {}
  PROVE  RestoreSpec => []ServedWhole
<1>1. RestoreInv => ServedWhole
  <2> SUFFICES ASSUME RestoreInv, serving = "open" PROVE ServedWhole
    BY DEF ServedWhole
  <2>1. op = "idle"
    BY DEF RestoreInv, Closed
  <2>2. committed /\ report.what = "ok" => \A v \in InArchive : IsArchived(live[v], v)
    BY <2>1 DEF RestoreInv, Told, AtRest, Seen
  <2>3. committed => report.what # "none"
    BY <2>1 DEF RestoreInv, SwapInv, Recorded
  <2>4. QED BY <2>2, <2>3 DEF ServedWhole, RestoreInv, Unbegun
<1>2. QED BY <1>1, RestoreInvHolds, PTL

\* What a run or recover reports is what happened to the database: "nothing
\* changed" of one not replaced (and in recover, with all its tables), which
\* "partial" says with the tables named, and everything else of one replaced.
THEOREM OutcomesAreTrue ==
  ASSUME UnsafeCrashes = {}
  PROVE  RestoreSpec => []OutcomeIsTrue
<1>1. Truth => OutcomeIsTrue
  BY DEF Truth, Concluding, OutcomeHolds, OutcomeIsTrue, Recording
<1>2. RestoreInv /\ Truth /\ Upgraded /\ [RestoreNext]_restoreVars => Truth' /\ Upgraded'
  BY StepReports
<1>3. QED BY <1>1, <1>2, InitReports, RestoreInvHolds, PTL DEF RestoreSpec

\* Where startup migrates, a database older than the code is not served after
\* a restore that was reported ok, whether the run or a restart finished it.
THEOREM BehindIsSaid ==
  ASSUME UnsafeCrashes = {}
  PROVE  RestoreSpec => []BehindIsReported
<1>1. RestoreInv /\ Upgraded => BehindIsReported
  BY DEF RestoreInv, Closed, SwapInv, Recorded, Upgraded, BehindIsReported
<1>2. RestoreInv /\ Truth /\ Upgraded /\ [RestoreNext]_restoreVars => Truth' /\ Upgraded'
  BY StepReports
<1>3. QED BY <1>1, <1>2, InitReports, RestoreInvHolds, PTL DEF RestoreSpec

\* A restore keeps the promise of RestoreContract: the collection changes
\* only behind closed doors, which open on an "ok" only if all of it is the
\* archive's, and on a mixture only if the owner is told or the word was lost.
THEOREM RestoreKeepsContract ==
  ASSUME UnsafeCrashes = {}
  PROVE  RestoreSpec => Contract
<1>1. RestoreInit => C!Init
  <2> SUFFICES ASSUME RestoreInit PROVE C!Init
    OBVIOUS
  <2>1. \A v \in Volumes : IsPrevious(live[v], v)
    BY DEF RestoreInit, FileInit, IsPrevious, Holds
  <2>2. QED BY <2>1 DEF RestoreInit, FileInit, Seen, C!Init
<1>2. RestoreInv /\ [RestoreNext]_restoreVars => [C!Next]_C!contractVars
  BY StepKeepsContract
<1>3. QED BY <1>1, <1>2, RestoreInvHolds, PTL DEF RestoreSpec, Contract, C!Spec
=============================================================================
