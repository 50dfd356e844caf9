--------------------------- MODULE ZipToolsProofs ---------------------------
(***************************************************************************)
(* Theorems about CZipTools for any set of files and any number of folders *)
(* on the way to them: the types, that no half archive passes for a good   *)
(* one, what Compress has packed when it answers ZIP_OK, and that          *)
(* ZIP_FILE_SKIP leaves the files alone that it finds.                     *)
(***************************************************************************)
EXTENDS ZipTools, TLAPS

\* The places of the two calls, and what holds of the handle, the current
\* entry and the option at each.
CallPc == {"idle", "mkdir", "traverse", "existing", "folder", "open", "file", "failed",
           "closeAgain", "finished", "dst", "unzOpen", "entry", "target", "write"}
CallInv ==
    /\ pc \in CallPc
    /\ back \in {"none", "open", "unzOpen", "target"}
    /\ pc = "mkdir" => back # "none"
    /\ zFp = "open" => pc \in {"file", "failed"}
    /\ pc \in {"target", "write"} \/ (pc = "mkdir" /\ back = "target") => cur \in File
    /\ pc \in {"idle", "traverse", "dst", "unzOpen"} \/ (pc = "mkdir" /\ back = "unzOpen")
          => cur = None
    /\ pc = "idle" => iFlag = "REPLACE" /\ level = 1

\* From the listing to the end of the packing ...
Listed ==
    \/ pc \in {"existing", "folder", "open", "file"}
    \/ pc = "mkdir" /\ back = "open"

\* ... the list has every file that nobody touched, and is complete until the
\* first file is packed.  While files are packed the open archive has those
\* that are not to come any more, but for the lost ones, and no other; with the
\* null handle none is packed.
PackInv ==
    /\ Listed => /\ vctFileList # {}
                 /\ {f \in same : src[f] = "plain"} \subseteq vctFileList \cup missed
    /\ Listed /\ pc # "file" => todo = vctFileList
    /\ pc = "file" =>
          \/ /\ zFp = "open" /\ vctFileList \ todo \subseteq zip.items \cup lost
             /\ zip.items \subseteq vctFileList
             /\ owed = vctFileList /\ ~ignored
          \/ zFp = "null" /\ todo = vctFileList

\* A file that is about to be written over is not one that ZIP_FILE_SKIP is to
\* leave alone, unless somebody has touched it since.
SkipInv == pc = "write" /\ iFlag = "SKIP" /\ cur \in same => out[cur] # "old"

ZipInv == TypeOK /\ CallInv /\ PackInv /\ NoHalfArchive /\ SkipInv
-----------------------------------------------------------------------------
(* The frames of the actions, expanded in every step below. *)
USE DEF diskVars, dirVars, listVars, historyVars, Running, DstLevel, ItemLevel

\* The initial state satisfies the invariant.
LEMMA InitialZip == Init => ZipInv
<1> SUFFICES ASSUME Init PROVE ZipInv
  OBVIOUS
<1> USE DepthAssumption DEF Init
<1>1. DiskTypes /\ ZipTypes /\ ListTypes
  BY DEF DiskTypes, ZipTypes, ListTypes, NoZip
<1>2. DirTypes
  <2>1. Depth \in Nat
    OBVIOUS
  <2> QED
    BY <2>1 DEF DirTypes
<1>3. HistoryTypes /\ FlagTypes
  BY DEF HistoryTypes, FlagTypes
<1>4. CallInv /\ PackInv /\ SkipInv
  BY DEF CallInv, CallPc, PackInv, Listed, SkipInv
<1>5. NoHalfArchive
  BY DEF NoHalfArchive, NoZip
<1> QED
  BY <1>1, <1>2, <1>3, <1>4, <1>5 DEF ZipInv, TypeOK

\* A call that returns while no archive is open keeps the types.
LEMMA ReturnTypes ==
  ASSUME TypeOK, Ended, zFp # "open", UNCHANGED <<zip, dirs, fault>>
  PROVE  TypeOK'
<1>1. DiskTypes'
  BY DEF TypeOK, DiskTypes, Ended
<1>2. ZipTypes'
  BY DEF TypeOK, ZipTypes, NoZip, Ended
<1>3. DirTypes'
  <2>1. Depth \in Nat
    BY DepthAssumption
  <2> QED
    BY <2>1 DEF DirTypes, Ended
<1>4. ListTypes'
  BY DEF ListTypes, Ended
<1>5. HistoryTypes' /\ FlagTypes'
  BY DEF TypeOK, HistoryTypes, FlagTypes, Ended
<1> QED
  BY <1>1, <1>2, <1>3, <1>4, <1>5 DEF TypeOK

\* A crash leaves everything but fault alone.
LEMMA CrashTypes ==
  ASSUME TypeOK, NEW f \in {"exception", "null file", "closed twice", "over-read"}, Crash(f)
  PROVE  TypeOK'
BY DEF TypeOK, DiskTypes, ZipTypes, NoZip, DirTypes, ListTypes, HistoryTypes,
   FlagTypes, Crash

\* Every step keeps the types.
LEMMA TypeStep ==
  ASSUME TypeOK, CallInv, [Next]_vars
  PROVE  TypeOK'
<1> USE DEF TypeOK
<1>1. ASSUME NEW f \in File, Touch(f) \/ TouchOut(f) PROVE TypeOK'
  <2>1. DiskTypes' /\ HistoryTypes'
    <3>1. CASE Touch(f)
      BY <3>1 DEF DiskTypes, HistoryTypes, Touch
    <3>2. CASE TouchOut(f)
      BY <3>2 DEF DiskTypes, HistoryTypes, TouchOut
    <3> QED
      BY <1>1, <3>1, <3>2
  <2> QED
    BY <1>1, <2>1 DEF ZipTypes, DirTypes, ListTypes, FlagTypes, Touch, TouchOut
<1>2. CASE TouchDirs
  <2>1. DiskTypes'
    BY <1>2, DepthAssumption DEF DiskTypes, TouchDirs
  <2> QED
    BY <1>2, <2>1 DEF ZipTypes, DirTypes, ListTypes, HistoryTypes, FlagTypes,
       TouchDirs
<1>3. CASE TouchZip
  <2>1. ZipTypes'
    BY <1>3 DEF ZipTypes, NoZip, TouchZip, InUse
  <2>2. HistoryTypes' /\ FlagTypes'
    BY <1>3 DEF HistoryTypes, FlagTypes, TouchZip
  <2> QED
    BY <1>3, <2>1, <2>2 DEF DiskTypes, DirTypes, ListTypes, TouchZip
<1>4. CASE Restart
  <2>1. DiskTypes'
    BY <1>4 DEF DiskTypes, Restart, Ended
  <2>2. ZipTypes'
    BY <1>4 DEF ZipTypes, Restart, Ended
  <2>3. DirTypes'
    BY <1>4, DepthAssumption DEF DirTypes, Restart, Ended
  <2>4. ListTypes'
    BY <1>4 DEF ListTypes, Restart, Ended
  <2>5. HistoryTypes' /\ FlagTypes'
    BY <1>4 DEF HistoryTypes, FlagTypes, Restart, Ended
  <2> QED
    BY <2>1, <2>2, <2>3, <2>4, <2>5
<1>5. CASE MakeDir
  <2>1. DiskTypes'
    BY <1>5, DepthAssumption DEF DiskTypes, DirTypes, MakeDir
  <2>2. DirTypes'
    BY <1>5, DepthAssumption DEF DirTypes, MakeDir
  <2>3. FlagTypes'
    BY <1>5 DEF FlagTypes, MakeDir
  <2> QED
    BY <1>5, <2>1, <2>2, <2>3 DEF ZipTypes, ListTypes, HistoryTypes, MakeDir
<1>6. CASE DirsMade
  <2>1. CASE \E r \in {"OK", "ERR"} : Return(r) /\ UNCHANGED <<zip, dirs>>
    BY <1>6, <2>1, ReturnTypes DEF DirsMade, Return, CallInv
  <2>2. CASE UNCHANGED <<diskVars, dirVars, listVars, fault, historyVars>>
    BY <2>2 DEF DiskTypes, ZipTypes, NoZip, DirTypes, ListTypes, HistoryTypes,
       FlagTypes
  <2> QED
    BY <1>6, <2>1, <2>2 DEF DirsMade, Goto
<1>7. ASSUME NEW flag \in {"APPEND", "REPLACE", "EXIT"}, Compress(flag) PROVE TypeOK'
  <2>1. DiskTypes'
    BY <1>7 DEF DiskTypes, Compress
  <2>2. DirTypes'
    <3>1. level = 1
      BY <1>7 DEF CallInv, Compress
    <3>2. upto' \in {0, Depth} /\ level' = level
      BY <1>7 DEF Compress
    <3>3. Depth \in Nat
      BY DepthAssumption
    <3>4. CASE upto' = 0
      BY <3>1, <3>2, <3>3, <3>4 DEF DirTypes
    <3>5. CASE upto' = Depth
      BY <3>1, <3>2, <3>3, <3>5 DEF DirTypes
    <3> QED
      BY <3>2, <3>4, <3>5
  <2>3. HistoryTypes'
    BY <1>7 DEF HistoryTypes, Compress
  <2> QED
    BY <1>7, <2>1, <2>2, <2>3 DEF ZipTypes, ListTypes, FlagTypes, Compress
<1>8. CASE TraverseFloder
  <2>1. CASE Return("DIR_IS_NULL") /\ UNCHANGED <<zip, dirs>>
    BY <1>8, <2>1, ReturnTypes DEF TraverseFloder, Return, CallInv
  <2>2. CASE pc' = "existing"
    <3>1. ListTypes' /\ HistoryTypes'
      BY <1>8, <2>2 DEF ListTypes, HistoryTypes, CallInv, TraverseFloder,
         Goto, Return, Ended
    <3>2. UNCHANGED <<diskVars, dirVars, zFp, ignored>>
      BY <1>8, <2>2 DEF TraverseFloder, Return, Ended
    <3> QED
      BY <3>1, <3>2 DEF DiskTypes, ZipTypes, DirTypes, FlagTypes
  <2> QED
    BY <1>8, <2>1, <2>2 DEF TraverseFloder, Goto
<1>9. CASE Existing
  <2>1. ZipTypes'
    BY <1>9 DEF ZipTypes, NoZip, CallInv, Existing
  <2> QED
    BY <1>9, <2>1 DEF DiskTypes, DirTypes, ListTypes, HistoryTypes, FlagTypes,
       Existing
<1>10. CASE EnsureFolder \/ EnsureTarget
  <2>1. CASE Crash("exception")
    BY <2>1, CrashTypes
  <2>2. CASE \E n \in {upto, DstLevel}, l \in {"open", "unzOpen"} : MakeDirs(n, l)
    <3>1. DirTypes'
      BY <2>2, DepthAssumption DEF DirTypes, MakeDirs
    <3>2. bSuccess' \in BOOLEAN
      BY <2>2 DEF MakeDirs
    <3>3. UNCHANGED <<diskVars, listVars, fault, historyVars>>
      BY <1>10, <2>2 DEF EnsureFolder, EnsureTarget, MakeDirs, Goto, Crash
    <3> QED
      BY <3>1, <3>2, <3>3 DEF DiskTypes, ZipTypes, NoZip, ListTypes,
         HistoryTypes, FlagTypes
  <2>3. CASE UNCHANGED <<diskVars, dirVars, listVars, fault, historyVars>>
    BY <2>3 DEF DiskTypes, ZipTypes, NoZip, DirTypes, ListTypes, HistoryTypes,
       FlagTypes
  <2> QED
    BY <1>10, <2>1, <2>2, <2>3 DEF EnsureFolder, EnsureTarget, Goto
<1>11. CASE ZipOpen
  <2>1. ZipTypes'
    BY <1>11 DEF ZipTypes, CallInv, ZipOpen, Created
  <2>2. HistoryTypes' /\ FlagTypes'
    BY <1>11 DEF HistoryTypes, FlagTypes, ListTypes, ZipOpen, Goto
  <2> QED
    BY <1>11, <2>1, <2>2 DEF DiskTypes, DirTypes, ListTypes, ZipOpen
<1>12. ASSUME NEW f \in File, CompressFile(f) PROVE TypeOK'
  <2>1. CASE Crash("null file")
    BY <2>1, CrashTypes
  <2>2. CASE ~Crash("null file")
    <3>0. lost' \subseteq lost \cup {f} /\ UNCHANGED <<same, missed, owed, ignored>>
      BY <1>12, <2>2 DEF CompressFile
    <3>1. ZipTypes'
      <4>1. CASE zip' = [zip EXCEPT !.items = zip.items \cup {f}] /\ zFp = "open" /\ zFp' = zFp
        BY <4>1 DEF ZipTypes
      <4>2. CASE UNCHANGED <<zip, zFp>>
        BY <4>2 DEF ZipTypes
      <4> QED
        BY <1>12, <2>2, <4>1, <4>2 DEF CompressFile, Goto
    <3>2. ListTypes'
      BY <1>12, <2>2 DEF ListTypes, CompressFile
    <3> QED
      BY <1>12, <2>2, <3>0, <3>1, <3>2 DEF DiskTypes, DirTypes, HistoryTypes,
         FlagTypes, CompressFile,
         Goto
  <2> QED
    BY <2>1, <2>2
<1>13. CASE Failed
  <2>1. ZipTypes'
    BY <1>13 DEF ZipTypes, NoZip, Failed, FailedClose, Close
  <2>2. FlagTypes'
    BY <1>13 DEF FlagTypes, Failed, FailedClose
  <2> QED
    BY <1>13, <2>1, <2>2 DEF DiskTypes, DirTypes, ListTypes, HistoryTypes,
       Failed, Goto
<1>14. CASE CloseAgain
  BY <1>14, ReturnTypes, CrashTypes DEF CloseAgain, Return, CallInv
<1>15. CASE Finished
  <2>1. ZipTypes'
    BY <1>15 DEF ZipTypes, Finished, Close
  <2> QED
    BY <1>15, <2>1 DEF DiskTypes, DirTypes, ListTypes, HistoryTypes,
       FlagTypes, Finished, Goto
<1>16. CASE CompressReturns \/ Unpacked
  BY <1>16, ReturnTypes DEF CompressReturns, Unpacked, Return, CallInv
<1>17. ASSUME NEW flag \in {"REPLACE", "SKIP"}, UnCompress(flag) PROVE TypeOK'
  <2>1. DiskTypes' /\ HistoryTypes'
    BY <1>17 DEF DiskTypes, HistoryTypes, UnCompress
  <2> QED
    BY <1>17, <2>1 DEF ZipTypes, DirTypes, ListTypes, FlagTypes, UnCompress
<1>18. CASE UnzOpen
  <2>1. CASE Return("IO_ERROR") /\ UNCHANGED <<zip, dirs>>
    BY <1>18, <2>1, ReturnTypes DEF UnzOpen, Return, CallInv
  <2>2. CASE vctFileList' = zip.items /\ todo' = zip.items
             /\ UNCHANGED <<diskVars, dirVars, cur, zFp, fault, historyVars>>
    <3>1. ListTypes'
      BY <1>18, <2>2 DEF ListTypes, ZipTypes, CallInv, UnzOpen
    <3> QED
      BY <2>2, <3>1 DEF DiskTypes, ZipTypes, NoZip, DirTypes, HistoryTypes,
         FlagTypes
  <2> QED
    BY <1>18, <2>1, <2>2 DEF UnzOpen, Goto
<1>19. ASSUME NEW f \in File, Entry(f) PROVE TypeOK'
  <2>1. DirTypes'
    BY <1>19, DepthAssumption DEF DirTypes, Entry, MakeDirs
  <2>2. ListTypes'
    BY <1>19 DEF ListTypes, Entry
  <2>3. FlagTypes'
    BY <1>19 DEF FlagTypes, Entry, MakeDirs
  <2> QED
    BY <1>19, <2>1, <2>2, <2>3 DEF DiskTypes, ZipTypes, NoZip, HistoryTypes,
       Entry, MakeDirs,
       Goto
<1>20. CASE Target
  <2>1. DiskTypes'
    BY <1>20 DEF DiskTypes, Target
  <2>2. HistoryTypes'
    BY <1>20 DEF HistoryTypes, CallInv, Target, Goto
  <2> QED
    BY <1>20, <2>1, <2>2 DEF ZipTypes, DirTypes, ListTypes, FlagTypes, Target
<1>21. CASE Write
  <2>1. CASE Return("IO_ERROR") /\ UNCHANGED <<zip, dirs>>
    BY <1>21, <2>1, ReturnTypes DEF Write, Return, CallInv
  <2>2. CASE \E f \in {"null file", "over-read"} : Crash(f)
    BY <2>2, CrashTypes
  <2>3. CASE /\ out' = [out EXCEPT ![cur] = "new"]
             /\ UNCHANGED <<src, zip, dirs, dirVars, listVars, fault, historyVars>>
    BY <2>3 DEF DiskTypes, ZipTypes, NoZip, DirTypes, ListTypes, HistoryTypes,
       FlagTypes
  <2> QED
    BY <1>21, <2>1, <2>2, <2>3 DEF Write, Goto
<1>22. CASE UNCHANGED vars
  BY <1>22 DEF DiskTypes, ZipTypes, NoZip, DirTypes, ListTypes, HistoryTypes,
     FlagTypes, vars
<1> QED
  BY <1>1, <1>2, <1>3, <1>4, <1>5, <1>6, <1>7, <1>8, <1>9, <1>10, <1>11,
     <1>12, <1>13, <1>14,
     <1>15, <1>16, <1>17, <1>18, <1>19, <1>20, <1>21, <1>22 DEF Next

\* Every step keeps what holds at each place of a call.
LEMMA CallStep ==
  ASSUME TypeOK, CallInv, [Next]_vars
  PROVE  CallInv'
<1> USE DepthAssumption
<1>1. ASSUME NEW f \in File, Touch(f) PROVE CallInv'
  BY <1>1 DEF Touch, CallInv
<1>2. ASSUME NEW f \in File, TouchOut(f) PROVE CallInv'
  BY <1>2 DEF TouchOut, CallInv
<1>3. CASE TouchDirs
  BY <1>3 DEF TouchDirs, CallInv
<1>4. CASE TouchZip
  BY <1>4 DEF TouchZip, CallInv
<1>5. CASE Restart
  BY <1>5 DEF Restart, Ended, CallInv, CallPc
<1>6. CASE MakeDir
  BY <1>6 DEF MakeDir, CallInv
<1>7. CASE DirsMade
  BY <1>7 DEF DirsMade, Goto, Return, Ended, CallInv, CallPc
<1>8. ASSUME NEW flag \in {"APPEND", "REPLACE", "EXIT"}, Compress(flag) PROVE CallInv'
  BY <1>8 DEF Compress, CallInv, CallPc
<1>9. CASE TraverseFloder
  BY <1>9 DEF TraverseFloder, Goto, Return, Ended, CallInv, CallPc
<1>10. CASE Existing
  BY <1>10 DEF Existing, CallInv, CallPc
<1>11. CASE EnsureFolder
  BY <1>11 DEF EnsureFolder, Goto, MakeDirs, Crash, CallInv, CallPc
<1>12. CASE ZipOpen
  BY <1>12 DEF ZipOpen, Goto, CallInv, CallPc
<1>13. ASSUME NEW f \in File, CompressFile(f) PROVE CallInv'
  BY <1>13 DEF CompressFile, Goto, Crash, TypeOK, ListTypes, CallInv, CallPc
<1>14. CASE Failed
  BY <1>14 DEF Failed, FailedClose, Close, Goto, CallInv, CallPc
<1>15. CASE CloseAgain
  BY <1>15 DEF CloseAgain, Return, Ended, Crash, TypeOK, ListTypes, CallInv,
     CallPc
<1>16. CASE Finished
  BY <1>16 DEF Finished, Close, Goto, CallInv, CallPc
<1>17. CASE CompressReturns
  BY <1>17 DEF CompressReturns, Return, Ended, CallInv, CallPc
<1>18. ASSUME NEW flag \in {"REPLACE", "SKIP"}, UnCompress(flag) PROVE CallInv'
  BY <1>18 DEF UnCompress, CallInv, CallPc
<1>19. CASE EnsureTarget
  BY <1>19 DEF EnsureTarget, Goto, MakeDirs, CallInv, CallPc
<1>20. CASE UnzOpen
  BY <1>20 DEF UnzOpen, Goto, Return, Ended, CallInv, CallPc
<1>21. ASSUME NEW f \in File, Entry(f) PROVE CallInv'
  BY <1>21 DEF Entry, Goto, MakeDirs, CallInv, CallPc
<1>22. CASE Target
  BY <1>22 DEF Target, Goto, CallInv, CallPc
<1>23. CASE Write
  BY <1>23 DEF Write, Goto, Return, Ended, Crash, TypeOK, ListTypes, CallInv,
     CallPc
<1>24. CASE Unpacked
  BY <1>24 DEF Unpacked, Return, Ended, CallInv, CallPc
<1>25. CASE UNCHANGED vars
  BY <1>25 DEF vars, CallInv
<1> QED
  BY <1>1, <1>2, <1>3, <1>4, <1>5, <1>6, <1>7, <1>8, <1>9, <1>10, <1>11,
     <1>12, <1>13, <1>14,
     <1>15, <1>16, <1>17, <1>18, <1>19, <1>20, <1>21, <1>22, <1>23, <1>24, <1>25 DEF Next

\* Every step keeps what Compress knows of its list and of the archive.
LEMMA PackStep ==
  ASSUME TypeOK, CallInv, PackInv, [Next]_vars
  PROVE  PackInv'
<1> USE DepthAssumption
<1>1. ASSUME NEW f \in File, Touch(f) PROVE PackInv'
  BY <1>1 DEF Touch, PackInv, Listed
<1>2. ASSUME NEW f \in File, TouchOut(f) PROVE PackInv'
  BY <1>2 DEF TouchOut, PackInv, Listed
<1>3. CASE TouchDirs
  BY <1>3 DEF TouchDirs, PackInv, Listed
<1>4. CASE TouchZip
  BY <1>4 DEF TouchZip, InUse, PackInv, Listed
<1>5. CASE Restart
  BY <1>5 DEF Restart, Ended, PackInv, Listed
<1>6. CASE MakeDir
  BY <1>6 DEF MakeDir, PackInv, Listed
<1>7. CASE DirsMade
  BY <1>7 DEF DirsMade, Goto, Return, Ended, CallInv, PackInv, Listed
<1>8. ASSUME NEW flag \in {"APPEND", "REPLACE", "EXIT"}, Compress(flag) PROVE PackInv'
  BY <1>8 DEF Compress, PackInv, Listed
<1>9. CASE TraverseFloder
  <2>1. CASE pc' = "existing"
    <3>1. PICK m \in SUBSET {f \in File : src[f] # "absent"} :
            /\ {f \in File : src[f] # "absent"} \ m # {} /\ missed' = m
            /\ vctFileList' = {f \in File : src[f] # "absent"} \ m
            /\ todo' = vctFileList' /\ UNCHANGED <<src, same>>
      BY <1>9, <2>1 DEF TraverseFloder, Return, Ended
    <3> QED
      BY <2>1, <3>1 DEF TypeOK, DiskTypes, HistoryTypes, PackInv, Listed
  <2>2. CASE pc' = "idle"
    BY <2>2 DEF PackInv, Listed
  <2> QED
    BY <1>9, <2>1, <2>2 DEF TraverseFloder, Goto, Return, Ended
<1>10. CASE Existing
  BY <1>10 DEF Existing, PackInv, Listed
<1>11. CASE EnsureFolder
  BY <1>11 DEF EnsureFolder, Goto, MakeDirs, Crash, PackInv, Listed
<1>12. CASE ZipOpen
  BY <1>12 DEF ZipOpen, Created, PackInv, Listed
<1>13. ASSUME NEW f \in File, CompressFile(f) PROVE PackInv'
  <2>1. vctFileList # {} /\ {g \in same : src[g] = "plain"} \subseteq vctFileList \cup missed
    BY <1>13 DEF PackInv, Listed, CompressFile
  <2>2. UNCHANGED <<src, same, missed, vctFileList>>
    BY <1>13 DEF CompressFile, Goto, Crash
  <2>3. CASE /\ pc' = "file" /\ zFp = "open" /\ todo' = todo \ {f}
             /\ \/ zip' = [zip EXCEPT !.items = zip.items \cup {f}] /\ UNCHANGED lost
                \/ lost' = lost \cup {f} /\ UNCHANGED zip
             /\ UNCHANGED <<zFp, owed, ignored>>
    <3>1. /\ zip.items \subseteq zip'.items /\ zip'.items \subseteq zip.items \cup {f}
          /\ zip'.items \cup lost' = zip.items \cup lost \cup {f}
      BY <2>3 DEF TypeOK, ZipTypes
    <3>2. f \in vctFileList
      BY <1>13 DEF CompressFile, TypeOK, ListTypes
    <3>3. /\ vctFileList \ todo \subseteq zip.items \cup lost /\ zip.items \subseteq vctFileList
          /\ owed = vctFileList /\ ~ignored
      BY <1>13, <2>3 DEF CompressFile, PackInv
    <3>4. /\ vctFileList' \ todo' \subseteq zip'.items \cup lost'
          /\ zip'.items \subseteq vctFileList'
      BY <2>2, <2>3, <3>1, <3>2, <3>3
    <3> QED
      BY <2>1, <2>2, <2>3, <3>3, <3>4 DEF PackInv
  <2>4. CASE pc' = "failed"
    BY <2>4 DEF PackInv, Listed
  <2>5. CASE pc' = pc /\ UNCHANGED <<zip, zFp, todo, owed, lost, ignored>>
    BY <1>13, <2>1, <2>2, <2>5 DEF PackInv, Listed, CompressFile
  <2> QED
    BY <1>13, <2>3, <2>4, <2>5 DEF CompressFile, Goto, Crash
<1>14. CASE Failed
  BY <1>14 DEF Failed, Goto, PackInv, Listed
<1>15. CASE CloseAgain
  BY <1>15 DEF CloseAgain, Return, Ended, Crash, TypeOK, ZipTypes, DiskTypes,
     ListTypes, CallInv,
     PackInv, Listed
<1>16. CASE Finished
  BY <1>16 DEF Finished, Goto, PackInv, Listed
<1>17. CASE CompressReturns
  BY <1>17 DEF CompressReturns, Return, Ended, PackInv, Listed
<1>18. ASSUME NEW flag \in {"REPLACE", "SKIP"}, UnCompress(flag) PROVE PackInv'
  BY <1>18 DEF UnCompress, PackInv, Listed
<1>19. CASE EnsureTarget
  BY <1>19 DEF EnsureTarget, Goto, MakeDirs, PackInv, Listed
<1>20. CASE UnzOpen
  BY <1>20 DEF UnzOpen, Goto, Return, Ended, PackInv, Listed
<1>21. ASSUME NEW f \in File, Entry(f) PROVE PackInv'
  BY <1>21 DEF Entry, Goto, MakeDirs, PackInv, Listed
<1>22. CASE Target
  BY <1>22 DEF Target, Goto, PackInv, Listed
<1>23. CASE Write
  BY <1>23 DEF Write, Goto, Return, Ended, Crash, TypeOK, ZipTypes, DiskTypes,
     ListTypes,
     CallInv, PackInv, Listed
<1>24. CASE Unpacked
  BY <1>24 DEF Unpacked, Return, Ended, PackInv, Listed
<1>25. CASE UNCHANGED vars
  BY <1>25 DEF vars, PackInv, Listed
<1> QED
  BY <1>1, <1>2, <1>3, <1>4, <1>5, <1>6, <1>7, <1>8, <1>9, <1>10, <1>11,
     <1>12, <1>13, <1>14,
     <1>15, <1>16, <1>17, <1>18, <1>19, <1>20, <1>21, <1>22, <1>23, <1>24, <1>25 DEF Next

\* No step makes a half archive look whole.
LEMMA WholeStep ==
  ASSUME TypeOK, CallInv, PackInv, NoHalfArchive, [Next]_vars
  PROVE  NoHalfArchive'
<1> USE DepthAssumption
<1>1. ASSUME NEW f \in File, Touch(f) PROVE NoHalfArchive'
  BY <1>1 DEF Touch, NoHalfArchive
<1>2. ASSUME NEW f \in File, TouchOut(f) PROVE NoHalfArchive'
  BY <1>2 DEF TouchOut, NoHalfArchive
<1>3. CASE TouchDirs
  BY <1>3 DEF TouchDirs, NoHalfArchive
<1>4. CASE TouchZip
  BY <1>4 DEF TouchZip, NoHalfArchive
<1>5. CASE Restart
  BY <1>5 DEF Restart, Ended, NoHalfArchive
<1>6. CASE MakeDir
  BY <1>6 DEF MakeDir, NoHalfArchive
<1>7. CASE DirsMade
  BY <1>7 DEF DirsMade, Return, Ended, NoHalfArchive
<1>8. ASSUME NEW flag \in {"APPEND", "REPLACE", "EXIT"}, Compress(flag) PROVE NoHalfArchive'
  BY <1>8 DEF Compress, NoHalfArchive
<1>9. CASE TraverseFloder
  BY <1>9 DEF TraverseFloder, Return, Ended, NoHalfArchive
<1>10. CASE Existing
  BY <1>10 DEF Existing, NoHalfArchive, NoZip
<1>11. CASE EnsureFolder
  BY <1>11 DEF EnsureFolder, Crash, NoHalfArchive
<1>12. CASE ZipOpen
  BY <1>12 DEF ZipOpen, Created, NoHalfArchive
<1>13. ASSUME NEW f \in File, CompressFile(f) PROVE NoHalfArchive'
  <2>1. CASE zFp = "open" /\ zip' \in {[zip EXCEPT !.items = zip.items \cup {f}], zip}
    <3>1. zip'.is = "partial"
      BY <2>1 DEF TypeOK, ZipTypes
    <3> QED
      BY <3>1 DEF NoHalfArchive
  <2>2. CASE UNCHANGED <<zip, owed, lost, ignored>>
    BY <2>2 DEF NoHalfArchive
  <2> QED
    BY <1>13, <2>1, <2>2 DEF CompressFile, Crash
<1>14. CASE Failed
  <2>1. CASE zip' = NoZip
    BY <2>1 DEF NoHalfArchive, NoZip
  <2>2. CASE ignored' = (ignored \/ zFp = "open") /\ zFp = "open"
    BY <2>2 DEF NoHalfArchive
  <2>3. CASE ignored' = (ignored \/ zFp = "open") /\ zFp # "open" /\ zip' = zip
    BY <1>14, <2>3 DEF NoHalfArchive, Failed
  <2> QED
    BY <1>14, <2>1, <2>2, <2>3 DEF Failed, FailedClose, Close
<1>15. CASE CloseAgain
  BY <1>15 DEF CloseAgain, Return, Ended, Crash, TypeOK, ZipTypes, CallInv,
     PackInv,
     NoHalfArchive, NoZip
<1>16. CASE Finished
  BY <1>16 DEF Finished, Close, TypeOK, ZipTypes, PackInv, NoHalfArchive
<1>17. CASE CompressReturns
  BY <1>17 DEF CompressReturns, Return, Ended, NoHalfArchive
<1>18. ASSUME NEW flag \in {"REPLACE", "SKIP"}, UnCompress(flag) PROVE NoHalfArchive'
  BY <1>18 DEF UnCompress, NoHalfArchive
<1>19. CASE EnsureTarget
  BY <1>19 DEF EnsureTarget, NoHalfArchive
<1>20. CASE UnzOpen
  BY <1>20 DEF UnzOpen, Return, Ended, NoHalfArchive
<1>21. ASSUME NEW f \in File, Entry(f) PROVE NoHalfArchive'
  BY <1>21 DEF Entry, NoHalfArchive
<1>22. CASE Target
  BY <1>22 DEF Target, NoHalfArchive
<1>23. CASE Write
  BY <1>23 DEF Write, Goto, Return, Ended, Crash, TypeOK, ZipTypes, CallInv,
     PackInv,
     NoHalfArchive, NoZip
<1>24. CASE Unpacked
  BY <1>24 DEF Unpacked, Return, Ended, NoHalfArchive
<1>25. CASE UNCHANGED vars
  BY <1>25 DEF vars, NoHalfArchive
<1> QED
  BY <1>1, <1>2, <1>3, <1>4, <1>5, <1>6, <1>7, <1>8, <1>9, <1>10, <1>11,
     <1>12, <1>13, <1>14,
     <1>15, <1>16, <1>17, <1>18, <1>19, <1>20, <1>21, <1>22, <1>23, <1>24, <1>25 DEF Next

\* Every step keeps what Target has found out about the file to be written.
LEMMA SkipStep ==
  ASSUME TypeOK, CallInv, SkipInv, [Next]_vars
  PROVE  SkipInv'
<1> USE DepthAssumption
<1>1. ASSUME NEW f \in File, Touch(f) PROVE SkipInv'
  BY <1>1 DEF Touch, SkipInv
<1>2. ASSUME NEW f \in File, TouchOut(f) PROVE SkipInv'
  BY <1>2 DEF TouchOut, SkipInv
<1>3. CASE TouchDirs
  BY <1>3 DEF TouchDirs, SkipInv
<1>4. CASE TouchZip
  BY <1>4 DEF TouchZip, SkipInv
<1>5. CASE Restart
  BY <1>5 DEF Restart, Ended, SkipInv
<1>6. CASE MakeDir
  BY <1>6 DEF MakeDir, SkipInv
<1>7. CASE DirsMade
  BY <1>7 DEF DirsMade, Goto, Return, Ended, CallInv, SkipInv
<1>8. ASSUME NEW flag \in {"APPEND", "REPLACE", "EXIT"}, Compress(flag) PROVE SkipInv'
  BY <1>8 DEF Compress, SkipInv
<1>9. CASE TraverseFloder
  BY <1>9 DEF TraverseFloder, Goto, Return, Ended, SkipInv
<1>10. CASE Existing
  BY <1>10 DEF Existing, SkipInv
<1>11. CASE EnsureFolder
  BY <1>11 DEF EnsureFolder, Goto, MakeDirs, Crash, SkipInv
<1>12. CASE ZipOpen
  BY <1>12 DEF ZipOpen, Goto, SkipInv
<1>13. ASSUME NEW f \in File, CompressFile(f) PROVE SkipInv'
  BY <1>13 DEF CompressFile, Goto, Crash, SkipInv
<1>14. CASE Failed
  BY <1>14 DEF Failed, Goto, SkipInv
<1>15. CASE CloseAgain
  BY <1>15 DEF CloseAgain, Return, Ended, Crash, SkipInv
<1>16. CASE Finished
  BY <1>16 DEF Finished, Goto, SkipInv
<1>17. CASE CompressReturns
  BY <1>17 DEF CompressReturns, Return, Ended, SkipInv
<1>18. ASSUME NEW flag \in {"REPLACE", "SKIP"}, UnCompress(flag) PROVE SkipInv'
  BY <1>18 DEF UnCompress, SkipInv
<1>19. CASE EnsureTarget
  BY <1>19 DEF EnsureTarget, Goto, MakeDirs, SkipInv
<1>20. CASE UnzOpen
  BY <1>20 DEF UnzOpen, Goto, Return, Ended, SkipInv
<1>21. ASSUME NEW f \in File, Entry(f) PROVE SkipInv'
  BY <1>21 DEF Entry, Goto, MakeDirs, SkipInv
<1>22. CASE Target
  BY <1>22 DEF Target, Goto, Skips, SkipInv
<1>23. CASE Write
  <2>1. pc' # "write" \/ UNCHANGED <<pc, iFlag, cur, same, out>>
    BY <1>23 DEF Write, Goto, Return, Ended, Crash
  <2> QED
    BY <2>1 DEF SkipInv
<1>24. CASE Unpacked
  BY <1>24 DEF Unpacked, Return, Ended, SkipInv
<1>25. CASE UNCHANGED vars
  BY <1>25 DEF vars, SkipInv
<1> QED
  BY <1>1, <1>2, <1>3, <1>4, <1>5, <1>6, <1>7, <1>8, <1>9, <1>10, <1>11,
     <1>12, <1>13, <1>14,
     <1>15, <1>16, <1>17, <1>18, <1>19, <1>20, <1>21, <1>22, <1>23, <1>24, <1>25 DEF Next

\* The invariant holds throughout.
LEMMA ZipInvariant == Spec => []ZipInv
<1>1. ZipInv /\ [Next]_vars => ZipInv'
  BY TypeStep, CallStep, PackStep, WholeStep, SkipStep DEF ZipInv
<1> QED
  BY <1>1, InitialZip, PTL DEF Spec

\* The variables have their types, for any files and any depth of the folders:
\* an archive that is being written is open, and a loop over folders stays on
\* the way.
THEOREM ZipTypeCorrect == Spec => []TypeOK
<1>1. ZipInv => TypeOK
  BY DEF ZipInv
<1> QED
  BY <1>1, ZipInvariant, PTL

\* No archive that failed or that a crash interrupted passes for a good one,
\* unless its deletion failed; a whole one has every file but those whose entry
\* minizip could not finish.
THEOREM HalfArchivesAreSeen == Spec => []NoHalfArchive
<1>1. ZipInv => NoHalfArchive
  BY DEF ZipInv
<1> QED
  BY <1>1, ZipInvariant, PTL

\* When Compress answers ZIP_OK everything it has listed is in the archive or
\* among the entries that minizip could not finish, every file nobody touched is
\* listed unless its folder could not be, and nothing is left of an earlier
\* archive that was to be replaced.
THEOREM CompressPacksAll == Spec => PackedAll
<1>1. ASSUME ZipInv, Next, pc = "file", pc' = "finished"
      PROVE  /\ vctFileList \subseteq zip'.items \cup lost
             /\ {f \in same : src[f] = "plain"} \subseteq zip'.items \cup lost \cup missed
             /\ asked = "REPLACE" => zip'.items \subseteq vctFileList
  <2>1. Finished
    BY <1>1 DEF Next, Touch, TouchOut, TouchDirs, TouchZip, Restart, Ended,
       MakeDir, DirsMade,
       Compress, TraverseFloder, Existing, EnsureFolder, ZipOpen, CompressFile, Failed,
       CloseAgain, CompressReturns, UnCompress, EnsureTarget, UnzOpen, Entry, Target, Write,
       Unpacked, Goto, Crash
  <2>2. /\ zFp = "open" /\ vctFileList \subseteq zip.items \cup lost
        /\ zip.items \subseteq vctFileList
    BY <1>1, <2>1 DEF ZipInv, PackInv, Listed, Finished
  <2>3. zip'.items = zip.items
    BY <1>1, <2>1, <2>2 DEF ZipInv, TypeOK, ZipTypes, Finished, Close
  <2>4. {f \in same : src[f] = "plain"} \subseteq vctFileList \cup missed
    BY <1>1 DEF ZipInv, PackInv, Listed
  <2> QED
    BY <2>2, <2>3, <2>4
<1>2. ZipInv /\ [Next]_vars =>
        [pc = "file" /\ pc' = "finished" =>
            /\ vctFileList \subseteq zip'.items \cup lost
            /\ {f \in same : src[f] = "plain"} \subseteq zip'.items \cup lost \cup missed
            /\ asked = "REPLACE" => zip'.items \subseteq vctFileList]_vars
  BY <1>1
<1> QED
  BY <1>2, ZipInvariant, PTL DEF Spec, PackedAll

\* With ZIP_FILE_SKIP no file is lost or overwritten that UnCompress found, or
\* that was there all the time, unless somebody else touched it.
THEOREM SkipLeavesFiles == Spec => SkipKeeps
<1>1. ASSUME ZipInv, Next, NEW f \in same', iFlag = "SKIP", out[f] = "old"
      PROVE  out'[f] = "old"
  <2>1. f \in File
    <3>1. TypeOK'
      BY <1>1, TypeStep DEF ZipInv
    <3> QED
      BY <3>1 DEF TypeOK, HistoryTypes
  <2>2. CASE UNCHANGED out
    BY <1>1, <2>2
  <2>3. ASSUME NEW g \in File, TouchOut(g) PROVE out'[f] = "old"
    BY <1>1, <2>1, <2>3 DEF TouchOut, ZipInv, TypeOK, DiskTypes
  <2>4. CASE Target
    BY <1>1, <2>1, <2>4 DEF Target, Skips
  <2>5. CASE Write /\ out' = [out EXCEPT ![cur] = "new"] /\ same' = same
    BY <1>1, <2>1, <2>5 DEF Write, ZipInv, SkipInv, TypeOK, DiskTypes
  <2>6. CASE pc = "idle"
    BY <1>1, <2>6 DEF ZipInv, CallInv
  <2>7. CASE Ended
    BY <1>1, <2>7 DEF Ended
  <2> QED
    BY <1>1, <2>2, <2>3, <2>4, <2>5, <2>6, <2>7 DEF Next, Touch, TouchDirs,
       TouchZip, Restart,
       MakeDir, DirsMade, Compress, TraverseFloder, Existing, EnsureFolder, ZipOpen,
       CompressFile, Failed, CloseAgain, Finished, CompressReturns, UnCompress, EnsureTarget,
       UnzOpen, Entry, Write, Unpacked, Goto, Crash, Return, MakeDirs
<1>2. ZipInv /\ [Next]_vars =>
        [\A f \in same' : iFlag = "SKIP" /\ out[f] = "old" => out'[f] = "old"]_vars
  BY <1>1
<1> QED
  BY <1>2, ZipInvariant, PTL DEF Spec, SkipKeeps
=============================================================================
