--------------------------- MODULE SevenZipProofs ---------------------------
(***************************************************************************)
(* Theorems about the 7-Zip wrapper for every tree, every set of archives  *)
(* and any number of items: its types, the earlier archive that survives a *)
(* call that fails before the work begins, the files that Compress packs   *)
(* when it answers ERROR_OK, and what UnCompress leaves in the target      *)
(* folder when it does not answer an error.                                *)
(***************************************************************************)
EXTENDS SevenZip, WellFoundedInduction, TLAPS

\* The engine is at an item of the archive, or past the last one, while
\* UnCompress extracts; else its state is that of a new extraction.
ItemInv ==
    /\ pc # "extract" => /\ item = 0 /\ epc = "between" /\ NumErrors = 0 /\ ~cancelled
                          /\ refused = {}
    /\ pc = "extract" => item \in 1 .. Len(archive.items) + 1
    /\ epc # "between" => item <= Len(archive.items)

USE DEF diskVars, packVars, extractVars, callVars, historyVars

\* The item at which the engine is.
LEMMA CurrentItem ==
  ASSUME TypeOK, ItemInv, pc = "extract", item <= Len(archive.items)
  PROVE  /\ item \in DOMAIN archive.items /\ Current \in Item
         /\ Current.path \in File /\ Current.isDir \in BOOLEAN
<1>1. archive.items \in Seq(Item)
  BY DEF TypeOK, DiskTypes
<1>2. item \in 1 .. Len(archive.items)
  BY <1>1 DEF ItemInv
<1>3. item \in DOMAIN archive.items /\ Current \in Item
  BY <1>1, <1>2 DEF Current
<1> QED
  BY <1>3 DEF Item

\* What an entry of the target folder may become.
LEMMA DiskChanges ==
  ASSUME NEW d \in Disk, NEW b \in BOOLEAN, NEW a \in {0} \cup Stamp, NEW m \in {0} \cup Stamp
  PROVE  /\ [d EXCEPT !.kind = "dir"] \in Disk /\ [d EXCEPT !.whole = b] \in Disk
         /\ [d EXCEPT !.attrib = a] \in Disk /\ [d EXCEPT !.mtime = m] \in Disk
         /\ d.attrib \in {0} \cup Stamp /\ d.mtime \in {0} \cup Stamp
BY DEF Disk

\* A call that returns leaves the types right, whatever it did to the archive.
LEMMA ReturnTypes ==
  ASSUME TypeOK, archive' \in [items : Seq(Item), whole : BOOLEAN], NEW r, Return(r)
  PROVE  TypeOK' /\ ItemInv'
<1>1. DiskTypes'
  BY DEF DiskTypes, Return, Nothing, Disk
<1>2. PackTypes'
  BY DEF PackTypes, Return
<1>3. ExtractTypes' /\ ItemInv'
  BY DEF ExtractTypes, Return, NoInfo, ItemInv
<1> QED
  BY <1>1, <1>2, <1>3 DEF TypeOK

\* A step that leaves the extraction alone, while there is none.
LEMMA NoExtraction ==
  ASSUME ExtractTypes, ItemInv, UNCHANGED extractVars, pc # "extract", pc' # "extract",
         pc' \in {"idle", "Compress", "traverse", "find", "object", "update", "UnCompress", "open"}
  PROVE  ExtractTypes' /\ ItemInv'
BY DEF ExtractTypes, ItemInv

\* Every step keeps the types and the place of the engine.
LEMMA TypeStep ==
  ASSUME TypeOK, ItemInv, [Next]_vars
  PROVE  TypeOK' /\ ItemInv'
<1> DEFINE Inv == TypeOK /\ ItemInv
<1> USE TreeAssumption, ArchivesAssumption
<1>1. archive \in [items : Seq(Item), whole : BOOLEAN]
  BY DEF TypeOK, DiskTypes
<1>2. ASSUME NEW r, Return(r), UNCHANGED archive PROVE Inv'
  BY <1>1, <1>2, ReturnTypes
<1>3. ASSUME NEW f \in File, Touch(f) PROVE Inv'
  <2>1. DiskTypes' /\ PackTypes'
    BY <1>3 DEF TypeOK, DiskTypes, PackTypes, Touch
  <2> QED
    BY <1>3, <2>1, NoExtraction DEF TypeOK, Touch, ExtractTypes
<1>4. ASSUME NEW a \in Archives, Bring(a) PROVE Inv'
  <2>1. DiskTypes' /\ PackTypes'
    BY <1>4 DEF TypeOK, DiskTypes, PackTypes, Bring
  <2> QED
    BY <1>4, <2>1, NoExtraction DEF TypeOK, Bring
<1>5. ASSUME NEW op \in {"Compress", "UnCompress"}, NEW cb \in BOOLEAN, Call(op, cb) PROVE Inv'
  <2>1. out' \in [File -> Disk]
    <3>1. /\ Nothing \in Disk /\ [Nothing EXCEPT !.kind = "dir"] \in Disk
          /\ [Nothing EXCEPT !.kind = "file"] \in Disk
      BY DEF Nothing, Disk
    <3>2. \/ out' = out
          \/ out' \in [File -> {Nothing, [Nothing EXCEPT !.kind = "dir"],
                                [Nothing EXCEPT !.kind = "file"]}]
      BY <1>5 DEF Call
    <3>3. out \in [File -> Disk]
      BY DEF TypeOK, DiskTypes
    <3> QED
      BY <3>1, <3>2, <3>3
  <2>2. DiskTypes' /\ PackTypes'
    BY <1>5, <2>1 DEF TypeOK, DiskTypes, PackTypes, Call
  <2> QED
    BY <1>5, <2>2, NoExtraction DEF TypeOK, Call
<1>6. ASSUME NEW op, NEW next, op # "extract", next \in {"traverse", "open"}, Load(op, next)
      PROVE  Inv'
  <2>1. CASE /\ pc' = next /\ pending' = (IF next = "traverse" THEN {Root} ELSE {})
             /\ UNCHANGED <<diskVars, ret, pfn, vecFilelist, dirItems, FailedFiles,
                            extractVars, historyVars>>
    <3>1. DiskTypes' /\ PackTypes'
      BY <2>1 DEF TypeOK, DiskTypes, PackTypes
    <3> QED
      BY <1>6, <2>1, <3>1, NoExtraction DEF TypeOK, Load
  <2> QED
    BY <1>2, <1>6, <2>1 DEF Load
<1>7. ASSUME NEW d \in Folder, Traverse(d) PROVE Inv'
  <2>1. CASE /\ \E fs \in SUBSET FilesOf(d), es \in SUBSET FoldersOf(d) :
                  /\ vecFilelist' = vecFilelist \cup fs
                  /\ pending' = (pending \ {d}) \cup es
             /\ unlisted' \in {unlisted, unlisted \cup {d}}
             /\ first' \in File \cup Folder \cup {None}
             /\ UNCHANGED <<diskVars, callVars, dirItems, FailedFiles, extractVars, same, before>>
    <3>1. DiskTypes' /\ PackTypes'
      BY <2>1 DEF TypeOK, DiskTypes, PackTypes, FilesOf, FoldersOf
    <3> QED
      BY <1>7, <2>1, <3>1, NoExtraction DEF TypeOK, ExtractTypes, Traverse
  <2>2. first \in File \cup Folder \cup {None}
    BY DEF TypeOK, PackTypes
  <2>3. ASSUME NEW e \in Firsts(d), vecFilelist' = vecFilelist \cup (FilesOf(d) \ {e}),
               pending' = (pending \ {d}) \cup (FoldersOf(d) \ {e}),
               first' = (IF d = Root THEN e ELSE first),
               UNCHANGED <<diskVars, unlisted, callVars, dirItems, FailedFiles,
                           extractVars, same, before>>
        PROVE  Inv'
    <3>1. first' \in File \cup Folder \cup {None}
      BY <2>2, <2>3 DEF Firsts, FilesOf, FoldersOf
    <3>2. \E fs \in SUBSET FilesOf(d), es \in SUBSET FoldersOf(d) :
             vecFilelist' = vecFilelist \cup fs /\ pending' = (pending \ {d}) \cup es
      BY <2>3
    <3> QED
      BY <2>1, <2>3, <3>1, <3>2
  <2>4. CASE /\ \E fs \in SUBSET FilesOf(d), es \in SUBSET FoldersOf(d) :
                  /\ vecFilelist' = vecFilelist \cup fs
                  /\ pending' = (pending \ {d}) \cup es
             /\ unlisted' = unlisted \cup {d}
             /\ UNCHANGED <<diskVars, callVars, dirItems, FailedFiles, extractVars,
                            same, first, before>>
    BY <2>1, <2>2, <2>4
  <2> QED
    BY <1>2, <1>7, <2>3, <2>4 DEF Traverse
<1>8. CASE Traversed
  <2>1. DiskTypes' /\ PackTypes'
    BY <1>8 DEF TypeOK, DiskTypes, PackTypes, Traversed
  <2> QED
    BY <1>8, <2>1, NoExtraction DEF TypeOK, Traversed
<1>9. ASSUME NEW f \in File, Find(f) PROVE Inv'
  <2>1. CASE /\ dirItems' = dirItems \cup {f} /\ vecFilelist' = vecFilelist \ {f}
             /\ UNCHANGED <<diskVars, callVars, pending, FailedFiles, extractVars, historyVars>>
    <3>1. DiskTypes' /\ PackTypes'
      BY <2>1 DEF TypeOK, DiskTypes, PackTypes
    <3> QED
      BY <1>9, <2>1, <3>1, NoExtraction DEF TypeOK, ExtractTypes, Find
  <2> QED
    BY <1>2, <1>9, <2>1 DEF Find
<1>10. CASE Create
  <2>1. CASE /\ archive' = NoArchive /\ pc' = "object"
             /\ UNCHANGED <<src, out, ret, pfn, packVars, extractVars, historyVars>>
    <3>1. DiskTypes' /\ PackTypes'
      BY <2>1 DEF TypeOK, DiskTypes, PackTypes, NoArchive
    <3> QED
      BY <1>10, <2>1, <3>1, NoExtraction DEF TypeOK, Create
  <2> QED
    BY <1>2, <1>10, <2>1 DEF Create
<1>11. CASE OutObject
  <2>1. CASE /\ pc' = "update"
             /\ UNCHANGED <<diskVars, ret, pfn, packVars, extractVars, historyVars>>
    <3>1. DiskTypes' /\ PackTypes'
      BY <2>1 DEF TypeOK, DiskTypes, PackTypes
    <3> QED
      BY <1>11, <2>1, <3>1, NoExtraction DEF TypeOK, OutObject
  <2> QED
    BY <1>2, <1>11, <2>1 DEF OutObject
<1>12. ASSUME NEW f \in File, PackStream(f) PROVE Inv'
  <2>1. [path |-> f, isDir |-> FALSE, attrib |-> 1, mtime |-> 1] \in Item
    BY DEF Item, Stamp
  <2>2. archive' \in [items : Seq(Item), whole : BOOLEAN]
    <3>1. ASSUME NEW i \in Item
          PROVE  [archive EXCEPT !.items = Append(@, i)] \in [items : Seq(Item), whole : BOOLEAN]
      <4>1. Append(archive.items, i) \in Seq(Item)
        BY <1>1
      <4> QED
        BY <1>1, <4>1
    <3> QED
      BY <1>1, <1>12, <2>1, <3>1 DEF PackStream
  <2>3. DiskTypes' /\ PackTypes'
    BY <1>12, <2>2 DEF TypeOK, DiskTypes, PackTypes, PackStream, NoteFailed
  <2> QED
    BY <1>12, <2>3, NoExtraction DEF TypeOK, ExtractTypes, PackStream
<1>13. CASE Packed
  <2>1. [archive EXCEPT !.whole = TRUE] \in [items : Seq(Item), whole : BOOLEAN]
    BY <1>1
  <2> QED
    BY <1>2, <1>13, <2>1, ReturnTypes DEF Packed
<1>14. CASE OpenArchive
  <2>1. CASE /\ archive.whole /\ pc' = "extract" /\ item' = 1
             /\ UNCHANGED <<src, out, ret, pfn, packVars, epc, opResult, info, diskFile,
                            stream, NumErrors, refused, cancelled, historyVars>>
    <3>1. DiskTypes' /\ PackTypes'
      BY <1>14, <2>1 DEF TypeOK, DiskTypes, PackTypes, OpenArchive
    <3>2. pc = "open" /\ archive' = archive /\ Len(archive.items) \in Nat
      BY <1>1, <1>14 DEF OpenArchive
    <3>3. ItemInv'
      BY <2>1, <3>2 DEF ItemInv
    <3>4. ExtractTypes'
      BY <2>1, <3>2 DEF TypeOK, ExtractTypes, ItemInv
    <3> QED
      BY <3>1, <3>3, <3>4 DEF TypeOK
  <2> QED
    BY <1>2, <1>14, <2>1 DEF OpenArchive
<1>15. CASE GetFolder
  <2>1. /\ pc = "extract" /\ item \in Nat /\ item <= Len(archive.items)
        /\ Current \in Item /\ Current.path \in File /\ Current.isDir
    BY <1>15, CurrentItem DEF GetFolder, Extracting, TypeOK, ExtractTypes
  <2>2. out' \in [File -> Disk]
    <3>1. out \in [File -> Disk] /\ [out[Current.path] EXCEPT !.kind = "dir"] \in Disk
      BY <2>1, DiskChanges DEF TypeOK, DiskTypes
    <3>2. out' = out \/ out' = [out EXCEPT ![Current.path].kind = "dir"]
      BY <1>15 DEF GetFolder
    <3> QED
      BY <2>1, <3>1, <3>2
  <2>3. DiskTypes' /\ PackTypes'
    BY <1>15, <2>2 DEF GetFolder, Goto, TypeOK, DiskTypes, PackTypes
  <2>4. info' \in [attrib : {0} \cup Stamp, mtime : {0} \cup Stamp]
    BY <1>15, <2>1 DEF GetFolder, InfoOf, Item
  <2>5. Current' = Current
    BY <1>15 DEF GetFolder, Current
  <2>6. ExtractTypes' /\ ItemInv'
    BY <1>15, <2>1, <2>4, <2>5 DEF GetFolder, Goto, TypeOK, ExtractTypes,
       ItemInv
  <2> QED
    BY <2>3, <2>6 DEF TypeOK
<1>16. CASE GetStream
  <2>1. /\ pc = "extract" /\ item \in Nat /\ item <= Len(archive.items)
        /\ Current \in Item /\ Current.path \in File /\ ~Current.isDir
    BY <1>16, CurrentItem DEF GetStream, Extracting, TypeOK, ExtractTypes
  <2>2. out' \in [File -> Disk]
    BY <1>16, <2>1 DEF GetStream, TypeOK, DiskTypes, Disk, Nothing
  <2>3. DiskTypes' /\ PackTypes'
    BY <1>16, <2>2 DEF GetStream, Goto, TypeOK, DiskTypes, PackTypes
  <2>4. info' \in [attrib : {0} \cup Stamp, mtime : {0} \cup Stamp]
    BY <1>16, <2>1 DEF GetStream, InfoOf, Item
  <2>5. Current' = Current
    BY <1>16 DEF GetStream, Current
  <2>6. ExtractTypes' /\ ItemInv'
    BY <1>16, <2>1, <2>4, <2>5 DEF GetStream, Goto, TypeOK, ExtractTypes,
       ItemInv
  <2> QED
    BY <2>3, <2>6 DEF TypeOK
<1>17. ASSUME NEW r \in {"kOK", "kDataError"}, Decode(r) PROVE Inv'
  <2>1. /\ pc = "extract" /\ epc = "open" /\ item <= Len(archive.items)
        /\ Current.path \in File /\ stream \in {None, Current.path}
    BY <1>17, CurrentItem DEF Decode, Extracting, TypeOK, ExtractTypes
  <2>2. out' \in [File -> Disk]
    <3>1. (r = "kOK") \in BOOLEAN
      OBVIOUS
    <3> QED
      BY <1>17, <2>1, <3>1, DiskChanges DEF Decode, TypeOK, DiskTypes
  <2>3. DiskTypes' /\ PackTypes'
    BY <1>17, <2>2 DEF Decode, Goto, TypeOK, DiskTypes, PackTypes
  <2>4. Current' = Current
    BY <1>17 DEF Decode, Current
  <2>5. ExtractTypes' /\ ItemInv'
    BY <1>17, <2>1, <2>4 DEF Decode, Goto, TypeOK, ExtractTypes, ItemInv
  <2> QED
    BY <2>3, <2>5 DEF TypeOK
<1>18. CASE Cancel
  <2>1. CASE /\ Extracting("open") /\ stream # None
             /\ opResult' = "kDataError" /\ cancelled' = TRUE /\ Goto("decoded")
             /\ UNCHANGED <<src, out, item, info, diskFile, stream, NumErrors, refused>>
    <3>1. DiskTypes' /\ PackTypes'
      BY <1>18, <2>1 DEF Cancel, Goto, TypeOK, DiskTypes, PackTypes
    <3>2. Current' = Current
      BY <1>18, <2>1 DEF Cancel, Current
    <3>3. ExtractTypes' /\ ItemInv'
      BY <1>18, <2>1, <3>2 DEF Cancel, Extracting, Goto, TypeOK, ExtractTypes,
         ItemInv
    <3> QED
      BY <3>1, <3>3 DEF TypeOK
  <2> QED
    BY <1>2, <1>18, <2>1 DEF Cancel
<1>19. CASE SetOperationResult
  <2>1. ASSUME NEW set \in SUBSET ToStamp, out' = Stamped(set),
               refused' = refused \cup ((ToStamp \ set) \X {item}),
               NumErrors' = ErrorCount, stream' = StreamReleased, item' = item + 1,
               Goto("between"), UNCHANGED <<src, opResult, info, diskFile, cancelled>>
        PROVE  Inv'
    <3>1. /\ pc = "extract" /\ item \in Nat /\ item <= Len(archive.items)
          /\ Current.path \in File /\ diskFile = Current.path /\ archive' = archive
      BY <1>19, CurrentItem DEF SetOperationResult, Extracting, TypeOK,
         ExtractTypes
    <3>2. out' \in [File -> Disk]
      <4>1. out \in [File -> Disk]
        BY DEF TypeOK, DiskTypes
      <4>2. PICK a, m \in {0} \cup Stamp :
              out' = [out EXCEPT ![Current.path].attrib = a, ![Current.path].mtime = m]
        <5>1. /\ info.attrib \in {0} \cup Stamp /\ info.mtime \in {0} \cup Stamp
              /\ out[Current.path].attrib \in {0} \cup Stamp
              /\ out[Current.path].mtime \in {0} \cup Stamp
          BY <3>1, <4>1 DEF TypeOK, ExtractTypes, Disk
        <5> QED
          BY <2>1, <3>1, <4>1, <5>1 DEF Stamped, Disk
      <4>3. \A x \in Disk : /\ [x EXCEPT !.attrib = a] \in Disk
                            /\ [x EXCEPT !.mtime = m] \in Disk
        BY DEF Disk
      <4>4. [out EXCEPT ![Current.path].attrib = a] \in [File -> Disk]
        BY <3>1, <4>1, <4>3
      <4> QED
        BY <3>1, <4>2, <4>3, <4>4
    <3>3. DiskTypes' /\ PackTypes'
      BY <2>1, <3>1, <3>2 DEF Goto, TypeOK, DiskTypes, PackTypes
    <3>4. NumErrors' \in 0 .. item' /\ item' \in Nat /\ item' \in 1 .. Len(archive.items) + 1
      BY <1>1, <2>1, <3>1 DEF ErrorCount, TypeOK, ExtractTypes
    <3>5. refused' \subseteq {"attrib", "mtime"} \X {i \in Nat : i < item'}
      <4>1. item \in {i \in Nat : i < item'}
        BY <2>1, <3>1
      <4>2. {i \in Nat : i < item} \subseteq {i \in Nat : i < item'}
        BY <2>1, <3>1
      <4>3. ToStamp \ set \subseteq {"attrib", "mtime"}
        BY DEF ToStamp
      <4>4. refused \subseteq {"attrib", "mtime"} \X {i \in Nat : i < item}
        BY DEF TypeOK, ExtractTypes
      <4> QED
        BY <2>1, <4>1, <4>2, <4>3, <4>4
    <3>6. ExtractTypes' /\ ItemInv'
      BY <2>1, <3>1, <3>4, <3>5 DEF Goto, StreamReleased, TypeOK, ExtractTypes,
         ItemInv
    <3> QED
      BY <3>3, <3>6 DEF TypeOK
  <2> QED
    BY <1>2, <1>19, <2>1 DEF SetOperationResult
<1>20. CASE GetStreamFails \/ DecodeFails \/ Extracted
  BY <1>2, <1>20 DEF GetStreamFails, DecodeFails, Extracted
<1>21. CASE UNCHANGED vars
  BY <1>21 DEF vars, TypeOK, DiskTypes, PackTypes, ExtractTypes, Current,
     ItemInv
<1> QED
  BY <1>3, <1>4, <1>5, <1>6, <1>7, <1>8, <1>9, <1>10, <1>11, <1>12, <1>13,
     <1>14, <1>15,
     <1>16, <1>17, <1>18, <1>19, <1>20, <1>21 DEF Next

\* The initial state has the types.
LEMMA InitialTypes == Init => TypeOK /\ ItemInv
<1> SUFFICES ASSUME Init PROVE TypeOK /\ ItemInv
  OBVIOUS
<1>1. DiskTypes
  BY DEF Init, DiskTypes, Nothing, NoArchive, Disk
<1>2. PackTypes
  BY DEF Init, PackTypes
<1>3. ExtractTypes /\ ItemInv
  BY DEF Init, ExtractTypes, NoInfo, ItemInv
<1> QED
  BY <1>1, <1>2, <1>3 DEF TypeOK

\* The types of all variables: in particular the open file is always that of
\* the item at which the engine is, and none is open between two items.
THEOREM SevenZipTypeCorrect == Spec => []TypeOK
<1>1. TypeOK /\ ItemInv /\ [Next]_vars => (TypeOK /\ ItemInv)'
  BY TypeStep
<1> QED
  BY <1>1, InitialTypes, PTL DEF Spec

-----------------------------------------------------------------------------
(* The earlier archive. *)

\* As long as nothing has been packed the archive is that of the call.
KeptInv == pc \in {"Compress", "UnCompress", "traverse", "find"} => archive = before

\* Every step keeps it.
LEMMA KeptStep ==
  ASSUME KeptInv, [Next]_vars
  PROVE  KeptInv'
<1> USE DEF KeptInv
<1>1. CASE \E f \in File : Touch(f) \/ Find(f) \/ PackStream(f)
  BY <1>1 DEF Touch, Find, Return, PackStream
<1>2. CASE \E a \in Archives : Bring(a)
  BY <1>2 DEF Bring
<1>3. CASE \E op \in {"Compress", "UnCompress"}, cb \in BOOLEAN : Call(op, cb)
  BY <1>3 DEF Call
<1>4. CASE Load("Compress", "traverse") \/ Load("UnCompress", "open")
  BY <1>4 DEF Load, Return
<1>5. CASE \E d \in Folder : Traverse(d)
  BY <1>5 DEF Traverse, Return
<1>6. CASE Traversed \/ Create \/ OutObject \/ Packed \/ OpenArchive
  BY <1>6 DEF Traversed, Create, OutObject, Packed, OpenArchive, Return
<1>7. CASE \/ GetFolder \/ GetStream \/ GetStreamFails
           \/ \E r \in {"kOK", "kDataError"} : Decode(r)
           \/ DecodeFails \/ Cancel \/ SetOperationResult \/ Extracted
  BY <1>7 DEF GetFolder, GetStream, GetStreamFails, Decode, DecodeFails, Cancel,
     SetOperationResult, Extracted, Extracting, Goto, Return
<1>8. CASE UNCHANGED vars
  BY <1>8 DEF vars
<1> QED
  BY <1>1, <1>2, <1>3, <1>4, <1>5, <1>6, <1>7, <1>8 DEF Next

\* The codes that say that the work has not begun.
EarlyCodes == {"LOAD_7Z_FIALD", "CREATEOBJECT_FIALD", "FOLEDER_FAILD", "FINDFILE_FAILD",
               "CREATEARCHIVE_FAILD"}

\* A call that answers one of them leaves the archive as it was.
LEMMA EarlyReturn ==
  ASSUME KeptInv, [Next]_vars, pc' = "idle", ret' \in EarlyCodes, pc # "idle"
  PROVE  archive' = before
<1> USE DEF KeptInv, EarlyCodes
<1>1. CASE \E f \in File : Touch(f) \/ Find(f) \/ PackStream(f)
  BY <1>1 DEF Touch, Find, Return, PackStream
<1>2. CASE \E op \in {"Compress", "UnCompress"}, cb \in BOOLEAN : Call(op, cb)
  BY <1>2 DEF Call
<1>3. CASE Load("Compress", "traverse") \/ Load("UnCompress", "open")
  BY <1>3 DEF Load, Return
<1>4. CASE \E d \in Folder : Traverse(d)
  BY <1>4 DEF Traverse, Return
<1>5. CASE Traversed \/ Create \/ OutObject \/ Packed \/ OpenArchive
  BY <1>5 DEF Traversed, Create, OutObject, Packed, OpenArchive, Return
<1>6. CASE \/ GetFolder \/ GetStream \/ GetStreamFails
           \/ \E r \in {"kOK", "kDataError"} : Decode(r)
           \/ DecodeFails \/ Cancel \/ SetOperationResult \/ Extracted
  BY <1>6 DEF GetFolder, GetStream, GetStreamFails, Decode, DecodeFails, Cancel,
     SetOperationResult, Extracted, Extracting, Goto, Return
<1>7. CASE UNCHANGED vars
  BY <1>7 DEF vars
<1> QED
  BY <1>1, <1>2, <1>3, <1>4, <1>5, <1>6, <1>7 DEF Next, Bring

\* A folder or a file that cannot be read, or an archive that cannot be
\* written, does not cost the earlier archive.
THEOREM EarlyFailuresKeepArchive == Spec => ArchiveKept
<1>1. Init => KeptInv
  BY DEF Init, KeptInv
<1>2. KeptInv /\ [Next]_vars => KeptInv'
  BY KeptStep
<1>3. KeptInv /\ [Next]_vars
        => [pc' = "idle" /\ ret' \in {"LOAD_7Z_FIALD", "CREATEOBJECT_FIALD",
                "FOLEDER_FAILD", "FINDFILE_FAILD", "CREATEARCHIVE_FAILD"} /\ pc # "idle"
            => archive' = before]_vars
  BY EarlyReturn DEF EarlyCodes
<1> QED
  BY <1>1, <1>2, <1>3, PTL DEF Spec, ArchiveKept

-----------------------------------------------------------------------------
(* What UnCompress leaves in the target folder. *)

\* How far the engine is: the last item whose path it has touched.
Reached == IF epc = "between" THEN item - 1 ELSE item

\* Item i is the last one with its path, of those that the engine has reached.
LastReached(i) == \A j \in DOMAIN archive.items :
    j <= Reached /\ archive.items[j].path = archive.items[i].path => j <= i

\* The file at the path of item i is that of the item.
FileOf(i) ==
    LET d == out[archive.items[i].path]
    IN  /\ d.kind = "file" /\ d.item = i
        /\ d.attrib = AttribOf(i) /\ d.mtime = MTimeOf(i)
        /\ NumErrors = 0 => d.whole

\* The items that the engine is past, unless a later one has their path; the
\* file of the item at which it is; and where a cancellation is remembered.
ExtractInv ==
    pc = "extract" =>
        /\ \A i \in DOMAIN archive.items :
              i < item /\ ~archive.items[i].isDir /\ LastReached(i) => FileOf(i)
        /\ epc # "between" => info = InfoOf(Current)
        /\ epc # "between" /\ ~Current.isDir =>
              LET d == out[Current.path]
              IN  /\ d.kind = "file" /\ d.item = item /\ d.attrib = 0 /\ d.mtime = 0
                  /\ epc = "decoded" /\ opResult = "kOK" => d.whole
        /\ cancelled => NumErrors > 0 \/ (epc = "decoded" /\ opResult # "kOK")

\* While no item is extracted, nothing is said.
LEMMA ExtractElsewhere ==
  ASSUME pc' # "extract"
  PROVE  ExtractInv'
BY DEF ExtractInv

\* A step to an item, or within it, that leaves the files at the other paths
\* and the count of errors alone.
LEMMA ExtractFrame ==
  ASSUME TypeOK, ItemInv, ExtractInv, pc = "extract", item <= Len(archive.items),
         UNCHANGED <<archive, item, NumErrors, refused>>, epc' # "between",
         \A f \in File : f # Current.path => out'[f] = out[f]
  PROVE  \A i \in DOMAIN archive.items :
            i < item /\ ~archive.items[i].isDir /\ LastReached(i)' => FileOf(i)'
<1> SUFFICES ASSUME NEW i \in DOMAIN archive.items, i < item, ~archive.items[i].isDir,
                    LastReached(i)'
             PROVE  FileOf(i)'
  OBVIOUS
<1>1. /\ archive.items \in Seq(Item) /\ item \in DOMAIN archive.items
      /\ DOMAIN archive.items \subseteq Nat
  BY CurrentItem DEF TypeOK, DiskTypes
<1>2. archive.items[i].path # Current.path /\ archive.items[i].path \in File
  <2>1. Reached' = item /\ archive' = archive
    BY DEF Reached
  <2>2. archive.items[i].path = archive.items[item].path => item <= i
    BY <1>1, <2>1 DEF LastReached
  <2>3. archive.items[i] \in Item
    BY <1>1
  <2> QED
    BY <1>1, <2>2, <2>3 DEF Current, Item
<1>3. LastReached(i)
  <2>1. Reached <= Reached' /\ Reached \in Int /\ Reached' \in Int
    BY <1>1 DEF Reached
  <2>2. \A j \in DOMAIN archive.items : j <= Reached => j <= Reached'
    BY <1>1, <2>1
  <2> QED
    BY <2>2 DEF LastReached
<1>4. FileOf(i)
  BY <1>3 DEF ExtractInv
<1> QED
  BY <1>2, <1>4 DEF FileOf, AttribOf, MTimeOf

\* Every step keeps it.
LEMMA ExtractStep ==
  ASSUME TypeOK, ItemInv, ExtractInv, [Next]_vars
  PROVE  ExtractInv'
<1>1. ASSUME NEW r, Return(r) PROVE ExtractInv'
  BY <1>1, ExtractElsewhere DEF Return
<1>2. CASE pc # "extract" /\ ~OpenArchive
  <2>1. pc' # "extract"
    BY <1>2 DEF Next, Touch, Bring, Call, Load, Traverse, Traversed, Find,
       Create, OutObject,
       PackStream, Packed, GetFolder, GetStream, GetStreamFails, Decode, DecodeFails,
       Cancel, SetOperationResult, Extracted, Extracting, Return, vars
  <2> QED
    BY <2>1, ExtractElsewhere
<1>3. CASE OpenArchive
  <2>1. CASE /\ archive.whole /\ pc' = "extract" /\ item' = 1
             /\ UNCHANGED <<src, out, ret, pfn, packVars, epc, opResult, info, diskFile,
                            stream, NumErrors, refused, cancelled, historyVars>>
    <3>1. epc' = "between" /\ ~cancelled' /\ item' = 1
      BY <1>3, <2>1 DEF OpenArchive, ItemInv
    <3>2. \A i \in DOMAIN archive'.items : ~(i < item')
      BY <1>3, <2>1 DEF OpenArchive, TypeOK, DiskTypes
    <3> QED
      BY <3>1, <3>2 DEF ExtractInv
  <2> QED
    BY <1>1, <1>3, <2>1 DEF OpenArchive
<1>4. CASE GetFolder
  <2>1. /\ pc = "extract" /\ item <= Len(archive.items) /\ Current.isDir
        /\ Current.path \in File /\ epc = "between"
    BY <1>4, CurrentItem DEF GetFolder, Extracting
  <2>2. /\ UNCHANGED <<archive, item, NumErrors, refused, cancelled, pc>> /\ epc' = "open"
        /\ info' = InfoOf(Current)
    BY <1>4 DEF GetFolder, Goto
  <2>3. \A f \in File : f # Current.path => out'[f] = out[f]
    BY <1>4 DEF GetFolder, TypeOK, DiskTypes
  <2>4. Current' = Current
    BY <2>2 DEF Current
  <2>5. cancelled' => NumErrors' > 0
    BY <2>1, <2>2 DEF ExtractInv
  <2> QED
    BY <2>1, <2>2, <2>3, <2>4, <2>5, ExtractFrame DEF ExtractInv, InfoOf
<1>5. CASE GetStream
  <2>1. /\ pc = "extract" /\ item <= Len(archive.items) /\ Current.path \in File
        /\ epc = "between"
    BY <1>5, CurrentItem DEF GetStream, Extracting
  <2>2. /\ UNCHANGED <<archive, item, NumErrors, refused, cancelled, pc>> /\ epc' = "open"
        /\ info' = InfoOf(Current)
    BY <1>5 DEF GetStream, Goto
  <2>3. \A f \in File : f # Current.path => out'[f] = out[f]
    BY <1>5 DEF GetStream, TypeOK, DiskTypes
  <2>4. Current' = Current
    BY <2>2 DEF Current
  <2>5. cancelled' => NumErrors' > 0
    BY <2>1, <2>2 DEF ExtractInv
  <2>6. LET d == out'[Current.path]
        IN  d.kind = "file" /\ d.item = item /\ d.attrib = 0 /\ d.mtime = 0
    BY <1>5, <2>1 DEF GetStream, TypeOK, DiskTypes, Nothing
  <2> QED
    BY <2>1, <2>2, <2>3, <2>4, <2>5, <2>6, ExtractFrame DEF ExtractInv, InfoOf
<1>6. ASSUME NEW r \in {"kOK", "kDataError"}, Decode(r) PROVE ExtractInv'
  <2>1. /\ pc = "extract" /\ item <= Len(archive.items) /\ Current.path \in File
        /\ epc = "open" /\ stream = IF Current.isDir THEN None ELSE Current.path
    BY <1>6, CurrentItem DEF Decode, Extracting, TypeOK, ExtractTypes
  <2>2. /\ UNCHANGED <<archive, item, NumErrors, refused, cancelled, pc, info>> /\ epc' = "decoded"
        /\ opResult' = r
    BY <1>6 DEF Decode, Goto
  <2>3. \A f \in File : f # Current.path => out'[f] = out[f]
    BY <1>6, <2>1 DEF Decode, TypeOK, DiskTypes
  <2>4. Current' = Current
    BY <2>2 DEF Current
  <2>5. cancelled' => NumErrors' > 0
    BY <2>1, <2>2 DEF ExtractInv
  <2>6. ~Current.isDir => LET d == out'[Current.path]
                          IN  /\ d.kind = "file" /\ d.item = item /\ d.attrib = 0 /\ d.mtime = 0
                              /\ r = "kOK" => d.whole
    <3>1. ~Current.isDir => stream # None /\ out' = [out EXCEPT ![Current.path].whole = (r = "kOK")]
      BY <1>6, <2>1, TreeAssumption DEF Decode
    <3>2. out[Current.path] \in Disk /\ out \in [File -> Disk]
      BY <2>1 DEF TypeOK, DiskTypes
    <3>3. ~Current.isDir => out'[Current.path] = [out[Current.path] EXCEPT !.whole = (r = "kOK")]
      BY <2>1, <3>1, <3>2
    <3>4. ~Current.isDir => LET d == out[Current.path]
                            IN  d.kind = "file" /\ d.item = item /\ d.attrib = 0 /\ d.mtime = 0
      BY <2>1 DEF ExtractInv
    <3> QED
      BY <3>2, <3>3, <3>4 DEF Disk
  <2> QED
    BY <2>1, <2>2, <2>3, <2>4, <2>5, <2>6, ExtractFrame DEF ExtractInv, InfoOf
<1>7. CASE Cancel
  <2>1. CASE /\ Extracting("open") /\ stream # None
             /\ opResult' = "kDataError" /\ cancelled' = TRUE /\ Goto("decoded")
             /\ UNCHANGED <<src, out, item, info, diskFile, stream, NumErrors, refused>>
    <3>1. /\ pc = "extract" /\ item <= Len(archive.items) /\ epc = "open"
      BY <2>1 DEF Extracting
    <3>2. /\ UNCHANGED <<archive, item, NumErrors, refused, pc, info, out>> /\ epc' = "decoded"
          /\ opResult' = "kDataError"
      BY <1>7, <2>1 DEF Cancel, Goto
    <3>3. Current' = Current
      BY <3>2 DEF Current
    <3> QED
      BY <3>1, <3>2, <3>3, ExtractFrame DEF ExtractInv, InfoOf
  <2> QED
    BY <1>1, <1>7, <2>1 DEF Cancel
<1>8. CASE SetOperationResult
  <2>1. ASSUME NEW set \in SUBSET ToStamp, out' = Stamped(set),
               refused' = refused \cup ((ToStamp \ set) \X {item}),
               NumErrors' = ErrorCount, stream' = StreamReleased, item' = item + 1,
               Goto("between"), UNCHANGED <<src, opResult, info, diskFile, cancelled>>
        PROVE  ExtractInv'
    <3>1. /\ pc = "extract" /\ epc = "decoded" /\ item <= Len(archive.items)
          /\ item \in DOMAIN archive.items /\ Current \in Item /\ Current.path \in File
          /\ diskFile = Current.path /\ archive' = archive /\ pc' = pc /\ epc' = "between"
          /\ stream = IF Current.isDir THEN None ELSE Current.path
      BY <1>8, <2>1, CurrentItem DEF SetOperationResult, Extracting, Goto,
         TypeOK, ExtractTypes
    <3>2. /\ archive.items \in Seq(Item) /\ item \in Nat /\ NumErrors \in Nat
          /\ DOMAIN archive.items \subseteq Nat /\ out \in [File -> Disk]
      BY <3>1 DEF TypeOK, DiskTypes, ExtractTypes
    <3>3. /\ NumErrors' \in Nat /\ NumErrors' >= NumErrors
          /\ NumErrors' = 0 => NumErrors = 0 /\ opResult = "kOK"
          /\ opResult # "kOK" => NumErrors' > 0
      BY <2>1, <3>2 DEF ErrorCount
    <3>4. \A f \in File : f # Current.path => out'[f] = out[f]
      BY <2>1, <3>1, <3>2 DEF Stamped
    <3>5. ASSUME NEW i \in DOMAIN archive.items, i < item', ~archive.items[i].isDir,
                 LastReached(i)'
          PROVE  FileOf(i)'
      <4>1. i <= item
        BY <2>1, <3>2, <3>5
      <4>2. Reached = item /\ Reached' = item
        BY <2>1, <3>1, <3>2 DEF Reached
      <4>3. LastReached(i)
        BY <3>1, <3>5, <4>2 DEF LastReached
      <4>4. CASE i = item
        <5>1. ~Current.isDir /\ Current = archive.items[i]
          BY <3>5, <4>4 DEF Current
        <5>2. LET d == out[Current.path]
              IN  /\ d.kind = "file" /\ d.item = item /\ d.attrib = 0 /\ d.mtime = 0
                  /\ opResult = "kOK" => d.whole
          BY <3>1, <5>1 DEF ExtractInv
        <5>3. info.attrib = Current.attrib /\ info.mtime = Current.mtime /\ stream # None
          BY <3>1, <5>1, TreeAssumption DEF ExtractInv, InfoOf
        <5>4. LET d == out'[Current.path]
              IN  /\ d.kind = "file" /\ d.item = item /\ d.whole = out[Current.path].whole
                  /\ d.attrib = IF "attrib" \in set THEN Current.attrib ELSE 0
                  /\ d.mtime = IF "mtime" \in set THEN Current.mtime ELSE 0
          BY <2>1, <3>1, <3>2, <5>2, <5>3 DEF Stamped, Disk, Item
        <5>5. ASSUME NEW x \in {"attrib", "mtime"}
              PROVE  <<x, item>> \in refused' <=> x \in ToStamp \ set
          <6>1. <<x, item>> \notin refused
            BY <3>2 DEF TypeOK, ExtractTypes
          <6> QED
            BY <2>1, <6>1
        <5>6. /\ "attrib" \in ToStamp <=> Current.attrib # 0
              /\ "mtime" \in ToStamp <=> Current.mtime # 0
          BY <5>3 DEF ToStamp
        <5>7. AttribOf(i)' = out'[Current.path].attrib /\ MTimeOf(i)' = out'[Current.path].mtime
          BY <3>1, <4>4, <5>1, <5>4, <5>5, <5>6 DEF AttribOf, MTimeOf
        <5> QED
          BY <3>1, <3>3, <4>4, <5>1, <5>2, <5>4, <5>7 DEF FileOf
      <4>5. CASE i < item
        <5>1. FileOf(i)
          BY <3>1, <3>5, <4>3, <4>5 DEF ExtractInv
        <5>2. archive.items[i].path # Current.path
          BY <3>1, <3>2, <4>2, <4>3, <4>5 DEF LastReached, Current
        <5>3. archive.items[i].path \in File
          <6>1. archive.items[i] \in Item
            BY <3>2, <3>5
          <6> QED
            BY <6>1 DEF Item
        <5>4. AttribOf(i)' = AttribOf(i) /\ MTimeOf(i)' = MTimeOf(i)
          BY <2>1, <3>1, <3>2, <3>5, <4>5 DEF AttribOf, MTimeOf
        <5> QED
          BY <3>1, <3>3, <3>4, <5>1, <5>2, <5>3, <5>4 DEF FileOf
      <4> QED
        BY <3>2, <4>1, <4>4, <4>5
    <3>6. cancelled' => NumErrors' > 0
      BY <2>1, <3>1, <3>2, <3>3 DEF ExtractInv
    <3> QED
      BY <3>1, <3>5, <3>6 DEF ExtractInv
  <2> QED
    BY <1>1, <1>8, <2>1 DEF SetOperationResult
<1>9. CASE GetStreamFails \/ DecodeFails \/ Extracted
  BY <1>1, <1>9 DEF GetStreamFails, DecodeFails, Extracted
<1>10. CASE UNCHANGED vars
  BY <1>10 DEF vars, ExtractInv, LastReached, Reached, FileOf, AttribOf, MTimeOf, Current, InfoOf
<1>11. CASE pc = "extract"
  BY <1>3, <1>4, <1>5, <1>6, <1>7, <1>8, <1>9, <1>10, <1>11 DEF Next, Touch,
     Bring, Call, Load,
     Traverse, Traversed, Find, Create, OutObject, PackStream, Packed
<1> QED
  BY <1>2, <1>3, <1>11

\* The order of the natural numbers as a relation.
NatLess == OpToRel(<, Nat)

\* A set of natural numbers with a member and a bound has a greatest one.
LEMMA Greatest ==
  ASSUME NEW n \in Nat, NEW T \in SUBSET (0 .. n), T # {}
  PROVE  \E x \in T : \A y \in T : y <= x
<1> DEFINE U == {n - x : x \in T}
<1>1. U \subseteq Nat /\ U # {}
  <2>1. \A x \in T : x \in Nat /\ n - x \in Nat
    OBVIOUS
  <2> QED
    BY <2>1
<1>2. IsWellFoundedOn(NatLess, Nat)
  BY NatLessThanWellFounded DEF NatLess
<1>3. \A x, y \in Nat : x < y => <<x, y>> \in NatLess
  BY DEF OpToRel, NatLess
<1> HIDE DEF U
<1>4. PICK u \in U : \A y \in U : ~(<<y, u>> \in NatLess)
  BY <1>1, <1>2, WFMin
<1>5. \A y \in U : ~(y < u)
  BY <1>1, <1>3, <1>4
<1>6. PICK x \in T : u = n - x
  BY <1>4 DEF U
<1>7. ASSUME NEW y \in T PROVE y <= x
  BY <1>5, <1>6, <1>7 DEF U
<1> QED
  BY <1>7

\* The last item with a path is one of its items, and no later one is.
LEMMA LastIsLast ==
  ASSUME archive.items \in Seq(Item), NEW f \in PathsOf(archive)
  PROVE  /\ Last(f) \in DOMAIN archive.items /\ archive.items[Last(f)].path = f
         /\ \A j \in DOMAIN archive.items : archive.items[j].path = f => j <= Last(f)
<1> DEFINE T == {i \in DOMAIN archive.items : archive.items[i].path = f}
<1>1. T # {} /\ T \in SUBSET (0 .. Len(archive.items)) /\ Len(archive.items) \in Nat
  BY DEF PathsOf
<1>2. \E x \in T : \A y \in T : y <= x
  BY <1>1, Greatest
<1> QED
  BY <1>2 DEF Last

\* When UnCompress answers no error, the files are there.
LEMMA ExtractedStep ==
  ASSUME TypeOK, ItemInv, ExtractInv, [Next]_vars,
         pc = "extract", pc' = "idle", ret' \in {"OK", "EXPARAM_WARN"}
  PROVE  /\ NumErrors = 0 => ~cancelled
         /\ \A f \in PathsOf(archive) :
               LET i == Last(f)
               IN  archive.items[i].isDir \/
                   /\ out[f].kind = "file" /\ out[f].item = i
                   /\ out[f].attrib = AttribOf(i) /\ out[f].mtime = MTimeOf(i)
                   /\ NumErrors = 0 => out[f].whole
<1>1. item > Len(archive.items)
  BY DEF Next, Touch, Bring, Call, Load, Traverse, Traversed, Find, Create,
     OutObject,
     PackStream, Packed, OpenArchive, GetFolder, GetStream, GetStreamFails, Decode,
     DecodeFails, Cancel, SetOperationResult, Extracted, Goto, Return, vars
<1>2. archive.items \in Seq(Item) /\ item \in Nat /\ NumErrors \in Nat
  BY DEF TypeOK, DiskTypes, ExtractTypes
<1>3. epc = "between" /\ Reached = item - 1 /\ item = Len(archive.items) + 1
  BY <1>1, <1>2 DEF ItemInv, Reached
<1>4. NumErrors = 0 => ~cancelled
  BY <1>2, <1>3 DEF ExtractInv
<1>5. ASSUME NEW f \in PathsOf(archive), ~archive.items[Last(f)].isDir PROVE FileOf(Last(f))
  <2>1. /\ Last(f) \in DOMAIN archive.items /\ archive.items[Last(f)].path = f
        /\ \A j \in DOMAIN archive.items : archive.items[j].path = f => j <= Last(f)
    BY <1>2, LastIsLast
  <2>2. Last(f) < item
    BY <1>2, <1>3, <2>1
  <2>3. LastReached(Last(f))
    BY <2>1 DEF LastReached
  <2> QED
    BY <1>5, <2>1, <2>2, <2>3 DEF ExtractInv
<1>6. \A f \in PathsOf(archive) : archive.items[Last(f)].path = f
  BY <1>2, LastIsLast
<1> QED
  BY <1>4, <1>5, <1>6 DEF FileOf

\* What UnCompress leaves behind when it answers no error, for any archive:
\* the last item of every path, complete if no error was counted, with the
\* attributes and the time of this item but for those that Windows refused to
\* set.
THEOREM ExtractedFilesAreRight == Spec => ExtractedRight
<1>1. Init => TypeOK /\ ItemInv /\ ExtractInv
  <2>1. Init => ExtractInv
    BY DEF Init, ExtractInv
  <2> QED
    BY <2>1, InitialTypes
<1>2. TypeOK /\ ItemInv /\ ExtractInv /\ [Next]_vars => (TypeOK /\ ItemInv /\ ExtractInv)'
  BY TypeStep, ExtractStep
<1>3. TypeOK /\ ItemInv /\ ExtractInv /\ [Next]_vars
        => [pc = "extract" /\ pc' = "idle" /\ ret' \in {"OK", "EXPARAM_WARN"} =>
              /\ NumErrors = 0 => ~cancelled
              /\ \A f \in PathsOf(archive) :
                    LET i == Last(f)
                    IN  archive.items[i].isDir \/
                        /\ out[f].kind = "file" /\ out[f].item = i
                        /\ out[f].attrib = AttribOf(i) /\ out[f].mtime = MTimeOf(i)
                        /\ NumErrors = 0 => out[f].whole]_vars
  BY ExtractedStep
<1> QED
  BY <1>1, <1>2, <1>3, PTL DEF Spec, ExtractedRight

-----------------------------------------------------------------------------
(* What Compress packs. *)

\* The files that are found, or packed, or known to have failed.
Found == vecFilelist \cup dirItems \cup FailedFiles
         \cup (IF pc = "update" THEN PathsOf(archive) ELSE {})

\* V has the root and the folders that TraverseFloder has yet to list; of a
\* folder of V that was listed to its end it has the folders, and every file
\* that nobody has touched is found, but for the entry passed over.
Covers(V) ==
    /\ Root \in V /\ pending \subseteq V
    /\ \A d \in V \ (pending \cup unlisted) :
          /\ FoldersOf(d) \ {first} \subseteq V
          /\ \A f \in same \ {first} : Parent[f] = d /\ src[f] # "absent" => f \in Found

\* From the listing on there is such a set; the folders are listed before the
\* files are looked up; and an entry is passed over when the root is listed,
\* once.
FoundInv ==
    /\ pc \in {"traverse", "find", "object", "update"} => \E V \in SUBSET Folder : Covers(V)
    /\ pc \in {"find", "object", "update"} => pending = {}
    /\ pc \in {"object", "update"} => vecFilelist = {}
    /\ pc = "object" => archive.items = <<>>
    /\ first # None => pc \in {"traverse", "find", "object", "update"} /\ Root \notin pending

\* A step that forgets no file that was found, lists no folder and lets no
\* file appear that counts as untouched.
LEMMA CoversFrame ==
  ASSUME NEW V, Covers(V), UNCHANGED <<pending, unlisted, first>>, Found \subseteq Found',
         same' \subseteq same, \A f \in same' : src'[f] = src[f]
  PROVE  Covers(V)'
BY DEF Covers, FoldersOf

\* A folder that has been listed, to its end or not, and what was found in it.
LEMMA CoversMore ==
  ASSUME NEW V \in SUBSET Folder, Covers(V), NEW d \in Folder,
         NEW fs \in SUBSET FilesOf(d), NEW es \in SUBSET FoldersOf(d),
         pc = "traverse", same \subseteq File,
         vecFilelist' = vecFilelist \cup fs, pending' = (pending \ {d}) \cup es,
         first \in {first', None},
         \/ unlisted' = unlisted \cup {d}
         \/ /\ unlisted' = unlisted
            /\ FilesOf(d) \ {first'} \subseteq fs /\ FoldersOf(d) \ {first'} \subseteq es,
         UNCHANGED <<dirItems, FailedFiles, pc, same, src>>
  PROVE  Covers(V \cup es)' /\ V \cup es \in SUBSET Folder
<1>1. Found' = Found \cup fs
  BY DEF Found
<1>2. es \subseteq Folder
  BY DEF FoldersOf
<1>3. ASSUME NEW e \in (V \cup es) \ (pending' \cup unlisted')
      PROVE  /\ FoldersOf(e) \ {first'} \subseteq V \cup es
             /\ \A f \in same' \ {first'} :
                   Parent[f] = e /\ src'[f] # "absent" => f \in Found'
  <2>1. CASE e = d
    BY <1>1, <1>3, <2>1 DEF FilesOf
  <2>2. CASE e # d
    <3>1. e \in V \ (pending \cup unlisted)
      BY <1>3, <2>2
    <3>2. FoldersOf(e) \ {first'} \subseteq FoldersOf(e) \ {first}
      BY TreeAssumption DEF FoldersOf
    <3>3. same' \ {first'} \subseteq same \ {first}
      BY TreeAssumption
    <3> QED
      BY <1>1, <3>1, <3>2, <3>3 DEF Covers
  <2> QED
    BY <2>1, <2>2
<1>4. Root \in V \cup es /\ pending' \subseteq V \cup es
  BY DEF Covers
<1> QED
  BY <1>2, <1>3, <1>4 DEF Covers, FoldersOf

\* The paths of an archive to the end of which an item is added.
LEMMA AddedItem ==
  ASSUME NEW s \in Seq(Item), NEW x \in Item
  PROVE  LET t == Append(s, x)
         IN  {t[i].path : i \in DOMAIN t} = {s[i].path : i \in DOMAIN s} \cup {x.path}
<1> DEFINE t == Append(s, x)
<1>1. /\ Len(s) \in Nat /\ DOMAIN s = 1 .. Len(s) /\ DOMAIN t = 1 .. Len(s) + 1
      /\ t[Len(s) + 1] = x /\ \A i \in 1 .. Len(s) : t[i] = s[i]
  OBVIOUS
<1>2. \A i \in 1 .. Len(s) + 1 : i \in 1 .. Len(s) \/ i = Len(s) + 1
  BY <1>1
<1> HIDE DEF t
<1>3. {t[i].path : i \in DOMAIN t} = {s[i].path : i \in DOMAIN s} \cup {x.path}
  BY <1>1, <1>2
<1> QED
  BY <1>3 DEF t

\* Every step keeps what is known of the files found.
LEMMA FoundStep ==
  ASSUME TypeOK, FoundInv, [Next]_vars
  PROVE  FoundInv'
<1>1. ASSUME pc' \notin {"traverse", "find", "object", "update"}, first' = None PROVE FoundInv'
  BY <1>1 DEF FoundInv
<1>2. ASSUME NEW r, Return(r) PROVE FoundInv'
  BY <1>1, <1>2 DEF Return
<1>3. ASSUME NEW f \in File, Touch(f) PROVE FoundInv'
  <2>1. PICK V \in SUBSET Folder : Covers(V)
    BY <1>3 DEF Touch, FoundInv
  <2>2. Found' = Found
    BY <1>3 DEF Touch, Found, PathsOf
  <2>3. \A g \in same' : src'[g] = src[g]
    BY <1>3 DEF Touch, TypeOK, DiskTypes, PackTypes
  <2>4. Covers(V)'
    BY <1>3, <2>1, <2>2, <2>3, CoversFrame DEF Touch
  <2> QED
    BY <1>3, <2>4 DEF Touch, FoundInv, PathsOf
<1>4. ASSUME NEW a \in Archives, Bring(a) PROVE FoundInv'
  BY <1>1, <1>4 DEF Bring, FoundInv
<1>5. ASSUME NEW op \in {"Compress", "UnCompress"}, NEW cb \in BOOLEAN, Call(op, cb)
      PROVE  FoundInv'
  BY <1>1, <1>5 DEF Call, FoundInv
<1>6. CASE Load("Compress", "traverse") \/ Load("UnCompress", "open")
  <2>1. first = None
    BY <1>6 DEF Load, FoundInv
  <2>2. CASE pc' = "traverse" /\ pending' = {Root} /\ UNCHANGED <<archive, first>>
    <3>1. Covers({Root})'
      BY <2>2 DEF Covers
    <3> QED
      BY <2>1, <2>2, <3>1, TreeAssumption DEF FoundInv
  <2> QED
    BY <1>1, <1>2, <1>6, <2>1, <2>2 DEF Load
<1>7. ASSUME NEW d \in Folder, Traverse(d) PROVE FoundInv'
  <2>1. PICK V \in SUBSET Folder : Covers(V)
    BY <1>7 DEF Traverse, FoundInv
  <2>2. ASSUME NEW fs \in SUBSET FilesOf(d), NEW es \in SUBSET FoldersOf(d),
               vecFilelist' = vecFilelist \cup fs, pending' = (pending \ {d}) \cup es,
               first \in {first', None}, first' = first \/ d = Root,
               \/ unlisted' = unlisted \cup {d}
               \/ /\ unlisted' = unlisted
                  /\ FilesOf(d) \ {first'} \subseteq fs /\ FoldersOf(d) \ {first'} \subseteq es,
               UNCHANGED <<diskVars, callVars, dirItems, FailedFiles, extractVars, same, before>>
        PROVE  FoundInv'
    <3>1. pc = "traverse" /\ pc' = "traverse" /\ same \subseteq File
      BY <1>7, <2>2 DEF Traverse, TypeOK, PackTypes
    <3>2. Covers(V \cup es)' /\ V \cup es \in SUBSET Folder
      BY <2>1, <2>2, <3>1, CoversMore
    <3>3. Root \in pending' => Root \in pending /\ d # Root
      BY <2>2 DEF FoldersOf
    <3> QED
      BY <2>2, <3>1, <3>2, <3>3 DEF FoundInv
  <2>3. ASSUME NEW e \in Firsts(d), vecFilelist' = vecFilelist \cup (FilesOf(d) \ {e}),
               pending' = (pending \ {d}) \cup (FoldersOf(d) \ {e}),
               first' = (IF d = Root THEN e ELSE first),
               UNCHANGED <<diskVars, unlisted, callVars, dirItems, FailedFiles,
                           extractVars, same, before>>
        PROVE  FoundInv'
    <3>1. first \in {first', None}
      BY <1>7, <2>3 DEF Traverse, FoundInv
    <3>2. /\ FilesOf(d) \ {first'} \subseteq FilesOf(d) \ {e}
          /\ FoldersOf(d) \ {first'} \subseteq FoldersOf(d) \ {e}
      BY <2>3, TreeAssumption DEF Firsts, FilesOf, FoldersOf
    <3> QED
      BY <2>2, <2>3, <3>1, <3>2
  <2>4. CASE /\ \E fs \in SUBSET FilesOf(d), es \in SUBSET FoldersOf(d) :
                  /\ vecFilelist' = vecFilelist \cup fs
                  /\ pending' = (pending \ {d}) \cup es
             /\ unlisted' = unlisted \cup {d}
             /\ UNCHANGED <<diskVars, callVars, dirItems, FailedFiles, extractVars,
                            same, first, before>>
    BY <2>2, <2>4
  <2> QED
    BY <1>2, <1>7, <2>3, <2>4 DEF Traverse
<1>8. CASE Traversed
  <2>1. PICK V \in SUBSET Folder : Covers(V)
    BY <1>8 DEF Traversed, FoundInv
  <2>2. Covers(V)'
    BY <1>8, <2>1, CoversFrame DEF Traversed, Found
  <2> QED
    BY <1>8, <2>2 DEF Traversed, FoundInv
<1>9. ASSUME NEW f \in File, Find(f) PROVE FoundInv'
  <2>1. CASE /\ dirItems' = dirItems \cup {f} /\ vecFilelist' = vecFilelist \ {f}
             /\ UNCHANGED <<diskVars, callVars, pending, FailedFiles, extractVars, historyVars>>
    <3>1. PICK V \in SUBSET Folder : Covers(V)
      BY <1>9 DEF Find, FoundInv
    <3>2. pc = "find" /\ pc' = "find" /\ Found \subseteq Found'
      BY <1>9, <2>1 DEF Find, Found
    <3>3. Covers(V)'
      BY <2>1, <3>1, <3>2, CoversFrame
    <3> QED
      BY <2>1, <3>2, <3>3 DEF FoundInv
  <2> QED
    BY <1>2, <1>9, <2>1 DEF Find
<1>10. CASE Create
  <2>1. CASE /\ archive' = NoArchive /\ pc' = "object"
             /\ UNCHANGED <<src, out, ret, pfn, packVars, extractVars, historyVars>>
    <3>1. PICK V \in SUBSET Folder : Covers(V)
      BY <1>10 DEF Create, FoundInv
    <3>2. pc = "find" /\ vecFilelist = {} /\ Found \subseteq Found'
      BY <1>10, <2>1 DEF Create, Found
    <3>3. Covers(V)'
      BY <2>1, <3>1, <3>2, CoversFrame
    <3> QED
      BY <2>1, <3>2, <3>3 DEF FoundInv, NoArchive
  <2> QED
    BY <1>2, <1>10, <2>1 DEF Create
<1>11. CASE OutObject
  <2>1. CASE /\ pc' = "update"
             /\ UNCHANGED <<diskVars, ret, pfn, packVars, extractVars, historyVars>>
    <3>1. PICK V \in SUBSET Folder : Covers(V)
      BY <1>11 DEF OutObject, FoundInv
    <3>2. pc = "object" /\ Found \subseteq Found'
      BY <1>11, <2>1 DEF OutObject, Found
    <3>3. Covers(V)'
      BY <2>1, <3>1, <3>2, CoversFrame
    <3> QED
      BY <2>1, <3>2, <3>3 DEF FoundInv
  <2> QED
    BY <1>2, <1>11, <2>1 DEF OutObject
<1>12. ASSUME NEW f \in File, PackStream(f) PROVE FoundInv'
  <2>1. /\ pc = "update" /\ pc' = "update" /\ f \in dirItems /\ dirItems' = dirItems \ {f}
        /\ UNCHANGED <<src, pending, vecFilelist, same, unlisted, first>>
    BY <1>12 DEF PackStream
  <2>2. PICK V \in SUBSET Folder : Covers(V)
    BY <2>1 DEF FoundInv
  <2>3. /\ FailedFiles \subseteq FailedFiles' /\ f \in FailedFiles' \cup PathsOf(archive)'
        /\ PathsOf(archive) \subseteq PathsOf(archive)'
    <3>1. CASE src[f] # "plain" /\ NoteFailed(f) /\ UNCHANGED archive
      BY <3>1 DEF NoteFailed, PathsOf
    <3>2. ASSUME NEW x \in Item, x.path = f, archive' = [archive EXCEPT !.items = Append(@, x)]
          PROVE  PathsOf(archive)' = PathsOf(archive) \cup {f}
      <4>1. archive'.items = Append(archive.items, x) /\ archive.items \in Seq(Item)
        BY <3>2 DEF TypeOK, DiskTypes
      <4> QED
        BY <3>2, <4>1, AddedItem DEF PathsOf
    <3>3. CASE /\ archive' = [archive EXCEPT !.items = Append(@,
                      [path |-> f, isDir |-> FALSE, attrib |-> 1, mtime |-> 1])]
               /\ UNCHANGED FailedFiles
      <4>1. [path |-> f, isDir |-> FALSE, attrib |-> 1, mtime |-> 1] \in Item
        BY DEF Item, Stamp
      <4> QED
        BY <3>2, <3>3, <4>1
    <3> QED
      BY <1>12, <3>1, <3>3 DEF PackStream
  <2>4. Found \subseteq Found'
    BY <2>1, <2>3 DEF Found
  <2>5. Covers(V)'
    BY <2>1, <2>2, <2>4, CoversFrame
  <2> QED
    BY <2>1, <2>5 DEF FoundInv
<1>13. CASE Packed
  BY <1>2, <1>13 DEF Packed
<1>14. CASE \/ OpenArchive \/ GetFolder \/ GetStream \/ GetStreamFails
            \/ \E r \in {"kOK", "kDataError"} : Decode(r)
            \/ DecodeFails \/ Cancel \/ SetOperationResult \/ Extracted
  <2>1. pc' \in {"idle", "extract"} /\ first' = None
    BY <1>14 DEF OpenArchive, GetFolder, GetStream, GetStreamFails, Decode, DecodeFails,
       Cancel, SetOperationResult, Extracted, Extracting, Goto, Return, FoundInv
  <2> QED
    BY <1>1, <2>1
<1>15. CASE UNCHANGED vars
  <2>1. \A V : Covers(V)' <=> Covers(V)
    BY <1>15 DEF vars, Covers, FoldersOf, Found, PathsOf
  <2> QED
    BY <1>15, <2>1 DEF vars, FoundInv, PathsOf
<1> QED
  BY <1>3, <1>4, <1>5, <1>6, <1>7, <1>8, <1>9, <1>10, <1>11, <1>12, <1>13, <1>14, <1>15
     DEF Next

\* What Listed is defined by.
UpEquation(g) ==
    g = [e \in Folder |->
            e \notin unlisted \cup Svn \cup {first} /\ (e = Root \/ g[Parent[e]])]

\* The equation has a solution: that a folder and all on its way to the root
\* are in a set of folders that were listed to their end, and not passed over.
LEMMA UpExists == \E g : UpEquation(g)
<1> USE TreeAssumption
<1> DEFINE Way(S) == \A x \in S : /\ x \notin unlisted \cup Svn \cup {first}
                                  /\ x = Root \/ Parent[x] \in S
           g == [e \in Folder |-> \E S \in SUBSET Folder : e \in S /\ Way(S)]
<1>1. ASSUME NEW e \in Folder
      PROVE  g[e] <=> e \notin unlisted \cup Svn \cup {first} /\ (e = Root \/ g[Parent[e]])
  <2>1. e # Root => Parent[e] \in Folder
    OBVIOUS
  <2>2. ASSUME g[e] PROVE e \notin unlisted \cup Svn \cup {first} /\ (e = Root \/ g[Parent[e]])
    <3>1. PICK S \in SUBSET Folder : e \in S /\ Way(S)
      BY <2>2
    <3> QED
      BY <2>1, <3>1
  <2>3. ASSUME e \notin unlisted \cup Svn \cup {first}, e = Root PROVE g[e]
    <3>1. {e} \in SUBSET Folder /\ e \in {e} /\ Way({e})
      BY <2>3
    <3> QED
      BY <3>1
  <2>4. ASSUME e \notin unlisted \cup Svn \cup {first}, e # Root, g[Parent[e]] PROVE g[e]
    <3>1. PICK S \in SUBSET Folder : Parent[e] \in S /\ Way(S)
      BY <2>1, <2>4
    <3>2. S \cup {e} \in SUBSET Folder /\ e \in S \cup {e} /\ Way(S \cup {e})
      BY <2>4, <3>1
    <3> QED
      BY <3>2
  <2> QED
    BY <2>2, <2>3, <2>4
<1>2. g = [e \in Folder |-> g[e]] /\ \A e \in Folder : g[e] \in BOOLEAN
  OBVIOUS
<1> HIDE DEF g
<1>3. UpEquation(g)
  BY <1>1, <1>2 DEF UpEquation
<1> QED
  BY <1>3

\* A folder of Listed was listed to its end, as was that above it.
LEMMA ListedIsClosed ==
  ASSUME NEW d \in Listed
  PROVE  d \in Folder \ (unlisted \cup Svn \cup {first}) /\ (d = Root \/ Parent[d] \in Listed)
<1> USE TreeAssumption
<1> DEFINE up == CHOOSE g : UpEquation(g)
<1>1. Listed = {e \in Folder : up[e]}
  BY DEF Listed, UpEquation
<1>2. UpEquation(up)
  BY UpExists
<1> HIDE DEF up
<1>3. d \in Folder /\ up[d]
  BY <1>1
<1>4. d \notin unlisted \cup Svn \cup {first} /\ (d = Root \/ up[Parent[d]])
  BY <1>2, <1>3 DEF UpEquation
<1> QED
  BY <1>1, <1>3, <1>4

\* When the listing has come to its end, every such folder was listed: else
\* there would be folders none of which is below another folder.
LEMMA ListedIsCovered ==
  ASSUME NEW V \in SUBSET Folder, Covers(V), pending = {}
  PROVE  Listed \subseteq V
<1> DEFINE T == Listed \ V
<1> SUFFICES ASSUME T # {} PROVE FALSE
  OBVIOUS
<1>1. T \in SUBSET (Folder \ {Root})
  BY ListedIsClosed DEF Covers
<1>2. PICK e \in T : Parent[e] \notin T
  BY <1>1, TreeAssumption
<1>3. /\ e \in Folder \ (unlisted \cup Svn \cup {first}) /\ e # Root
      /\ Parent[e] \in Listed /\ Parent[e] \in V
  BY <1>1, <1>2, ListedIsClosed
<1>4. Parent[e] \notin unlisted
  BY <1>3, ListedIsClosed
<1>5. e \in FoldersOf(Parent[e])
  BY <1>3 DEF FoldersOf
<1>6. e \in V
  BY <1>3, <1>4, <1>5 DEF Covers
<1> QED
  BY <1>2, <1>6

\* When Compress answers ERROR_OK, the archive has what it should.
LEMMA CompressedStep ==
  ASSUME TypeOK, FoundInv, [Next]_vars, pc = "update", pc' = "idle", ret' = "OK"
  PROVE  /\ archive'.whole
         /\ \A f \in same \ {first} : src[f] # "absent" /\ Parent[f] \in Listed =>
               f \in PathsOf(archive')
<1>1. dirItems = {} /\ FailedFiles = {} /\ archive' = [archive EXCEPT !.whole = TRUE]
  BY DEF Next, Touch, Bring, Call, Load, Traverse, Traversed, Find, Create, OutObject,
     PackStream, Packed, OpenArchive, GetFolder, GetStream, GetStreamFails, Decode,
     DecodeFails, Cancel, SetOperationResult, Extracted, Extracting, Goto, Return, vars
<1>2. archive'.whole /\ archive'.items = archive.items /\ archive.items \in Seq(Item)
  BY <1>1 DEF TypeOK, DiskTypes
<1>3. PICK V \in SUBSET Folder : Covers(V)
  BY DEF FoundInv
<1>4. Listed \subseteq V
  BY <1>3, ListedIsCovered DEF FoundInv
<1>5. PathsOf(archive') = Found
  BY <1>1, <1>2 DEF Found, PathsOf, FoundInv
<1>6. ASSUME NEW f \in same \ {first}, src[f] # "absent", Parent[f] \in Listed
      PROVE  f \in PathsOf(archive')
  <2>1. Parent[f] \in V \ (pending \cup unlisted)
    BY <1>4, <1>6, ListedIsClosed DEF FoundInv
  <2> QED
    BY <1>3, <1>5, <1>6, <2>1 DEF Covers
<1> QED
  BY <1>2, <1>6

\* When Compress answers ERROR_OK, the finished archive has every file that was
\* there all the time and could be listed, but for the first entry of the root of
\* a drive, whatever the tree and whatever other programs do.
THEOREM CompressedFilesAreAll == Spec => CompressedAll
<1>1. Init => TypeOK /\ ItemInv /\ FoundInv
  <2>1. Init => FoundInv
    BY DEF Init, FoundInv
  <2> QED
    BY <2>1, InitialTypes
<1>2. TypeOK /\ ItemInv /\ FoundInv /\ [Next]_vars => (TypeOK /\ ItemInv /\ FoundInv)'
  BY TypeStep, FoundStep
<1>3. TypeOK /\ ItemInv /\ FoundInv /\ [Next]_vars
        => [pc = "update" /\ pc' = "idle" /\ ret' = "OK" =>
              /\ archive'.whole
              /\ \A f \in same \ {first} : src[f] # "absent" /\ Parent[f] \in Listed =>
                    f \in PathsOf(archive')]_vars
  BY CompressedStep
<1> QED
  BY <1>1, <1>2, <1>3, PTL DEF Spec, CompressedAll
=============================================================================
