------------------------------ MODULE ZipTools ------------------------------
(***************************************************************************)
(* CZipTools (ZipTools.h, ZipTool.cpp): Compress packs the files below a   *)
(* folder with minizip, UnCompress unpacks an archive.  Both go from one   *)
(* call of the file system or of minizip to the next, and few results are  *)
(* looked at.  Other programs work in the same folders.                    *)
(***************************************************************************)
EXTENDS Naturals

CONSTANTS
    File,    \* the files, by their path in the folder and in the archive
    Depth,   \* the folders on the way to where files are written
    None     \* no file

ASSUME DepthAssumption == Depth \in Nat \ {0, 1} /\ None \notin File

VARIABLES
    src,      \* below the folder of Compress, each file: absent, plain, locked
    zip,      \* the archive on disk, and what is in it
    dirs,     \* how many folders on the way there are
    out,      \* in the target folder of UnCompress, each file
    pc, ret,  \* the call: control and result
    iFlag,    \* the option for what exists
    upto,     \* the folders that CreatedMultipleDirectory is to make
    level,    \* the one it is at
    bSuccess, \* its result
    back,     \* where it was called from
    vctFileList, \* Compress: the files found; UnCompress: those in the archive
    todo,     \* those of them that are still to come
    cur,      \* the one UnCompress is at
    zFp,      \* the handle of the archive: none, open, null, closed
    fault,    \* undefined behaviour, or an exception nobody catches
    same,     \* history: files nobody else has touched during the call, or
              \* since UnCompress has looked at them
    missed,   \* history: files in folders that could not be listed
    owed,     \* history: the files that the archive on disk was made for
    lost,     \* history: those of them whose entry minizip could not finish
    ignored,  \* history: it could not be deleted, and nobody looked
    asked     \* history: the option that the call was given

diskVars == <<src, zip, dirs, out>>
dirVars == <<upto, level, bSuccess, back>>
listVars == <<vctFileList, todo, cur, zFp>>
historyVars == <<same, missed, owed, lost, ignored, asked>>
vars == <<diskVars, pc, ret, iFlag, dirVars, listVars, fault, historyVars>>

NoZip == [is |-> "none", items |-> {}]
DstLevel == Depth - 1     \* strDstDir of UnCompress
ItemLevel == Depth        \* the folder of its items, and that of the archive

-----------------------------------------------------------------------------
Init ==
    /\ src = [f \in File |-> "absent"] /\ zip = NoZip
    /\ dirs \in 0 .. Depth /\ out = [f \in File |-> "absent"]
    /\ pc = "idle" /\ ret = "none" /\ iFlag = "REPLACE"
    /\ upto = 0 /\ level = 1 /\ bSuccess = FALSE /\ back = "none"
    /\ vctFileList = {} /\ todo = {} /\ cur = None /\ zFp = "none"
    /\ fault = "none" /\ same = {} /\ missed = {}
    /\ owed = {} /\ lost = {} /\ ignored = FALSE /\ asked = "REPLACE"

Packing == pc \in {"traverse", "existing", "folder", "open", "file"}
Unpacking == pc \in {"dst", "unzOpen", "entry", "target", "write"}
Running == fault = "none"

\* An archive that is open for writing or reading cannot be replaced.
InUse ==
    \/ zFp = "open" \/ pc \in {"entry", "target", "write"}
    \/ pc = "mkdir" /\ back = "target"

\* Others make, delete, lock and release files that are to be packed ...
Touch(f) ==
    /\ Running /\ Packing
    /\ \E v \in {"absent", "plain", "locked"} \ {src[f]} : src' = [src EXCEPT ![f] = v]
    /\ same' = same \ {f}
    /\ UNCHANGED <<zip, dirs, out, pc, ret, iFlag, dirVars, listVars, fault,
                   missed, owed, lost, ignored, asked>>

\* ... make and delete files where files are unpacked ...
TouchOut(f) ==
    /\ Running /\ Unpacking /\ dirs >= ItemLevel
    /\ \E v \in {"absent", "old"} \ {out[f]} : out' = [out EXCEPT ![f] = v]
    /\ same' = same \ {f}
    /\ UNCHANGED <<src, zip, dirs, pc, ret, iFlag, dirVars, listVars, fault,
                   missed, owed, lost, ignored, asked>>

\* ... make and delete the folders on the way, as long as these are empty ...
TouchDirs ==
    /\ Running
    /\ \/ dirs < Depth /\ dirs' = dirs + 1
       \/ dirs > 0 /\ dirs' = dirs - 1 /\ zip = NoZip /\ \A f \in File : out[f] = "absent"
    /\ UNCHANGED <<src, zip, out, pc, ret, iFlag, dirVars, listVars, fault, historyVars>>

\* ... and bring or take the archive while nobody has it open.
TouchZip ==
    /\ Running /\ ~InUse /\ owed' = {} /\ lost' = {} /\ ignored' = FALSE
    /\ \/ zip # NoZip /\ zip' = NoZip
       \/ zip = NoZip /\ zip' \in [is : {"whole"}, items : (SUBSET File) \ {{}}]
    /\ UNCHANGED <<src, dirs, out, pc, ret, iFlag, dirVars, listVars, fault, same, missed,
                   asked>>

-----------------------------------------------------------------------------
(* What the functions share.                                               *)

Goto(l) == pc' = l /\ UNCHANGED <<ret, iFlag, fault>>

\* Each call is about folders of its own; the archive stays.
Ended ==
    /\ pc' = "idle" /\ iFlag' = "REPLACE" /\ asked' = "REPLACE"
    /\ upto' = 0 /\ level' = 1 /\ bSuccess' = FALSE /\ back' = "none"
    /\ vctFileList' = {} /\ todo' = {} /\ cur' = None /\ zFp' = "none"
    /\ src' = [f \in File |-> "absent"] /\ out' = [f \in File |-> "absent"]
    /\ same' = {} /\ missed' = {} /\ UNCHANGED <<owed, lost, ignored>>

Return(r) == Ended /\ ret' = r /\ UNCHANGED fault

Crash(f) ==
    /\ fault' = f
    /\ UNCHANGED <<diskVars, pc, ret, iFlag, dirVars, listVars, historyVars>>

\* The program is started again; the archive it was writing has no directory.
Restart ==
    /\ ~Running /\ fault' = "none" /\ Ended /\ ret' = "none"
    /\ zip' = IF zFp = "open" THEN [zip EXCEPT !.is = "damaged"] ELSE zip
    /\ UNCHANGED dirs

\* CreatedMultipleDirectory makes the first n folders on the way.
MakeDirs(n, from) ==
    /\ Goto("mkdir") /\ upto' = n /\ level' = 1 /\ bSuccess' = FALSE /\ back' = from

MakeDir ==
    /\ Running /\ pc = "mkdir" /\ level <= upto
    /\ \/ dirs >= level /\ bSuccess' = FALSE /\ level' = level + 1 /\ UNCHANGED dirs
       \/ dirs = level - 1 /\ dirs' = level /\ bSuccess' = TRUE /\ level' = level + 1
       \/ dirs < level /\ bSuccess' = FALSE /\ level' = upto + 1 /\ UNCHANGED dirs
    /\ UNCHANGED <<src, zip, out, pc, ret, iFlag, upto, back, listVars, fault, historyVars>>

\* An item whose folder cannot be made ends the loop, and iRet is still OK.
DirsMade ==
    /\ Running /\ pc = "mkdir" /\ level > upto
    /\ \/ /\ bSuccess /\ Goto(back)
          /\ UNCHANGED <<diskVars, dirVars, listVars, historyVars>>
       \/ /\ ~bSuccess /\ Return(IF back = "target" THEN "OK" ELSE "ERR")
          /\ UNCHANGED <<zip, dirs>>

-----------------------------------------------------------------------------
(* Compress                                                                *)

Compress(flag) ==
    /\ Running /\ pc = "idle" /\ pc' = "traverse" /\ iFlag' = flag /\ asked' = flag
    /\ src' \in [File -> {"absent", "plain"}] /\ same' = File
    /\ upto' \in {0, ItemLevel}    \* 0: the name of the archive has no folder
    /\ ret' = "none"
    /\ UNCHANGED <<zip, dirs, out, level, bSuccess, back, listVars, fault, missed, owed,
                   lost, ignored>>

\* A folder that cannot be listed is passed over.
TraverseFloder ==
    /\ Running /\ pc = "traverse"
    /\ \E m \in SUBSET {f \in File : src[f] # "absent"} :
          LET found == {f \in File : src[f] # "absent"} \ m
          IN  \/ /\ found # {} /\ missed' = m
                 /\ vctFileList' = found /\ todo' = found /\ Goto("existing")
                 /\ UNCHANGED <<diskVars, dirVars, cur, zFp, same, owed, lost, ignored, asked>>
              \/ found = {} /\ Return("DIR_IS_NULL") /\ UNCHANGED <<zip, dirs>>

\* Line 82 assigns ZIP_FILE_REPLACE to iFlag: whatever the option was, an
\* archive that exists is deleted.  That it may not be is not noticed.
Existing ==
    /\ Running /\ pc = "existing"
    /\ \/ zip = NoZip /\ UNCHANGED <<zip, iFlag>>
       \/ zip # NoZip /\ iFlag' = "REPLACE" /\ zip' \in {NoZip, zip}
    /\ pc' = "folder"
    /\ UNCHANGED <<src, dirs, out, ret, dirVars, listVars, fault, historyVars>>

\* The empty path is not found, and has no last character.
EnsureFolder ==
    /\ Running /\ pc = "folder"
    /\ \/ upto > 0 /\ dirs >= upto /\ Goto("open")
          /\ UNCHANGED <<diskVars, dirVars, listVars, historyVars>>
       \/ upto > 0 /\ dirs < upto /\ MakeDirs(upto, "open")
          /\ UNCHANGED <<diskVars, listVars, historyVars>>
       \/ upto = 0 /\ Crash("exception")

\* Mutant: the archive is opened to append to it, whatever the option.
Reopened == [is |-> "partial", items |-> zip.items]
Created == [is |-> "partial", items |-> {}]

\* zipOpen64 with APPEND_STATUS_CREATE; the handle is not looked at.
ZipOpen ==
    /\ Running /\ pc = "open" /\ Goto("file")
    /\ \/ /\ dirs >= ItemLevel /\ zFp' = "open" /\ zip' = Created
          /\ owed' = vctFileList /\ lost' = {} /\ ignored' = FALSE
       \/ zFp' = "null" /\ UNCHANGED <<zip, owed, lost, ignored>>
    /\ UNCHANGED <<src, dirs, out, dirVars, vctFileList, todo, cur, same, missed, asked>>

\* CompressFile.  Nobody asks whether the file could be opened, nor whether
\* zipCloseFileInZip could write the rest of the entry: if not, minizip leaves
\* it out of the archive's directory, and the answer is ZIP_OK all the same.
CompressFile(f) ==
    /\ Running /\ pc = "file" /\ f \in todo
    /\ \/ /\ src[f] = "plain" /\ zFp = "open"
          /\ todo' = todo \ {f} /\ Goto("file")
          /\ \/ zip' = [zip EXCEPT !.items = @ \cup {f}] /\ UNCHANGED lost
             \/ lost' = lost \cup {f} /\ UNCHANGED zip
          /\ UNCHANGED <<src, dirs, out, dirVars, vctFileList, cur, zFp,
                         same, missed, owed, ignored, asked>>
       \/ /\ src[f] = "plain" /\ Goto("failed")
          /\ UNCHANGED <<diskVars, dirVars, listVars, historyVars>>
       \/ src[f] # "plain" /\ Crash("null file")

\* zipClose finishes what is in the archive, or fails; it frees the handle.
Close(z) ==
    /\ zFp' = IF zFp = "open" THEN "closed" ELSE zFp
    /\ zip' \in IF zFp = "open"
                THEN {[z EXCEPT !.is = "whole"], [z EXCEPT !.is = "damaged"]}
                ELSE {z}

\* Mutant: the archive is deleted while it is open, which Windows refuses.
FailedNoDelete == Close(zip) /\ UNCHANGED ignored
FailedClose ==
    \/ /\ zip # NoZip /\ Close(zip)       \* it stays
       /\ ignored' = (ignored \/ zFp = "open")
    \/ /\ zip' = NoZip /\ zFp' = (IF zFp = "open" THEN "closed" ELSE zFp)
       /\ ignored' = FALSE

\* After a failure the archive is closed and deleted ...
Failed ==
    /\ Running /\ pc = "failed" /\ FailedClose /\ Goto("closeAgain")
    /\ UNCHANGED <<src, dirs, out, dirVars, vctFileList, todo, cur, same, missed, owed,
                   lost, asked>>

\* ... and closed once more, which may do anything, and be noticed or not.
CloseAgain ==
    /\ Running /\ pc = "closeAgain"
    /\ \/ Return("IO_ERROR") /\ UNCHANGED <<zip, dirs>>
       \/ zFp = "closed" /\ Crash("closed twice")

\* Mutant: the archive is not closed after the last file.
FinishedNoClose ==
    /\ Running /\ pc = "file" /\ todo = {} /\ Goto("finished")
    /\ UNCHANGED <<diskVars, dirVars, listVars, historyVars>>
Finished ==
    /\ Running /\ pc = "file" /\ todo = {}
    /\ Close(zip) /\ Goto("finished")
    /\ UNCHANGED <<src, dirs, out, dirVars, vctFileList, todo, cur, historyVars>>

CompressReturns ==
    /\ Running /\ pc = "finished" /\ Return("OK") /\ UNCHANGED <<zip, dirs>>

-----------------------------------------------------------------------------
(* UnCompress                                                              *)

\* An archive that exists is reported as not found.
UnCompress(flag) ==
    /\ Running /\ pc = "idle"
    /\ \/ zip # NoZip /\ ret' = "FILE_NOT_FOUND"
          /\ UNCHANGED <<out, pc, iFlag, same, asked>>
       \/ /\ zip = NoZip /\ pc' = "dst" /\ iFlag' = flag /\ asked' = flag /\ ret' = "none"
          /\ out' \in [File -> IF dirs < ItemLevel THEN {"absent"} ELSE {"absent", "old"}]
          /\ same' = File
    /\ UNCHANGED <<src, zip, dirs, dirVars, listVars, fault, missed, owed, lost, ignored>>

\* The target folder is made if it exists, see CreatedMultipleDirectory.
EnsureTarget ==
    /\ Running /\ pc = "dst"
    /\ IF dirs >= DstLevel THEN MakeDirs(DstLevel, "unzOpen")
       ELSE Goto("unzOpen") /\ UNCHANGED dirVars
    /\ UNCHANGED <<diskVars, listVars, historyVars>>

UnzOpen ==
    /\ Running /\ pc = "unzOpen"
    /\ \/ /\ zip.is = "whole" /\ Goto("entry")
          /\ vctFileList' = zip.items /\ todo' = zip.items
          /\ UNCHANGED <<diskVars, dirVars, cur, zFp, historyVars>>
       \/ Return("IO_ERROR") /\ UNCHANGED <<zip, dirs>>

\* The next entry; its folder, again, is made if it exists.
Entry(f) ==
    /\ Running /\ pc = "entry" /\ f \in todo
    /\ cur' = f /\ todo' = todo \ {f}
    /\ IF dirs >= ItemLevel THEN MakeDirs(ItemLevel, "target")
       ELSE Goto("target") /\ UNCHANGED dirVars
    /\ UNCHANGED <<diskVars, vctFileList, zFp, historyVars>>

\* Mutant: the option is not looked at.
SkipsNone == FALSE
Skips == iFlag = "SKIP"

\* A file that exists is skipped or deleted.
Target ==
    /\ Running /\ pc = "target" /\ same' = same \cup {cur}
    /\ UNCHANGED <<src, zip, dirs, dirVars, listVars, missed, owed, lost, ignored, asked>>
    /\ \/ out[cur] # "absent" /\ Skips /\ Goto("entry") /\ UNCHANGED out
       \/ out[cur] # "absent" /\ ~Skips /\ Goto("write")
          /\ (UNCHANGED out \/ out' = [out EXCEPT ![cur] = "absent"])
       \/ out[cur] = "absent" /\ Goto("write") /\ UNCHANGED out

\* The file is opened and written.  Where it cannot be opened, NULL is written
\* to; where the archive cannot be read, the negative count is a huge length.
Write ==
    /\ Running /\ pc = "write"
    /\ \/ /\ dirs >= ItemLevel /\ out' = [out EXCEPT ![cur] = "new"] /\ Goto("entry")
          /\ UNCHANGED <<src, zip, dirs, dirVars, listVars, historyVars>>
       \/ dirs >= ItemLevel /\ Return("IO_ERROR") /\ UNCHANGED <<zip, dirs>>
       \/ Crash("null file")
       \/ dirs >= ItemLevel /\ Crash("over-read")

Unpacked ==
    /\ Running /\ pc = "entry" /\ todo = {} /\ Return("OK") /\ UNCHANGED <<zip, dirs>>

-----------------------------------------------------------------------------
Next ==
    \/ \E f \in File : Touch(f) \/ TouchOut(f)
    \/ TouchDirs \/ TouchZip \/ Restart
    \/ MakeDir \/ DirsMade
    \/ \E flag \in {"APPEND", "REPLACE", "EXIT"} : Compress(flag)
    \/ TraverseFloder \/ Existing \/ EnsureFolder \/ ZipOpen
    \/ \E f \in File : CompressFile(f)
    \/ Failed \/ CloseAgain \/ Finished \/ CompressReturns
    \/ \E flag \in {"REPLACE", "SKIP"} : UnCompress(flag)
    \/ EnsureTarget \/ UnzOpen
    \/ \E f \in File : Entry(f)
    \/ Target \/ Write \/ Unpacked

Spec == Init /\ [][Next]_vars

-----------------------------------------------------------------------------
(* Properties.                                                             *)

DiskTypes ==
    /\ src \in [File -> {"absent", "plain", "locked"}]
    /\ dirs \in 0 .. Depth /\ out \in [File -> {"absent", "old", "new"}]
ZipTypes ==
    /\ zip \in [is : {"none", "partial", "whole", "damaged"}, items : SUBSET File]
    /\ zip.is = "none" => zip = NoZip
    /\ zip.is = "partial" <=> zFp = "open"
    /\ zFp \in {"none", "open", "null", "closed"}
DirTypes == upto \in 0 .. Depth /\ level \in 1 .. upto + 1
ListTypes ==
    /\ todo \subseteq vctFileList /\ vctFileList \subseteq File
    /\ cur \in vctFileList \cup {None}
HistoryTypes ==
    /\ fault \in {"none", "exception", "null file", "closed twice", "over-read"}
    /\ same \cup missed \cup owed \cup lost \subseteq File
FlagTypes == bSuccess \in BOOLEAN /\ ignored \in BOOLEAN

\* The type invariant: the shape of each variable; an archive that is being
\* written is open, and a loop over folders stays on the way.
TypeOK == DiskTypes /\ ZipTypes /\ DirTypes /\ ListTypes /\ HistoryTypes /\ FlagTypes

\* When Compress has come to its end and answers ZIP_OK, the archive has every
\* file it has listed but those whose entry minizip could not finish, which
\* CompressFile does not notice; every file that nobody touched was listed
\* unless its folder could not be; and where ZIP_FILE_REPLACE was asked for,
\* nothing of an earlier archive is left.  (With ZIP_FILE_APPEND nothing is left
\* either, against ZipTools.h: see Existing.)
PackedAll ==
    [][pc = "file" /\ pc' = "finished" =>
          /\ vctFileList \subseteq zip'.items \cup lost
          /\ {f \in same : src[f] = "plain"} \subseteq zip'.items \cup lost \cup missed
          /\ asked = "REPLACE" => zip'.items \subseteq vctFileList]_vars

\* An archive that Compress has made and that can be opened has every file it
\* was made for: one that failed, or that a crash interrupted, is not mistaken
\* for a good one.  Two failures go unnoticed in the code and are excepted:
\* that of the deletion, and that of minizip to finish the entry of a file.
NoHalfArchive ==
    zip.is = "whole" /\ ~ignored => owed \subseteq zip.items \cup lost

\* UnCompress with ZIP_FILE_SKIP leaves every file alone that was there when
\* it looked, or all the time, unless somebody else has touched the file since;
\* whichever entries come first and whatever becomes of the folders.
SkipKeeps ==
    [][\A f \in same' :
          iFlag = "SKIP" /\ out[f] = "old" => out'[f] = "old"]_vars
=============================================================================
