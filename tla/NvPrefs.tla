-------------------------------- MODULE NvPrefs --------------------------------
(***************************************************************************)
(* The NVIDIA control panel setting the host changes for its own use       *)
(* (nvprefs_interface, driver_settings, undo_file), and the undo file from *)
(* which it, or --restore-nvprefs-undo, gives the user's setting back      *)
(* after a crash.                                                          *)
(*                                                                         *)
(* External: the driver's settings.  A session of it works on a copy that  *)
(* save_settings() writes back.  Any call may fail, and the host may crash *)
(* between two of them.  Assumed: two programs, or the user, do not change *)
(* settings within the milliseconds one of them works on its copy, and the *)
(* user does not choose by hand the very value the host has set.           *)
(***************************************************************************)
EXTENDS Naturals

CONSTANTS
  HostValue,  (* OGL_CPL_PREFER_DXPRESENT_PREFER_ENABLED                   *)
  OtherValues (* the other values of the setting; "no such setting" is one *)

ASSUME NvAssumption ==
  /\ HostValue \notin OtherValues
  /\ {"no file", "unreadable", "no undo data"} \cap (OtherValues \cup {HostValue}) = {}

VARIABLES
  setting,    (* external: the value in the base profile                   *)
  userWish,   (* external: the value the user has chosen                   *)
  undoFile,   (* the undo file: none, unreadable, or the value to restore  *)
  life,       (* the host: down, up, at the end of main(), in exit()       *)
  section,    (* which load() .. unload() section runs                     *)
  step,       (* the call it is at                                         *)
  copy,       (* the driver session's copy of the setting                  *)
  newer,      (* undo_data of modify_global_profile                        *)
  undo,       (* pimpl->undo_data                                          *)
  handle,     (* pimpl->undo_file: none, open, or closed by its deletion   *)
  givenUp,    (* history: an undo file was deleted without being restored  *)
  smooth      (* history: since the host started no call failed            *)

nvVars == <<setting, userWish, undoFile, life, section, step, copy, newer, undo, handle,
            givenUp, smooth>>
driver == <<setting, userWish>>
mine == <<newer, undo, handle>>

NoFile == "no file"
Unreadable == "unreadable"
NoUndo == "no undo data"
Owning == handle # "none"

Goto(s) == step' = s /\ UNCHANGED <<section, life>>
Failed(s) == Goto(s) /\ smooth' = FALSE
Went(s) == Goto(s) /\ UNCHANGED smooth

-----------------------------------------------------------------------------
(* The sections: at the start of main(), at the start of a stream          *)
(* (streaming_will_start), at the end of main(), in the destructor (also   *)
(* when main() returns early), and the whole of --restore-nvprefs-undo.    *)
Sections == {"start", "stream", "end", "exit", "tool"}

LifeBefore(s) == CASE s = "start" -> {"down"} [] s \in {"stream", "end"} -> {"up"}
                   [] s = "exit" -> {"up", "ending"} [] s = "tool" -> {"down", "up", "ending", "leaving"}
LifeAfter(s) == CASE s = "start" -> "up" [] s = "end" -> "ending" [] s = "exit" -> "leaving"
                  [] OTHER -> life

FirstStep(s) ==
  CASE s \in {"start", "tool"} -> "recover"
    [] s = "stream" -> IF Owning THEN "profile" ELSE "recover"
    [] s \in {"end", "exit"} -> IF Owning THEN "give back" ELSE "none"

(* load() comes first; if it fails there is nothing the section can do.    *)
Enter(s) ==
  /\ step = "none" /\ life \in LifeBefore(s)
  /\ life' = LifeAfter(s) /\ section' = s /\ copy' = setting
  /\ \/ step' = FirstStep(s) /\ smooth' = (smooth \/ s = "start")
     \/ step' = "none" /\ smooth' = (smooth /\ (s = "tool" \/ (s \in {"end", "exit"} /\ ~Owning)))
  /\ UNCHANGED <<driver, undoFile, mine, givenUp>>

(* The process ends; the system closes its file.                           *)
Vanish ==
  /\ life = "leaving" /\ step = "none" /\ life' = "down"
  /\ newer' = NoUndo /\ undo' = NoUndo /\ handle' = "none"
  /\ UNCHANGED <<driver, undoFile, section, step, copy, givenUp, smooth>>

-----------------------------------------------------------------------------
(* restore_from_and_delete_undo_file_if_exists().  An undo file that       *)
(* another process has open cannot be opened.                              *)
AfterRecovery == IF section = "tool" THEN "none" ELSE "profile"

(* restore_global_profile_to_undo(): only what is still our value.         *)
Restored(value) == IF copy = HostValue THEN value ELSE copy

NothingToRecover ==
  /\ step = "recover" /\ undoFile = NoFile /\ Went(AfterRecovery)
  /\ UNCHANGED <<driver, undoFile, copy, mine, givenUp>>
CannotOpen ==
  /\ step = "recover" /\ undoFile # NoFile /\ Failed(AfterRecovery)
  /\ UNCHANGED <<driver, undoFile, copy, mine, givenUp>>
ReadUndo ==
  /\ step = "recover" /\ undoFile # NoFile /\ handle # "open"
  /\ \/ undoFile \in OtherValues /\ copy' = Restored(undoFile) /\ Went("recover: save")
        /\ UNCHANGED givenUp
     \/ undoFile = Unreadable /\ Went("recover: delete") /\ UNCHANGED <<copy, givenUp>>
     \/ Failed("recover: delete") /\ givenUp' = TRUE /\ UNCHANGED copy
  /\ UNCHANGED <<driver, undoFile, mine>>
SaveRecovered ==
  /\ step = "recover: save"
  /\ \/ setting' = copy /\ Went("recover: delete") /\ UNCHANGED givenUp
     \/ Failed("recover: delete") /\ givenUp' = TRUE /\ UNCHANGED setting
  /\ UNCHANGED <<userWish, undoFile, copy, mine>>
DeleteRecovered ==
  /\ step = "recover: delete"
  /\ \/ undoFile' = NoFile /\ Went(AfterRecovery)
     \/ UNCHANGED undoFile /\ Failed(AfterRecovery)
  /\ UNCHANGED <<driver, copy, mine, givenUp>>

(* modify_application_profile(): saves the copy if it changed it.          *)
ModifyApplication ==
  /\ step = "profile"
  /\ \/ setting' = copy /\ Went("global")
     \/ UNCHANGED setting /\ Went("global")
     \/ UNCHANGED setting /\ Failed("global")
  /\ UNCHANGED <<userWish, undoFile, copy, mine, givenUp>>

-----------------------------------------------------------------------------
(* modify_global_profile(): note the value, change the copy, then write    *)
(* the undo file before the settings are saved.                            *)
LeaveGlobal ==
  /\ step = "global"
  /\ \/ Went("none")
     \/ Failed("none")
  /\ UNCHANGED <<driver, undoFile, copy, mine, givenUp>>
ModifyCopy ==
  /\ step = "global" /\ copy # HostValue
  /\ newer' = copy /\ copy' = HostValue /\ Went("create")
  /\ UNCHANGED <<driver, undoFile, undo, handle, givenUp>>

(* undo_data_t::merge(): the newer value is kept.                          *)
Merged == newer

(* CREATE_NEW fails if there is a file.  load_settings() takes the changes *)
(* of the copy back.                                                       *)
CreateUndoFile ==
  /\ step = "create"
  /\ \/ /\ ~Owning /\ undoFile = NoFile
        /\ undoFile' = Unreadable /\ handle' = "open" /\ undo' = Merged /\ Went("clear")
        /\ UNCHANGED copy
     \/ /\ Owning /\ undo' = Merged /\ Went("clear")
        /\ UNCHANGED <<undoFile, handle, copy>>
     \/ /\ ~Owning /\ copy' = setting /\ Failed("none")
        /\ UNCHANGED <<undoFile, handle, undo>>
  /\ UNCHANGED <<driver, newer, givenUp>>

(* write_undo_data(): the file is cleared, then written.                   *)
(* Variant: the settings are saved before it.                              *)
ClearUndoFileBug ==
  /\ step = "clear" /\ handle = "open" /\ undoFile' = Unreadable /\ setting' = copy
  /\ Went("write")
  /\ UNCHANGED <<userWish, copy, mine, givenUp>>
ClearUndoFile ==
  /\ step = "clear" /\ handle = "open" /\ undoFile' = Unreadable /\ Went("write")
  /\ UNCHANGED <<driver, copy, mine, givenUp>>
WriteUndoFile ==
  /\ step = "write" /\ undoFile' = undo /\ Went("commit")
  /\ UNCHANGED <<driver, copy, mine, givenUp>>
WriteFails ==
  /\ step \in {"clear", "write"}
  /\ \/ handle = "open" /\ undoFile' = NoFile /\ handle' = "closed"
     \/ UNCHANGED <<undoFile, handle>>
  /\ copy' = setting /\ Failed("none")
  /\ UNCHANGED <<driver, newer, undo, givenUp>>

Commit ==
  /\ step = "commit"
  /\ \/ setting' = copy /\ Went("none") /\ UNCHANGED copy
     \/ copy' = setting /\ Failed("none") /\ UNCHANGED setting
  /\ UNCHANGED <<userWish, undoFile, mine, givenUp>>

-----------------------------------------------------------------------------
(* restore_global_profile().                                               *)
GiveBack ==
  /\ step = "give back"
  /\ \/ copy' = Restored(undo) /\ Went("give back: save")
     \/ UNCHANGED copy /\ Failed("none")
  /\ UNCHANGED <<driver, undoFile, mine, givenUp>>
SaveGivenBack ==
  /\ step = "give back: save"
  /\ \/ setting' = copy /\ Went("give back: delete")
     \/ UNCHANGED setting /\ Failed("none")
  /\ UNCHANGED <<userWish, undoFile, copy, mine, givenUp>>
DeleteGivenBack ==
  /\ step = "give back: delete"
  /\ \/ /\ handle = "open" /\ undoFile' = NoFile /\ undo' = NoUndo /\ handle' = "none"
        /\ Went("none")
     \/ UNCHANGED <<undoFile, undo, handle>> /\ Failed("none")
  /\ UNCHANGED <<driver, copy, newer, givenUp>>

-----------------------------------------------------------------------------
(* The host crashes or is killed; so may the tool be.                      *)
CrashHost ==
  /\ life # "down" /\ (section = "tool" => step = "none")
  /\ life' = "down" /\ step' = "none" /\ smooth' = FALSE
  /\ newer' = NoUndo /\ undo' = NoUndo /\ handle' = "none"
  /\ UNCHANGED <<driver, undoFile, section, copy, givenUp>>
CrashTool ==
  /\ section = "tool" /\ step # "none" /\ Failed("none")
  /\ UNCHANGED <<driver, undoFile, copy, mine, givenUp>>

(* The user changes the setting, also while the host runs.                 *)
UserChooses(v) ==
  /\ step = "none" /\ v # setting
  /\ v = HostValue => undoFile = NoFile /\ ~Owning
  /\ setting' = v /\ userWish' = v
  /\ UNCHANGED <<undoFile, life, section, step, copy, mine, givenUp, smooth>>

NvInit ==
  /\ setting \in OtherValues \cup {HostValue} /\ userWish = setting
  /\ undoFile = NoFile /\ life = "down" /\ section = "tool" /\ step = "none" /\ copy = setting
  /\ newer = NoUndo /\ undo = NoUndo /\ handle = "none" /\ givenUp = FALSE /\ smooth = TRUE

NvNext ==
  \/ \E s \in Sections : Enter(s)
  \/ Vanish
  \/ NothingToRecover \/ CannotOpen \/ ReadUndo \/ SaveRecovered \/ DeleteRecovered
  \/ ModifyApplication \/ LeaveGlobal \/ ModifyCopy \/ CreateUndoFile
  \/ ClearUndoFile \/ WriteUndoFile \/ WriteFails \/ Commit
  \/ GiveBack \/ SaveGivenBack \/ DeleteGivenBack
  \/ CrashHost \/ CrashTool
  \/ \E v \in OtherValues \cup {HostValue} : UserChooses(v)

-----------------------------------------------------------------------------
NvTypeOK ==
  /\ {setting, userWish, copy} \subseteq OtherValues \cup {HostValue}
  /\ undoFile \in OtherValues \cup {NoFile, Unreadable}
  /\ {newer, undo} \subseteq OtherValues \cup {NoUndo}
  /\ life \in {"down", "up", "ending", "leaving"} /\ section \in Sections
  /\ handle \in {"none", "open", "closed"} /\ {givenUp, smooth} \subseteq BOOLEAN

(* Whatever crashes or fails, a setting that is not what the user chose    *)
(* can be restored from the undo file, unless the code gave up on one; and *)
(* a run of the host in which no call failed leaves nothing to restore.    *)
DriverGivenBack ==
  /\ setting # userWish => givenUp \/ (setting = HostValue /\ undoFile = userWish)
  /\ life = "down" /\ smooth /\ step = "none" =>
       undoFile = NoFile /\ (setting = userWish \/ givenUp)
===============================================================================
