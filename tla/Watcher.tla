------------------------------- MODULE Watcher -------------------------------
(***************************************************************************)
(* script_context::watch_folder: the thread that loads a folder's scripts, *)
(* polls has_update and reloads, and the two threads of the FileWatch it   *)
(* constructs, one reading inotify and one running the callback, with the  *)
(* user's edits to the folder happening at any moment.                     *)
(***************************************************************************)
EXTENDS Integers, Sequences, SequencesExt

CONSTANTS
  Files,        \* files of the folder
  JsFiles,      \* those whose name ends in .js
  Kinds,        \* edits the user makes: "create", "modify", "delete", "rename"
  EditsBeforeWatch, \* TRUE: edits also happen before the watch is in place
  MaxEdits,     \* bound: versions of the files, the initial one included
  Answers       \* what on_reload() may return

ASSUME WatcherConstants ==
  /\ JsFiles \subseteq Files
  /\ Kinds \subseteq {"create", "modify", "delete", "rename"}
  /\ EditsBeforeWatch \in BOOLEAN
  /\ MaxEdits \in Nat \ {0}
  /\ Answers \subseteq BOOLEAN

VARIABLES
  disk,        \* version of each file on disk, 0 when there is none
  edits,       \* the latest version
  inotify,     \* files of the events the kernel holds for the watch
  watching,    \* inotify_add_watch was called and both threads run
  watchPc,     \* monitor_directory: "read", "insert", "notify"
  parsed,      \* parsed_information of the events just read
  _callback_information, \* events handed to the callback thread
  callbackPc,  \* callback_thread: "lock", "asleep", "call"
  taken,       \* the callback thread's local copy
  has_update,
  loadPc,      \* watch_folder: "reset", "list", "eval", "watch", "sleep", "clear"
  todo,        \* scripts listed and not evaluated yet
  loaded       \* version of each script the current runtime evaluated

diskVars  == <<disk, edits>>
watchVars == <<watching, watchPc, parsed>>
callVars  == <<callbackPc, taken>>
loadVars  == <<loadPc, todo, loaded>>
vars == <<diskVars, inotify, watchVars, _callback_information, callVars, has_update, loadVars>>

\* Any of the files may be there from the start.
Init ==
  /\ disk \in {[f \in Files |-> IF f \in S THEN 1 ELSE 0] : S \in SUBSET Files}
  /\ edits = 1
  /\ inotify = <<>> /\ watching = FALSE
  /\ watchPc = "read" /\ parsed = <<>>
  /\ _callback_information = <<>>
  /\ callbackPc = "lock" /\ taken = <<>>
  /\ has_update = FALSE
  /\ loadPc = "reset" /\ todo = {}
  /\ loaded = [f \in Files |-> 0]

(***************************************************************************)
(* Mutations: plausible bugs, each one replacing a definition below to     *)
(* show that a property depends on it.  The specification uses none.       *)
(***************************************************************************)
\* for FinishReload: has_update is cleared after the reload instead of before.
ClearAfterReload ==
  /\ loadPc = "eval" /\ todo = {}
  /\ loadPc' = IF watching THEN "sleep" ELSE "watch"
  /\ has_update' = FALSE
  /\ UNCHANGED <<diskVars, inotify, watchVars, _callback_information, callVars,
                 todo, loaded>>

\* for NotifyCallbacks: the callback thread is not notified.
NoNotify ==
  /\ watchPc = "notify"
  /\ watchPc' = "read"
  /\ UNCHANGED <<diskVars, inotify, watching, parsed, _callback_information, callVars,
                 has_update, loadVars>>

(***************************************************************************)
(* The user and the kernel.  IN_MODIFY, IN_CREATE and IN_DELETE are asked  *)
(* for; a file renamed into place raises none of them.                     *)
(***************************************************************************)
Raises(kind) == kind # "rename"

Edit(f, kind) ==
  /\ edits < MaxEdits
  /\ watching \/ EditsBeforeWatch
  /\ kind = "create" => disk[f] = 0
  /\ kind \in {"modify", "delete"} => disk[f] > 0
  /\ edits' = edits + 1
  /\ disk' = [disk EXCEPT ![f] = IF kind = "delete" THEN 0 ELSE edits + 1]
  /\ inotify' = IF watching /\ Raises(kind) THEN Append(inotify, f) ELSE inotify
  /\ UNCHANGED <<watchVars, _callback_information, callVars, has_update, loadVars>>

(***************************************************************************)
(* FileWatch: monitor_directory and callback_thread.                       *)
(***************************************************************************)
\* One read returns some of the pending events, in order.
ReadEvents ==
  /\ watching
  /\ watchPc = "read"
  /\ \E n \in 1..Len(inotify) :
       /\ parsed' = SubSeq(inotify, 1, n)
       /\ inotify' = SubSeq(inotify, n + 1, Len(inotify))
  /\ watchPc' = "insert"
  /\ UNCHANGED <<diskVars, watching, _callback_information, callVars, has_update, loadVars>>

InsertCallbacks ==
  /\ watchPc = "insert"
  /\ _callback_information' = _callback_information \o parsed
  /\ parsed' = <<>>
  /\ watchPc' = "notify"
  /\ UNCHANGED <<diskVars, inotify, watching, callVars, has_update, loadVars>>

NotifyCallbacks ==
  /\ watchPc = "notify"
  /\ watchPc' = "read"
  /\ callbackPc' = IF callbackPc = "asleep" THEN "lock" ELSE callbackPc
  /\ UNCHANGED <<diskVars, inotify, watching, parsed, _callback_information, taken,
                 has_update, loadVars>>

\* Under _callback_mutex: take what there is, or wait for it.
TakeCallbacks ==
  /\ watching
  /\ callbackPc = "lock"
  /\ _callback_information # <<>>
  /\ taken' = _callback_information
  /\ _callback_information' = <<>>
  /\ callbackPc' = "call"
  /\ UNCHANGED <<diskVars, inotify, watchVars, has_update, loadVars>>

WaitForCallbacks ==
  /\ watching
  /\ callbackPc = "lock"
  /\ _callback_information = <<>>
  /\ callbackPc' = "asleep"
  /\ UNCHANGED <<diskVars, inotify, watchVars, _callback_information, taken,
                 has_update, loadVars>>

\* watch_folder's callback sets has_update for .js files only.
RunCallback ==
  /\ callbackPc = "call" /\ taken # <<>>
  /\ has_update' = (has_update \/ Head(taken) \in JsFiles)
  /\ taken' = Tail(taken)
  /\ UNCHANGED <<diskVars, inotify, watchVars, _callback_information, callbackPc, loadVars>>

CallbacksDone ==
  /\ callbackPc = "call" /\ taken = <<>>
  /\ callbackPc' = "lock"
  /\ UNCHANGED <<diskVars, inotify, watchVars, _callback_information, taken,
                 has_update, loadVars>>

(***************************************************************************)
(* watch_folder: reload_all() and the polling loop.                        *)
(***************************************************************************)
\* reset_runtime: the new runtime has evaluated nothing.
ResetRuntime ==
  /\ loadPc = "reset"
  /\ loaded' = [f \in Files |-> 0]
  /\ loadPc' = "list"
  /\ UNCHANGED <<diskVars, inotify, watchVars, _callback_information, callVars,
                 has_update, todo>>

ListFiles ==
  /\ loadPc = "list"
  /\ todo' = {f \in JsFiles : disk[f] > 0}
  /\ loadPc' = "eval"
  /\ UNCHANGED <<diskVars, inotify, watchVars, _callback_information, callVars,
                 has_update, loaded>>

\* In the order of the directory; a file gone since then is an error message.
EvalFile(f) ==
  /\ loadPc = "eval"
  /\ f \in todo
  /\ loaded' = [loaded EXCEPT ![f] = disk[f]]
  /\ todo' = todo \ {f}
  /\ UNCHANGED <<diskVars, inotify, watchVars, _callback_information, callVars,
                 has_update, loadPc>>

FinishReload ==
  /\ loadPc = "eval" /\ todo = {}
  /\ loadPc' = IF watching THEN "sleep" ELSE "watch"
  /\ UNCHANGED <<diskVars, inotify, watchVars, _callback_information, callVars,
                 has_update, todo, loaded>>

\* The FileWatch constructor returns once monitor_directory runs.
StartWatch ==
  /\ loadPc = "watch"
  /\ watching' = TRUE
  /\ loadPc' = "sleep"
  /\ UNCHANGED <<diskVars, inotify, watchPc, parsed, _callback_information, callVars,
                 has_update, todo, loaded>>

\* After 300 ms: has_update && on_reload().
Poll ==
  /\ loadPc = "sleep"
  /\ has_update
  /\ \E answer \in Answers : loadPc' = IF answer THEN "clear" ELSE "sleep"
  /\ UNCHANGED <<diskVars, inotify, watchVars, _callback_information, callVars,
                 has_update, todo, loaded>>

ClearUpdate ==
  /\ loadPc = "clear"
  /\ has_update' = FALSE
  /\ loadPc' = "reset"
  /\ UNCHANGED <<diskVars, inotify, watchVars, _callback_information, callVars,
                 todo, loaded>>

WatchStep    == ReadEvents \/ InsertCallbacks \/ NotifyCallbacks
CallbackStep == TakeCallbacks \/ WaitForCallbacks \/ RunCallback \/ CallbacksDone
LoadStep ==
  \/ ResetRuntime \/ ListFiles \/ FinishReload \/ StartWatch \/ Poll \/ ClearUpdate
  \/ \E f \in Files : EvalFile(f)

Next ==
  \/ \E f \in Files, kind \in Kinds : Edit(f, kind)
  \/ WatchStep \/ CallbackStep \/ LoadStep

Spec == Init /\ [][Next]_vars

\* The three threads are scheduled; nobody has to edit.
FairSpec == Spec /\ WF_vars(WatchStep) /\ WF_vars(CallbackStep) /\ WF_vars(LoadStep)

(***************************************************************************)
(* Properties.                                                             *)
(***************************************************************************)
TypeOK ==
  /\ disk \in [Files -> 0..MaxEdits] /\ edits \in 1..MaxEdits
  /\ inotify \in Seq(Files) /\ watching \in BOOLEAN
  /\ watchPc \in {"read", "insert", "notify"} /\ parsed \in Seq(Files)
  /\ _callback_information \in Seq(Files)
  /\ callbackPc \in {"lock", "asleep", "call"} /\ taken \in Seq(Files)
  /\ has_update \in BOOLEAN
  /\ loadPc \in {"reset", "list", "eval", "watch", "sleep", "clear"}
  /\ todo \subseteq JsFiles
  /\ loaded \in [Files -> 0..MaxEdits]

\* An event for f is somewhere between the kernel and has_update.
InFlight(f) ==
  f \in Range(inotify) \cup Range(parsed) \cup Range(_callback_information) \cup Range(taken)

\* Scripts whose present version the reload under way will still evaluate.
Pending(f) == loadPc \in {"clear", "reset", "list"} \/ f \in todo

\* No change is forgotten: a script that differs from what the runtime
\* evaluated has an event on its way, or has_update set, or a reload under way
\* that has still to read it, although has_update is cleared without a lock
\* while events keep arriving.
ChangeNotForgotten ==
  \A f \in JsFiles :
    loaded[f] # disk[f] => InFlight(f) \/ has_update \/ Pending(f)

\* main.cc: "Monitor a folder for JavaScript files".  The runtime ends up with
\* the script that is on disk, unless it is edited again.
LoadedCatchesUp ==
  \A f \in JsFiles, v \in 0..MaxEdits :
    disk[f] = v ~> loaded[f] = v \/ disk[f] # v
=============================================================================
