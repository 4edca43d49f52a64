--------------------------- MODULE Watcher_proofs ---------------------------
(***************************************************************************)
(* Proof that watch_folder forgets no change, for any folder and any       *)
(* number of edits: the events between the kernel and has_update, the flag *)
(* and the reload under way together account for every stale script.       *)
(***************************************************************************)
EXTENDS Watcher, TLAPS, SequenceTheorems

(***************************************************************************)
(* Which files a sequence of events mentions.                              *)
(***************************************************************************)
LEMMA RangeAppend ==
  ASSUME NEW S, NEW s \in Seq(S), NEW e \in S
  PROVE  Range(Append(s, e)) = Range(s) \cup {e}
<1>1. DOMAIN Append(s, e) = 1..(Len(s) + 1) /\ DOMAIN s = 1..Len(s) /\ Len(s) \in Nat
  BY AppendProperties, LenProperties
<1>2. \A i \in 1..Len(s) : Append(s, e)[i] = s[i]
  BY AppendProperties
<1>3. Append(s, e)[Len(s) + 1] = e
  BY AppendProperties
<1>. QED  BY <1>1, <1>2, <1>3 DEF Range

LEMMA RangeConcat ==
  ASSUME NEW S, NEW s \in Seq(S), NEW t \in Seq(S)
  PROVE  Range(s) \cup Range(t) \subseteq Range(s \o t)
<1>1. /\ DOMAIN (s \o t) = 1..(Len(s) + Len(t))
      /\ DOMAIN s = 1..Len(s) /\ DOMAIN t = 1..Len(t)
      /\ Len(s) \in Nat /\ Len(t) \in Nat
  BY ConcatProperties, LenProperties
<1>2. \A i \in 1..Len(s) : (s \o t)[i] = s[i]
  BY <1>1, ConcatProperties
<1>3. \A i \in 1..Len(t) : (s \o t)[Len(s) + i] = t[i]
  BY <1>1, ConcatProperties
<1>4. Range(s) \subseteq Range(s \o t)
  BY <1>1, <1>2 DEF Range
<1>5. ASSUME NEW i \in 1..Len(t) PROVE t[i] \in Range(s \o t)
  <2>1. Len(s) + i \in DOMAIN (s \o t)
    BY <1>1
  <2>. QED  BY <2>1, <1>3 DEF Range
<1>. QED  BY <1>1, <1>4, <1>5 DEF Range

LEMMA RangeSplit ==
  ASSUME NEW S, NEW s \in Seq(S), NEW n \in 1..Len(s)
  PROVE  /\ SubSeq(s, 1, n) \in Seq(S)
         /\ SubSeq(s, n + 1, Len(s)) \in Seq(S)
         /\ Range(s) \subseteq Range(SubSeq(s, 1, n)) \cup Range(SubSeq(s, n + 1, Len(s)))
<1>. DEFINE left  == SubSeq(s, 1, n)
            right == SubSeq(s, n + 1, Len(s))
<1>0. Len(s) \in Nat /\ DOMAIN s = 1..Len(s)
  BY LenProperties
<1>1. left \in Seq(S) /\ Len(left) = n /\ \A i \in 1..n : left[i] = s[i]
  BY <1>0, SubSeqProperties
<1>2. right \in Seq(S) /\ Len(right) = Len(s) - n /\ \A i \in 1..(Len(s) - n) : right[i] = s[n + i]
  <2>1. \A i \in (n + 1)..Len(s) : s[i] \in S
    BY <1>0
  <2>2. /\ right \in Seq(S)
        /\ Len(right) = IF n + 1 <= Len(s) THEN Len(s) - (n + 1) + 1 ELSE 0
        /\ \A i \in 1..(Len(s) - (n + 1) + 1) : right[i] = s[(n + 1) + i - 1]
    BY <1>0, <2>1, SubSeqProperties
  <2>. HIDE DEF right
  <2>3. n \in Nat /\ 1 <= n /\ n <= Len(s)
    BY <1>0
  <2>4. Len(right) = Len(s) - n
    <3>1. CASE n + 1 <= Len(s)
      <4>1. Len(right) = Len(s) - (n + 1) + 1
        BY <3>1, <2>2
      <4>. QED  BY <4>1, <1>0, <2>3
    <3>2. CASE ~(n + 1 <= Len(s))
      <4>1. Len(right) = 0
        BY <3>2, <2>2
      <4>2. \A i, j \in Nat : i <= j /\ ~(i + 1 <= j) => j - i = 0
        OBVIOUS
      <4>3. Len(s) - n = 0
        BY <3>2, <4>2, <1>0, <2>3
      <4>. QED  BY <4>1, <4>3
    <3>. QED  BY <3>1, <3>2
  <2>5. ASSUME NEW i \in 1..(Len(s) - n) PROVE right[i] = s[n + i]
    <3>1. i \in 1..(Len(s) - (n + 1) + 1) /\ (n + 1) + i - 1 = n + i
      BY <1>0
    <3>. QED  BY <3>1, <2>2
  <2>. QED  BY <2>2, <2>4, <2>5
<1>3. DOMAIN left = 1..n /\ DOMAIN right = 1..(Len(s) - n)
  BY <1>1, <1>2, LenProperties
<1>. HIDE DEF left, right
<1>4. ASSUME NEW i \in 1..Len(s) PROVE s[i] \in Range(left) \cup Range(right)
  <2>1. CASE i <= n
    BY <2>1, <1>0, <1>1, <1>3 DEF Range
  <2>2. CASE i > n
    <3>1. i - n \in 1..(Len(s) - n) /\ n + (i - n) = i
      BY <2>2, <1>0
    <3>. QED  BY <3>1, <1>2, <1>3 DEF Range
  <2>. QED  BY <2>1, <2>2, <1>0
<1>5. Range(s) \subseteq Range(left) \cup Range(right)
  BY <1>0, <1>4 DEF Range
<1>. QED  BY <1>1, <1>2, <1>5 DEF left, right

LEMMA RangeHeadTail ==
  ASSUME NEW S, NEW s \in Seq(S), s # <<>>
  PROVE  /\ Head(s) \in S /\ Tail(s) \in Seq(S)
         /\ Range(s) \subseteq {Head(s)} \cup Range(Tail(s))
<1>1. /\ Head(s) \in S /\ Tail(s) \in Seq(S) /\ Len(Tail(s)) = Len(s) - 1
      /\ Head(s) = s[1] /\ \A i \in 1..Len(Tail(s)) : Tail(s)[i] = s[i + 1]
  BY HeadTailProperties
<1>2. Len(s) \in Nat \ {0} /\ DOMAIN s = 1..Len(s) /\ DOMAIN Tail(s) = 1..(Len(s) - 1)
  BY <1>1, LenProperties, EmptySeq
<1>3. ASSUME NEW i \in 1..Len(s) PROVE s[i] \in {Head(s)} \cup Range(Tail(s))
  <2>1. CASE i = 1
    BY <2>1, <1>1
  <2>2. CASE i # 1
    <3>1. i - 1 \in 1..(Len(s) - 1) /\ (i - 1) + 1 = i
      BY <2>2, <1>2
    <3>. QED  BY <3>1, <1>1, <1>2 DEF Range
  <2>. QED  BY <2>1, <2>2
<1>. QED  BY <1>1, <1>2, <1>3 DEF Range

(***************************************************************************)
(* The invariant: types, the two local buffers are empty when their thread *)
(* is about to fill them, and a fresh runtime has evaluated nothing.       *)
(***************************************************************************)
Buffers ==
  /\ watchPc # "insert" => parsed = <<>>
  /\ callbackPc # "call" => taken = <<>>
  /\ loadPc = "list" => loaded = [f \in Files |-> 0]

Inv == TypeOK /\ Buffers /\ ChangeNotForgotten

\* What the passing run assumes: edits come once the watch is in place, and none is a rename.
EditsNoticed == ~EditsBeforeWatch /\ "rename" \notin Kinds

LEMMA InvInit == Init => Inv
<1>. SUFFICES ASSUME Init PROVE Inv
  OBVIOUS
<1>1. disk \in [Files -> 0..MaxEdits]
  BY WatcherConstants DEF Init
<1>2. edits \in 1..MaxEdits /\ loaded \in [Files -> 0..MaxEdits]
  BY WatcherConstants DEF Init
<1>3. Buffers /\ ChangeNotForgotten
  BY DEF Init, Buffers, ChangeNotForgotten, Pending
<1>4. /\ inotify \in Seq(Files) /\ parsed \in Seq(Files)
      /\ _callback_information \in Seq(Files) /\ taken \in Seq(Files)
  BY EmptySeq DEF Init
<1>5. watching \in BOOLEAN /\ has_update \in BOOLEAN
  BY DEF Init
<1>6. /\ watchPc \in {"read", "insert", "notify"}
      /\ callbackPc \in {"lock", "asleep", "call"}
      /\ loadPc \in {"reset", "list", "eval", "watch", "sleep", "clear"}
      /\ todo \subseteq JsFiles
  BY DEF Init
<1>7. TypeOK
  BY <1>1, <1>2, <1>4, <1>5, <1>6 DEF TypeOK
<1>. QED  BY <1>3, <1>7 DEF Inv

LEMMA InvEdit ==
  ASSUME EditsNoticed, Inv, NEW f \in Files, NEW kind \in Kinds, Edit(f, kind)
  PROVE  Inv'
<1>. USE DEF Inv, watchVars, callVars, loadVars
<1>1. watching /\ inotify' = Append(inotify, f) /\ edits' = edits + 1 /\ edits < MaxEdits
  BY DEF Edit, EditsNoticed, Raises
<1>2. /\ UNCHANGED <<watching, watchPc, parsed, _callback_information, callbackPc, taken,
                      has_update, loadPc, todo, loaded>>
      /\ disk' = [disk EXCEPT ![f] = IF kind = "delete" THEN 0 ELSE edits + 1]
  BY DEF Edit
<1>3. inotify' \in Seq(Files) /\ Range(inotify') = Range(inotify) \cup {f}
  BY <1>1, RangeAppend DEF TypeOK
<1>4. disk' \in [Files -> 0..MaxEdits] /\ edits' \in 1..MaxEdits
  BY <1>1, <1>2, WatcherConstants DEF TypeOK
<1>5. TypeOK'
  BY <1>2, <1>3, <1>4 DEF TypeOK
<1>6. Buffers'
  BY <1>2 DEF Buffers
<1>7. ChangeNotForgotten'
  <2>. SUFFICES ASSUME NEW g \in JsFiles, loaded'[g] # disk'[g]
                PROVE  InFlight(g)' \/ has_update' \/ Pending(g)'
    BY DEF ChangeNotForgotten
  <2>1. CASE g = f
    BY <2>1, <1>3 DEF InFlight
  <2>2. CASE g # f
    <3>1. disk'[g] = disk[g]
      BY <2>2, <1>2 DEF TypeOK
    <3>. QED  BY <3>1, <1>2, <1>3 DEF ChangeNotForgotten, InFlight, Pending
  <2>. QED  BY <2>1, <2>2
<1>. QED  BY <1>5, <1>6, <1>7

\* Steps of the FileWatch threads move events along and forget none.
LEMMA InvEvents ==
  ASSUME Inv, UNCHANGED <<diskVars, loadVars>>, TypeOK', Buffers',
         \A f \in JsFiles : InFlight(f) \/ has_update => InFlight(f)' \/ has_update'
  PROVE  Inv'
BY DEF Inv, ChangeNotForgotten, Pending, diskVars, loadVars

LEMMA InvWatch == ASSUME Inv, WatchStep PROVE Inv'
<1>. USE DEF diskVars, watchVars, callVars, loadVars
<1>1. CASE ReadEvents
  <2>1. PICK n \in 1..Len(inotify) : /\ parsed' = SubSeq(inotify, 1, n)
                                    /\ inotify' = SubSeq(inotify, n + 1, Len(inotify))
    BY <1>1 DEF ReadEvents
  <2>2. /\ parsed' \in Seq(Files) /\ inotify' \in Seq(Files)
        /\ Range(inotify) \subseteq Range(parsed') \cup Range(inotify')
    BY <2>1, RangeSplit DEF Inv, TypeOK
  <2>3. parsed = <<>> /\ Range(parsed) = {}
    BY <1>1, EmptySeq DEF Inv, Buffers, ReadEvents, Range
  <2>4. TypeOK'
    BY <1>1, <2>2 DEF Inv, TypeOK, ReadEvents
  <2>5. Buffers'
    BY <1>1 DEF Inv, Buffers, ReadEvents
  <2>6. \A f \in JsFiles : InFlight(f) \/ has_update => InFlight(f)' \/ has_update'
    BY <1>1, <2>2, <2>3 DEF ReadEvents, InFlight
  <2>. QED  BY <1>1, <2>4, <2>5, <2>6, InvEvents DEF ReadEvents
<1>2. CASE InsertCallbacks
  <2>1. /\ _callback_information' \in Seq(Files) /\ parsed' \in Seq(Files)
        /\ Range(_callback_information) \cup Range(parsed) \subseteq Range(_callback_information')
    BY <1>2, RangeConcat, ConcatProperties, EmptySeq DEF Inv, TypeOK, InsertCallbacks
  <2>2. TypeOK'
    BY <1>2, <2>1 DEF Inv, TypeOK, InsertCallbacks
  <2>3. Buffers'
    BY <1>2 DEF Inv, Buffers, InsertCallbacks
  <2>4. \A f \in JsFiles : InFlight(f) \/ has_update => InFlight(f)' \/ has_update'
    BY <1>2, <2>1 DEF InsertCallbacks, InFlight
  <2>. QED  BY <1>2, <2>2, <2>3, <2>4, InvEvents DEF InsertCallbacks
<1>3. CASE NotifyCallbacks
  <2>1. TypeOK'
    BY <1>3 DEF Inv, TypeOK, NotifyCallbacks
  <2>2. Buffers'
    BY <1>3 DEF Inv, TypeOK, Buffers, NotifyCallbacks
  <2>3. \A f \in JsFiles : InFlight(f) \/ has_update => InFlight(f)' \/ has_update'
    BY <1>3 DEF NotifyCallbacks, InFlight
  <2>. QED  BY <1>3, <2>1, <2>2, <2>3, InvEvents DEF NotifyCallbacks
<1>. QED  BY <1>1, <1>2, <1>3 DEF WatchStep

LEMMA InvCallback == ASSUME Inv, CallbackStep PROVE Inv'
<1>. USE DEF diskVars, watchVars, callVars, loadVars
<1>1. CASE TakeCallbacks
  <2>1. taken = <<>> /\ Range(taken) = {}
    BY <1>1, EmptySeq DEF Inv, Buffers, TakeCallbacks, Range
  <2>2. TypeOK'
    BY <1>1, EmptySeq DEF Inv, TypeOK, TakeCallbacks
  <2>3. Buffers'
    BY <1>1 DEF Inv, Buffers, TakeCallbacks
  <2>4. \A f \in JsFiles : InFlight(f) \/ has_update => InFlight(f)' \/ has_update'
    BY <1>1, <2>1 DEF TakeCallbacks, InFlight
  <2>. QED  BY <1>1, <2>2, <2>3, <2>4, InvEvents DEF TakeCallbacks
<1>2. CASE WaitForCallbacks
  <2>1. TypeOK' /\ Buffers'
    BY <1>2 DEF Inv, TypeOK, Buffers, WaitForCallbacks
  <2>2. \A f \in JsFiles : InFlight(f) \/ has_update => InFlight(f)' \/ has_update'
    BY <1>2 DEF WaitForCallbacks, InFlight
  <2>. QED  BY <1>2, <2>1, <2>2, InvEvents DEF WaitForCallbacks
<1>3. CASE RunCallback
  <2>1. /\ Head(taken) \in Files /\ taken' \in Seq(Files)
        /\ Range(taken) \subseteq {Head(taken)} \cup Range(taken')
    BY <1>3, RangeHeadTail DEF Inv, TypeOK, RunCallback
  <2>2. has_update' = (has_update \/ Head(taken) \in JsFiles)
    BY <1>3 DEF RunCallback
  <2>3. has_update' \in BOOLEAN
    BY <2>2
  <2>4. TypeOK'
    BY <1>3, <2>1, <2>3 DEF Inv, TypeOK, RunCallback
  <2>5. Buffers'
    BY <1>3 DEF Inv, Buffers, RunCallback
  <2>6. \A f \in JsFiles : InFlight(f) \/ has_update => InFlight(f)' \/ has_update'
    BY <1>3, <2>1, <2>2 DEF RunCallback, InFlight
  <2>. QED  BY <1>3, <2>4, <2>5, <2>6, InvEvents DEF RunCallback
<1>4. CASE CallbacksDone
  <2>1. TypeOK' /\ Buffers'
    BY <1>4 DEF Inv, TypeOK, Buffers, CallbacksDone
  <2>2. \A f \in JsFiles : InFlight(f) \/ has_update => InFlight(f)' \/ has_update'
    BY <1>4 DEF CallbacksDone, InFlight
  <2>. QED  BY <1>4, <2>1, <2>2, InvEvents DEF CallbacksDone
<1>. QED  BY <1>1, <1>2, <1>3, <1>4 DEF CallbackStep

LEMMA InvLoad == ASSUME Inv, LoadStep PROVE Inv'
<1>. USE DEF diskVars, watchVars, callVars, loadVars
<1>1. CASE ResetRuntime
  <2>1. loaded' \in [Files -> 0..MaxEdits]
    BY <1>1, WatcherConstants DEF ResetRuntime
  <2>2. TypeOK' /\ Buffers'
    BY <1>1, <2>1 DEF Inv, TypeOK, Buffers, ResetRuntime
  <2>. QED  BY <1>1, <2>2 DEF Inv, ChangeNotForgotten, Pending, ResetRuntime
<1>2. CASE ListFiles
  <2>1. TypeOK' /\ Buffers'
    BY <1>2 DEF Inv, TypeOK, Buffers, ListFiles
  <2>2. ASSUME NEW f \in JsFiles, loaded'[f] # disk'[f] PROVE f \in todo'
    <3>1. f \in Files /\ disk[f] \in 0..MaxEdits /\ loaded[f] = 0
      BY <1>2, WatcherConstants DEF Inv, TypeOK, Buffers, ListFiles
    <3>2. disk[f] > 0
      BY <1>2, <2>2, <3>1, WatcherConstants DEF ListFiles
    <3>. QED  BY <1>2, <3>2 DEF ListFiles
  <2>. QED  BY <2>1, <2>2 DEF Inv, ChangeNotForgotten, Pending
<1>3. ASSUME NEW f \in Files, EvalFile(f) PROVE Inv'
  <2>1. TypeOK' /\ Buffers'
    BY <1>3 DEF Inv, TypeOK, Buffers, EvalFile
  <2>2. ASSUME NEW g \in JsFiles, loaded'[g] # disk'[g]
        PROVE  InFlight(g)' \/ has_update' \/ Pending(g)'
    <3>1. g # f /\ loaded'[g] = loaded[g]
      BY <1>3, <2>2, WatcherConstants DEF Inv, TypeOK, EvalFile
    <3>. QED  BY <1>3, <2>2, <3>1 DEF Inv, ChangeNotForgotten, InFlight, Pending, EvalFile
  <2>. QED  BY <2>1, <2>2 DEF Inv, ChangeNotForgotten
<1>4. CASE FinishReload
  <2>1. TypeOK' /\ Buffers'
    BY <1>4 DEF Inv, TypeOK, Buffers, FinishReload
  <2>. QED  BY <1>4, <2>1 DEF Inv, ChangeNotForgotten, InFlight, Pending, FinishReload
<1>5. CASE StartWatch
  <2>1. TypeOK' /\ Buffers'
    BY <1>5 DEF Inv, TypeOK, Buffers, StartWatch
  <2>. QED  BY <1>5, <2>1 DEF Inv, ChangeNotForgotten, InFlight, Pending, StartWatch
<1>6. CASE Poll
  <2>1. loadPc' \in {"clear", "sleep"}
    BY <1>6 DEF Poll
  <2>2. TypeOK' /\ Buffers'
    BY <1>6, <2>1 DEF Inv, TypeOK, Buffers, Poll
  <2>. QED  BY <1>6, <2>2 DEF Inv, ChangeNotForgotten, Poll
<1>7. CASE ClearUpdate
  <2>1. TypeOK' /\ Buffers'
    BY <1>7 DEF Inv, TypeOK, Buffers, ClearUpdate
  <2>. QED  BY <1>7, <2>1 DEF Inv, ChangeNotForgotten, Pending, ClearUpdate
<1>. QED  BY <1>1, <1>2, <1>3, <1>4, <1>5, <1>6, <1>7 DEF LoadStep

LEMMA InvNext == ASSUME EditsNoticed, Inv, [Next]_vars PROVE Inv'
<1>1. CASE Next
  BY <1>1, InvEdit, InvWatch, InvCallback, InvLoad DEF Next
<1>2. CASE UNCHANGED vars
  BY <1>2 DEF vars, diskVars, watchVars, callVars, loadVars, Inv, TypeOK, Buffers,
              ChangeNotForgotten, InFlight, Pending
<1>. QED  BY <1>1, <1>2

\* When every edit follows the start of the watch and raises an event, the
\* three threads of watch_folder forget no change, whatever the folder and
\* however many edits there are: clearing has_update before the reload, and
\* without a lock, is safe.
THEOREM NoChangeForgotten ==
  ASSUME EditsNoticed
  PROVE  Spec => []ChangeNotForgotten
<1>1. Init => Inv
  BY InvInit
<1>2. Inv /\ [Next]_vars => Inv'
  BY InvNext
<1>3. Inv => ChangeNotForgotten
  BY DEF Inv
<1>. QED  BY <1>1, <1>2, <1>3, PTL DEF Spec
=============================================================================
