------------------------------- MODULE Regexp -------------------------------
(***************************************************************************)
(* Regular expressions of the engine (libregexp.c): lre_compile turns a    *)
(* pattern into bytecode and lre_exec_backtrack runs it, one opcode per    *)
(* step, with an explicit stack of the states to come back to.             *)
(*                                                                         *)
(* A pattern is given as the tree its text stands for: a disjunction is a  *)
(* sequence of alternatives, an alternative a sequence of terms, a term a  *)
(* tuple that starts with its kind ("any" is the dot of the dotall flag).  *)
(* An instruction is one unit of code, its jumps are relative as in the    *)
(* bytecode.  A text is a sequence of 16-bit units; "hi" and "lo" are the  *)
(* halves of one surrogate pair.                                           *)
(***************************************************************************)
EXTENDS Integers, Sequences, SequencesExt

CONSTANTS
  Regexps,   \* the compiled expressions: a sequence of [pattern, flags]
  Texts,     \* the strings they are run on
  Word       \* the units that is_word_char accepts

VARIABLES
  re, text,                             \* the arguments of the calls
  bytecode,                             \* what lre_compile made of re
  lastIndex,                            \* the property of the RegExp object
  phase,                                \* "ready", "run", "match", "no_match"
  cindex,                               \* where this call began
  pc, cptr, capture, stack, state_stack \* locals of lre_exec_backtrack

machine == <<pc, cptr, capture, stack, state_stack>>
vars == <<re, text, bytecode, lastIndex, phase, cindex, machine>>

INT32_MAX == 2147483647    \* as quant_max: no limit
NULL == -1

----------------------------------------------------------------------------
(* Compilation: code, and the number of captures seen so far *)

Consuming == {"char", "range", "dot", "any"}
Asserting == {"line_start", "line_end", "word_boundary", "not_word_boundary"}

\* May the code leave the position where it was?  A jump ends the analysis.
re_need_check_advance(code) ==
  LET ops == {code[i][1] : i \in DOMAIN code} IN
  \/ ops \cap Consuming = {}
  \/ ~(ops \subseteq Consuming \cup Asserting
         \cup {"push_i32", "push_char_pos", "drop", "prev", "save_start", "save_end",
               "save_reset", "back_reference", "backward_back_reference"})

\* The number of characters of a simple atom, -1 for any other.
re_is_simple_quantifier(code) ==
  IF \A i \in DOMAIN code : code[i][1] \in Consuming \cup Asserting
    THEN Len(SelectSeq(code, LAMBDA x : x[1] \in Consuming))
    ELSE -1

\* The quantifier of a term.  Captures first..count-1 are those of the atom.
Quantified(atom, first, count, min, max, greedy) ==
  LET chars == re_is_simple_quantifier(atom)
      check == re_need_check_advance(atom)
      body  == IF check THEN <<<<"push_char_pos">>>> \o atom \o <<<<"check_advance">>>> ELSE atom
      n     == Len(body)
      reset == IF first = count THEN <<>> ELSE <<<<"save_reset", first, count - 1>>>>
      split(goto_first, val) ==
        <<<<IF goto_first THEN "split_goto_first" ELSE "split_next_first", val>>>>
      star  == split(~greedy, n + 1) \o body \o <<<<"goto", -(n + 2)>>>>
      upto(m) == <<<<"push_i32", m>>>> \o split(~greedy, n + 1) \o body
                   \o <<<<"loop", -(n + 2)>>, <<"drop">>>>
      times == IF min = 1 THEN atom
                 ELSE <<<<"push_i32", min>>>> \o atom \o <<<<"loop", -(Len(atom) + 1)>>, <<"drop">>>>
  IN CASE greedy /\ max > 0 /\ chars > 0 ->
            <<<<"simple_greedy_quant", Len(atom) + 1, min, max, chars>>>> \o atom \o <<<<"match">>>>
       [] OTHER ->
            IF min = 0
              THEN reset \o (CASE max = 0 -> <<>>
                               [] max = 1 -> split(~greedy, n) \o body
                               [] max = INT32_MAX -> star
                               [] OTHER -> upto(max))
            ELSE IF min = 1 /\ max = INT32_MAX /\ ~check
              THEN atom \o split(greedy, -(Len(atom) + 1))
            ELSE times \o (CASE max = INT32_MAX -> star
                             [] max > min /\ max # INT32_MAX -> upto(max - min)
                             [] OTHER -> <<>>)

RECURSIVE re_parse_disjunction(_, _, _), re_parse_term(_, _, _)

\* One term.  Backwards, a character is stepped over before and after it is read.
re_parse_term(t, back, count) ==
  CASE t[1] = "quant" ->
         LET a == re_parse_term(t[2], back, count) IN
         [code |-> Quantified(a.code, count, a.count, t[3], t[4], t[5]), count |-> a.count]
    [] t[1] = "group" -> re_parse_disjunction(t[2], back, count)
    [] t[1] = "capture" ->
         LET d == re_parse_disjunction(t[2], back, count + 1)
             open  == <<IF back THEN "save_end" ELSE "save_start", count>>
             close == <<IF back THEN "save_start" ELSE "save_end", count>> IN
         [code |-> <<open>> \o d.code \o <<close>>, count |-> d.count]
    [] t[1] \in {"lookahead", "negative_lookahead", "lookbehind", "negative_lookbehind"} ->
         LET neg  == t[1] \in {"negative_lookahead", "negative_lookbehind"}
             d == re_parse_disjunction(t[2], t[1] \in {"lookbehind", "negative_lookbehind"}, count) IN
         [code |-> <<<<IF neg THEN "negative_lookahead" ELSE "lookahead", Len(d.code) + 1>>>>
                     \o d.code \o <<<<"match">>>>,
          count |-> d.count]
    [] t[1] = "reference" ->
         [code |-> <<<<IF back THEN "backward_back_reference" ELSE "back_reference", t[2]>>>>,
          count |-> count]
    [] t[1] \in Consuming ->
         [code |-> IF back THEN <<<<"prev">>, t, <<"prev">>>> ELSE <<t>>, count |-> count]
    [] t[1] \in Asserting -> [code |-> <<t>>, count |-> count]

re_parse_alternative(terms, back, count) ==
  FoldLeft(LAMBDA f, t :
             LET g == re_parse_term(t, back, f.count) IN
             [code |-> IF back THEN g.code \o f.code ELSE f.code \o g.code, count |-> g.count],
           [code |-> <<>>, count |-> count], terms)

re_parse_disjunction(d, back, count) ==
  FoldLeft(LAMBDA f, terms :
             LET g == re_parse_alternative(terms, back, f.count) IN
             [code |-> <<<<"split_next_first", Len(f.code) + 1>>>> \o f.code
                       \o <<<<"goto", Len(g.code)>>>> \o g.code,
              count |-> g.count],
           re_parse_alternative(Head(d), back, count), Tail(d))

\* Mutation, for lre_compute_stack_size: the positions are not counted.
CountersOnly(code) == Len(SelectSeq(code, LAMBDA x : x[1] = "push_i32"))

\* The most the stack can hold, from one pass over the code.
lre_compute_stack_size(code) ==
  FoldLeft(LAMBDA s, x :
             LET n == CASE x[1] \in {"push_i32", "push_char_pos"} -> s[1] + 1
                        [] x[1] \in {"drop", "check_advance"} -> s[1] - 1
                        [] OTHER -> s[1] IN
             <<n, IF n > s[2] THEN n ELSE s[2]>>,
           <<0, 0>>, code)[2]

\* Unless it is sticky, an expression first tries every position in turn.
lre_compile(r) ==
  LET search == IF "sticky" \in r.flags THEN <<>>
                  ELSE <<<<"split_goto_first", 2>>, <<"any">>, <<"goto", -3>>>>
      d == re_parse_disjunction(r.pattern, FALSE, 1)
      code == search \o <<<<"save_start", 0>>>> \o d.code \o <<<<"save_end", 0>>, <<"match">>>> IN
  [code |-> code, capture_count |-> d.count, stack_size |-> lre_compute_stack_size(code)]

Flag(f) == f \in Regexps[re].flags
Instr == bytecode.code[pc]

----------------------------------------------------------------------------
(* Characters: a surrogate pair is one character of a unicode expression *)

Pair(i, low, high) ==
  Flag("unicode") /\ low <= i /\ i + 2 <= high /\ text[i + 1] = "hi" /\ text[i + 2] = "lo"
NextPos(i, high) == IF Pair(i, 0, high) THEN i + 2 ELSE i + 1
PrevPos(i, low) == IF Pair(i - 2, low, Len(text)) THEN i - 2 ELSE i - 1
GetChar(i, high) == SubSeq(text, i + 1, NextPos(i, high))
GetPrevChar(i, low) == SubSeq(text, PrevPos(i, low) + 1, i)

IsLineTerminator(c) == c = <<"nl">>
IsWordChar(c) == c[1] \in Word

Accepts(x, c) ==
  CASE x[1] = "char" -> c = x[2]
    [] x[1] = "range" -> c \in x[2]
    [] x[1] = "dot" -> ~IsLineTerminator(c)
    [] x[1] = "any" -> TRUE

WordAt(i) == i < Len(text) /\ IsWordChar(GetChar(i, Len(text)))
WordBefore(i) == i > 0 /\ IsWordChar(GetPrevChar(i, 0))

Holds(op, i) ==
  CASE op = "line_start" ->
         i = 0 \/ (Flag("multiline") /\ IsLineTerminator(GetPrevChar(i, 0)))
    [] op = "line_end" ->
         i = Len(text) \/ (Flag("multiline") /\ IsLineTerminator(GetChar(i, Len(text))))
    [] op = "word_boundary" -> WordBefore(i) # WordAt(i)
    [] op = "not_word_boundary" -> WordBefore(i) = WordAt(i)

\* Where a reference leads from position j, as a set that is empty when the
\* text differs from the captured text i..limit.
RECURSIVE Forward(_, _, _), Backward(_, _, _)
Forward(i, limit, j) ==
  IF i >= limit THEN {j}
  ELSE IF j < Len(text) /\ GetChar(i, limit) = GetChar(j, Len(text))
    THEN Forward(NextPos(i, limit), limit, NextPos(j, Len(text))) ELSE {}
Backward(i, limit, j) ==
  IF i <= limit THEN {j}
  ELSE IF j > 0 /\ GetPrevChar(i, limit) = GetPrevChar(j, 0)
    THEN Backward(PrevPos(i, limit), limit, PrevPos(j, 0)) ELSE {}

\* The position after an instruction that reads or tests the text, if it passes.
After(x, i, caps) ==
  CASE x[1] \in Consuming ->
         IF i < Len(text) /\ Accepts(x, GetChar(i, Len(text))) THEN {NextPos(i, Len(text))} ELSE {}
    [] x[1] \in Asserting -> IF Holds(x[1], i) THEN {i} ELSE {}
    [] x[1] = "prev" -> IF i = 0 THEN {} ELSE {PrevPos(i, 0)}
    [] x[1] \in {"back_reference", "backward_back_reference"} ->
         LET c == caps[x[2]] IN
         IF NULL \in {c[1], c[2]} THEN {i}
         ELSE IF x[1] = "back_reference" THEN Forward(c[1], c[2], i)
         ELSE Backward(c[2], c[1], i)

\* The run of a simple atom until its "match", with no_recurse.
RECURSIVE RunAtom(_, _), Repeat(_, _, _, _)
RunAtom(p, i) ==
  LET x == bytecode.code[p] IN
  IF x[1] = "match" THEN {i} ELSE UNION {RunAtom(p + 1, j) : j \in After(x, i, capture)}
\* The position after as many runs as pass, at most max, and their number.
Repeat(p, i, q, max) ==
  LET ends == RunAtom(p, i) IN
  IF ends = {} \/ q = max THEN <<i, q>> ELSE Repeat(p, CHOOSE j \in ends : TRUE, q + 1, max)

----------------------------------------------------------------------------
(* Execution *)

PushState(type, p, i, count) ==
  state_stack' = Append(state_stack, [type |-> type, pc |-> p, cptr |-> i, count |-> count,
                                      capture |-> capture, stack |-> stack])

Go(p, i) == pc' = p /\ cptr' = i

\* The states left when a match (ret) or a failure is passed down the stack.
Unwound(ret) ==
  LET down[k \in 0..Len(state_stack), r \in BOOLEAN] ==
        IF k = 0 THEN <<0, r>>
        ELSE LET type == state_stack[k].type IN
          IF type \in {"split", "greedy_quant"} THEN IF r THEN down[k - 1, r] ELSE <<k, r>>
          ELSE IF r = (type = "lookahead") THEN <<k, TRUE>> ELSE down[k - 1, FALSE]
  IN down[Len(state_stack), ret]

\* lre_exec returns to js_regexp_exec, which updates lastIndex.
Return(ret) ==
  /\ phase' = IF ret THEN "match" ELSE "no_match"
  /\ lastIndex' = IF {"global", "sticky"} \cap Regexps[re].flags = {} THEN lastIndex
                    ELSE IF ret THEN capture[0][2] ELSE 0
  /\ state_stack' = <<>>
  /\ UNCHANGED <<pc, cptr, capture, stack>>

\* One repetition of a simple atom is given back.
GiveBack(k) ==
  LET s == state_stack[k]
      x == bytecode.code[s.pc]
      back[n \in 0..x[5]] == IF n = 0 THEN s.cptr ELSE PrevPos(back[n - 1], 0)
      i == back[x[5]] IN
  /\ Go(s.pc + 1 + x[2], i)
  /\ state_stack' = SubSeq(state_stack, 1, k - 1)
                    \o (IF s.count = 1 THEN <<>> ELSE <<[s EXCEPT !.cptr = i, !.count = @ - 1]>>)
  /\ capture' = s.capture /\ stack' = s.stack

\* Mutation, for Resume: the captures are those of the failed attempt.
ResumeDirty(k) ==
  LET s == state_stack[k] IN
  Go(s.pc, s.cptr) /\ stack' = s.stack /\ state_stack' = SubSeq(state_stack, 1, k - 1)
  /\ UNCHANGED capture

\* Mutation, for Resume: the state of a split stays on the stack.
ResumeAgain(k) ==
  LET s == state_stack[k] IN
  /\ Go(s.pc, s.cptr) /\ stack' = s.stack
  /\ capture' = IF s.type = "lookahead" THEN capture ELSE s.capture
  /\ state_stack' = SubSeq(state_stack, 1, IF s.type = "split" THEN k ELSE k - 1)

\* A positive lookahead keeps the captures it made.
Resume(k) ==
  LET s == state_stack[k] IN
  /\ Go(s.pc, s.cptr)
  /\ capture' = IF s.type = "lookahead" THEN capture ELSE s.capture
  /\ stack' = s.stack
  /\ state_stack' = SubSeq(state_stack, 1, k - 1)

Recurse(ret) ==
  LET u == Unwound(ret) IN
  IF u[1] = 0 THEN Return(u[2])
  ELSE /\ UNCHANGED <<phase, lastIndex>>
       /\ IF state_stack[u[1]].type = "greedy_quant" THEN GiveBack(u[1]) ELSE Resume(u[1])

Step(ops) ==
  phase = "run" /\ Instr[1] \in ops /\ UNCHANGED <<re, text, bytecode, cindex>>

Match == Step({"match"}) /\ Recurse(TRUE)

Test ==
  /\ Step(Consuming \cup Asserting \cup {"prev", "back_reference", "backward_back_reference"})
  /\ LET ends == After(Instr, cptr, capture) IN
     \/ ends = {} /\ Recurse(FALSE)
     \/ \E i \in ends : Go(pc + 1, i) /\ UNCHANGED <<capture, stack, state_stack, phase, lastIndex>>

Split ==
  /\ Step({"split_goto_first", "split_next_first"})
  /\ LET far == pc + 1 + Instr[2]
         next_first == Instr[1] = "split_next_first" IN
     /\ PushState("split", IF next_first THEN far ELSE pc + 1, cptr, 0)
     /\ Go(IF next_first THEN pc + 1 ELSE far, cptr)
  /\ UNCHANGED <<capture, stack, phase, lastIndex>>

Lookahead ==
  /\ Step({"lookahead", "negative_lookahead"})
  /\ PushState(Instr[1], pc + 1 + Instr[2], cptr, 0)
  /\ Go(pc + 1, cptr)
  /\ UNCHANGED <<capture, stack, phase, lastIndex>>

Goto ==
  /\ Step({"goto"})
  /\ Go(pc + 1 + Instr[2], cptr)
  /\ UNCHANGED <<capture, stack, state_stack, phase, lastIndex>>

Save ==
  /\ Step({"save_start", "save_end", "save_reset"})
  /\ capture' = CASE Instr[1] = "save_start" -> [capture EXCEPT ![Instr[2]][1] = cptr]
                  [] Instr[1] = "save_end" -> [capture EXCEPT ![Instr[2]][2] = cptr]
                  [] Instr[1] = "save_reset" ->
                       [c \in DOMAIN capture |-> IF c \in Instr[2]..Instr[3]
                                                   THEN <<NULL, NULL>> ELSE capture[c]]
  /\ Go(pc + 1, cptr)
  /\ UNCHANGED <<stack, state_stack, phase, lastIndex>>

Push ==
  /\ Step({"push_i32", "push_char_pos"})
  /\ stack' = Append(stack, IF Instr[1] = "push_i32" THEN Instr[2] ELSE cptr)
  /\ Go(pc + 1, cptr)
  /\ UNCHANGED <<capture, state_stack, phase, lastIndex>>

Drop ==
  /\ Step({"drop"})
  /\ stack' = Front(stack)
  /\ Go(pc + 1, cptr)
  /\ UNCHANGED <<capture, state_stack, phase, lastIndex>>

Loop ==
  /\ Step({"loop"})
  /\ stack' = [stack EXCEPT ![Len(stack)] = @ - 1]
  /\ Go(IF Last(stack) = 1 THEN pc + 1 ELSE pc + 1 + Instr[2], cptr)
  /\ UNCHANGED <<capture, state_stack, phase, lastIndex>>

CheckAdvance ==
  /\ Step({"check_advance"})
  /\ \/ Last(stack) = cptr /\ Recurse(FALSE)
     \/ /\ Last(stack) # cptr
        /\ stack' = Front(stack)
        /\ Go(pc + 1, cptr)
        /\ UNCHANGED <<capture, state_stack, phase, lastIndex>>

\* The atom is run as often as it passes; the runs above quant_min can be
\* given back one by one.
SimpleGreedyQuant ==
  /\ Step({"simple_greedy_quant"})
  /\ LET min == Instr[3]
         r == Repeat(pc + 1, cptr, 0, Instr[4]) IN
     \/ r[2] < min /\ Recurse(FALSE)
     \/ /\ r[2] >= min
        /\ IF r[2] = min THEN UNCHANGED state_stack
             ELSE PushState("greedy_quant", pc, r[1], r[2] - min)
        /\ Go(pc + 1 + Instr[2], r[1])
        /\ UNCHANGED <<capture, stack, phase, lastIndex>>

\* js_regexp_exec: a call, which fails at once when lastIndex is past the end.
Exec ==
  /\ phase # "run"
  /\ LET start == IF {"global", "sticky"} \cap Regexps[re].flags = {} THEN 0 ELSE lastIndex IN
     IF start > Len(text)
       THEN /\ phase' = "no_match" /\ lastIndex' = 0 /\ cindex' = start
            /\ UNCHANGED machine
       ELSE /\ phase' = "run" /\ cindex' = start
            /\ Go(1, start)
            /\ capture' = [c \in 0..(bytecode.capture_count - 1) |-> <<NULL, NULL>>]
            /\ stack' = <<>> /\ state_stack' = <<>>
            /\ UNCHANGED lastIndex
  /\ UNCHANGED <<re, text, bytecode>>

\* A script sets lastIndex to any position between two characters, or past the
\* end; where it is not read it stays 0.
Init ==
  /\ re \in DOMAIN Regexps /\ text \in Texts
  /\ bytecode = lre_compile(Regexps[re])
  /\ IF {"global", "sticky"} \cap Regexps[re].flags = {} THEN lastIndex = 0
       ELSE lastIndex \in {i \in 0..(Len(text) + 1) : ~Pair(i - 1, 0, Len(text))}
  /\ phase = "ready" /\ cindex = 0
  /\ pc = 1 /\ cptr = 0 /\ capture = <<>> /\ stack = <<>> /\ state_stack = <<>>

Next ==
  \/ Exec \/ Match \/ Test \/ Split \/ Lookahead \/ Goto \/ Save \/ Push \/ Drop
  \/ Loop \/ CheckAdvance \/ SimpleGreedyQuant

\* A call runs until it returns; scripts are free not to call.
Spec == Init /\ [][Next]_vars /\ WF_vars(Next /\ phase = "run")

----------------------------------------------------------------------------
(* What a pattern means: all the ways it can match from a position, best    *)
(* first, each with the captures it leaves.                                 *)

RECURSIVE CapturesOf(_)
CapturesOf(t) ==
  CASE t[1] = "quant" -> CapturesOf(t[2])
    [] t[1] \in {"group", "capture", "lookahead", "negative_lookahead", "lookbehind",
                 "negative_lookbehind"} ->
         FoldLeft(LAMBDA n, terms : FoldLeft(LAMBDA m, u : m + CapturesOf(u), n, terms),
                  IF t[1] = "capture" THEN 1 ELSE 0, t[2])
    [] OTHER -> 0

CapturesIn(terms) == FoldLeft(LAMBDA n, t : n + CapturesOf(t), 0, terms)

RECURSIVE Ways(_, _, _, _), TermWays(_, _, _, _), Times(_, _, _, _, _, _, _)

\* y goes on from every way of x, in order.
AndThen(ways, f(_)) == FoldLeft(LAMBDA all, w : all \o f(w), <<>>, ways)

\* The terms of an alternative, the last one first when reading backwards.
AltWays(terms, back, count, w) ==
  LET base == [i \in DOMAIN terms |-> count + CapturesIn(SubSeq(terms, 1, i - 1))]
      order == [i \in DOMAIN terms |-> IF back THEN Len(terms) + 1 - i ELSE i] IN
  FoldLeft(LAMBDA ways, i : AndThen(ways, LAMBDA x : TermWays(terms[i], back, base[i], x)),
           <<w>>, order)

Ways(d, back, count, w) ==
  FoldLeft(LAMBDA r, terms :
             [ways |-> r.ways \o AltWays(terms, back, r.count, w),
              count |-> r.count + CapturesIn(terms)],
           [ways |-> <<>>, count |-> count], d).ways

\* An iteration beyond the minimum has to move.
Times(t, back, count, min, max, greedy, w) ==
  LET rest == IF max = INT32_MAX THEN max ELSE max - 1
      moved == SelectSeq(TermWays(t, back, count, w), LAMBDA x : min > 0 \/ x.pos # w.pos)
      more == AndThen(moved, LAMBDA x :
                Times(t, back, count, IF min = 0 THEN 0 ELSE min - 1, rest, greedy, x)) IN
  CASE max = 0 -> <<w>>
    [] max > 0 /\ min > 0 -> more
    [] max > 0 /\ min = 0 -> IF greedy THEN more \o <<w>> ELSE <<w>> \o more

TermWays(t, back, count, w) ==
  CASE t[1] = "quant" ->
         LET own == count..(count + CapturesOf(t) - 1)
             clean == [w EXCEPT !.caps = [c \in DOMAIN @ |-> IF c \in own THEN <<NULL, NULL>> ELSE @[c]]] IN
         Times(t[2], back, count, t[3], t[4], t[5], IF t[3] = 0 THEN clean ELSE w)
    [] t[1] = "group" -> Ways(t[2], back, count, w)
    [] t[1] = "capture" ->
         LET inner == Ways(t[2], back, count + 1, w) IN
         [i \in DOMAIN inner |->
            [inner[i] EXCEPT !.caps[count] = IF back THEN <<inner[i].pos, w.pos>>
                                                     ELSE <<w.pos, inner[i].pos>>]]
    [] t[1] \in {"lookahead", "lookbehind"} ->
         LET inner == Ways(t[2], t[1] = "lookbehind", count, w) IN
         IF inner = <<>> THEN <<>> ELSE <<[w EXCEPT !.caps = inner[1].caps]>>
    [] t[1] \in {"negative_lookahead", "negative_lookbehind"} ->
         IF Ways(t[2], t[1] = "negative_lookbehind", count, w) = <<>> THEN <<w>> ELSE <<>>
    [] t[1] = "reference" ->
         LET c == w.caps[t[2]]
             ends == IF NULL \in {c[1], c[2]} THEN {w.pos}
                     ELSE IF back THEN Backward(c[2], c[1], w.pos) ELSE Forward(c[1], c[2], w.pos) IN
         SetToSeq({[w EXCEPT !.pos = i] : i \in ends})
    [] t[1] \in Consuming /\ back ->
         IF w.pos > 0 /\ Accepts(t, GetPrevChar(w.pos, 0))
           THEN <<[w EXCEPT !.pos = PrevPos(w.pos, 0)]>> ELSE <<>>
    [] t[1] \in Consuming /\ ~back ->
         IF w.pos < Len(text) /\ Accepts(t, GetChar(w.pos, Len(text)))
           THEN <<[w EXCEPT !.pos = NextPos(w.pos, Len(text))]>> ELSE <<>>
    [] t[1] \in Asserting -> IF Holds(t[1], w.pos) THEN <<w>> ELSE <<>>

\* The ways from the first position that has one; only from cindex if sticky.
RECURSIVE Search(_)
Search(i) ==
  LET none == [c \in 0..CapturesIn(FlattenSeq(Regexps[re].pattern)) |-> <<NULL, NULL>>]
      ways == Ways(Regexps[re].pattern, FALSE, 1, [pos |-> i, caps |-> none]) IN
  IF ways # <<>> THEN <<[ways[1].caps EXCEPT ![0] = <<i, ways[1].pos>>]>>
  ELSE IF Flag("sticky") \/ i >= Len(text) THEN <<>>
  ELSE Search(NextPos(i, Len(text)))

----------------------------------------------------------------------------
(* Properties *)

\* What the bytecode and its backtracking find is the best match of the
\* pattern: the first position, the preferred one of all the ways to match
\* there, and the captures of that way.  The code of every kind of quantifier,
\* the copies of atoms, the jumps and what is restored on failure matter.
MatchExact ==
  phase \in {"match", "no_match"} =>
    LET found == IF cindex > Len(text) THEN <<>> ELSE Search(cindex) IN
    IF phase = "match" THEN found = <<capture>> ELSE found = <<>>

\* The stack is never longer than lre_compute_stack_size found in one pass over
\* the code, for which push_state and alloca reserved room, and a loop counter
\* or a position is on it whenever one is taken.
StackWithinBound ==
  phase = "run" =>
    /\ Len(stack) <= bytecode.stack_size
    /\ Instr[1] \in {"drop", "loop", "check_advance"} => stack # <<>>

\* Every call returns: no quantifier repeats an atom for ever without moving.
ExecReturns == phase = "run" ~> phase # "run"
=============================================================================
