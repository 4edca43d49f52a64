------------------------------ MODULE UrlQuery ------------------------------
(***************************************************************************)
(* A URL and the URLSearchParams objects that scripts get from it          *)
(* (infra.cc).  The URL keeps its query as a string and owns one query     *)
(* object; the query object keeps a list of pairs and a raw pointer back.  *)
(* Every edit of the list is encoded, handed to the URL and parsed into    *)
(* the list again; every parse of a whole URL makes a new query object.    *)
(* A string is a sequence of characters, and in a query each of them is    *)
(* written as itself or as a percent escape.                               *)
(***************************************************************************)
EXTENDS Integers, Sequences, FiniteSets, SequencesExt, FiniteSetsExt

CONSTANTS
  CharOrder,   \* the characters in their order, with "&", "=" and "?" among them
  Unreserved,  \* those that percent_encode writes as themselves
  Names,       \* names of pairs that scripts use
  Values,      \* values of pairs
  Queries,     \* queries of whole URLs and of assignments to search
  MaxObjects,  \* bound: URLs parsed, each with a query object of its own
  MaxPairs     \* bound: pairs of a list that is appended to

Char == Range(CharOrder)

ASSUME QueryConstants ==
  /\ Unreserved \subseteq Char
  /\ {"&", "=", "?"} \subseteq Char \ Unreserved
  /\ Names \subseteq Seq(Char) /\ Values \subseteq Seq(Char)
  /\ Queries \subseteq Seq([char : Char, escaped : BOOLEAN])
  /\ MaxObjects \in Nat \ {0} /\ MaxPairs \in Nat

VARIABLES
  alive,   \* the URL object exists
  search,  \* $search
  current, \* the query object $search_params points to
  made,    \* number of query objects made
  list,    \* the list of each query object
  held,    \* query objects that the script has a reference to
  corrupt, \* an update was written through a dangling $url_object
  did      \* history: the last operation of a script

vars == <<alive, search, current, made, list, held, corrupt, did>>

Objects == 1..MaxObjects
Text    == [char : Char, escaped : BOOLEAN]
Pair    == Seq(Char) \X Seq(Char)
Raw(c)  == [char |-> c, escaped |-> FALSE]
Nothing == [op |-> "none", on |-> 0, pair |-> <<<<>>, <<>>>>]

(***************************************************************************)
(* Mutations: plausible bugs, each one replacing a definition below to     *)
(* show that a property depends on it.  The specification uses none.       *)
(***************************************************************************)
\* for percent_encode: a question mark is legal in a query and written as it is.
EncodeKeepsQuestion(s) ==
  [i \in DOMAIN s |-> [char |-> s[i], escaped |-> s[i] \notin Unreserved \cup {"?"}]]

\* for SetSearch: the query object is not told.
SetSearchOnly(query) ==
  /\ search' = IF query # <<>> /\ Head(query) = Raw("?") THEN Tail(query) ELSE query
  /\ UNCHANGED list

(***************************************************************************)
(* Queries as strings and as lists.                                        *)
(***************************************************************************)
percent_encode(s) ==
  [i \in DOMAIN s |-> [char |-> s[i], escaped |-> s[i] \notin Unreserved]]

percent_decode(t) == [i \in DOMAIN t |-> t[i].char]

PairToString(p) == percent_encode(p[1]) \o <<Raw("=")>> \o percent_encode(p[2])

toString(pairs) ==
  FoldLeftDomain(LAMBDA s, i :
      s \o (IF i = 1 THEN <<>> ELSE <<Raw("&")>>) \o PairToString(pairs[i]),
    <<>>, pairs)

\* Where c is written as itself in t, from position i on.
Found(t, c, i) == {j \in i..Len(t) : t[j] = Raw(c)}

\* The piece of t from i up to the next c, or to its end.
UpTo(t, c, i) ==
  SubSeq(t, i, IF Found(t, c, i) = {} THEN Len(t) ELSE Min(Found(t, c, i)) - 1)

PairOf(t) ==
  LET name == UpTo(t, "=", 1)
  IN <<percent_decode(name), percent_decode(SubSeq(t, Len(name) + 2, Len(t)))>>

\* Pieces start at the beginning and after every "&"; none starts at the end.
parse_query_string(query) ==
  LET starts == {i \in 1..Len(query) : i = 1 \/ query[i - 1] = Raw("&")}
      order  == SetToSortSeq(starts, LAMBDA i, j : i < j)
  IN [n \in DOMAIN order |-> PairOf(UpTo(query, "&", order[n]))]

(***************************************************************************)
(* The URL.                                                                *)
(***************************************************************************)
WithoutQuestion(query) ==
  IF query # <<>> /\ Head(query) = Raw("?") THEN Tail(query) ELSE query

SetSearch(query) ==
  /\ search' = WithoutQuestion(query)
  /\ list' = [list EXCEPT ![current] = parse_query_string(WithoutQuestion(query))]

\* URL::URL: $basic_url_parser makes the query object.
Init ==
  \E query \in Queries :
    /\ alive = TRUE
    /\ search = query
    /\ current = 1 /\ made = 1
    /\ list = [o \in Objects |-> IF o = 1 THEN parse_query_string(query) ELSE <<>>]
    /\ held = {} /\ corrupt = FALSE
    /\ did = Nothing

\* A text that is no URL throws before anything changes.  Otherwise the parser
\* makes a new query object; the old one keeps its list and its pointer.
set_href(query) ==
  /\ alive /\ made < MaxObjects
  /\ made' = made + 1
  /\ current' = made + 1
  /\ search' = query
  /\ list' = [list EXCEPT ![made + 1] = parse_query_string(query)]
  /\ did' = Nothing
  /\ UNCHANGED <<alive, held, corrupt>>

set_search(query) ==
  /\ alive
  /\ SetSearch(query)
  /\ did' = Nothing
  /\ UNCHANGED <<alive, current, made, held, corrupt>>

get_searchParams ==
  /\ alive
  /\ held' = held \cup {current}
  /\ did' = Nothing
  /\ UNCHANGED <<alive, search, current, made, list, corrupt>>

\* The script drops its last reference to the URL; the query objects it holds
\* stay, and so does their pointer to the URL.
FreeUrl ==
  /\ alive
  /\ alive' = FALSE
  /\ did' = Nothing
  /\ UNCHANGED <<search, current, made, list, held, corrupt>>

(***************************************************************************)
(* URLSearchParams, on an object that the script holds.                    *)
(***************************************************************************)
\* o's list becomes pairs, and $update_url_query hands it to the URL, which
\* parses it into the list of its own query object; without the URL this
\* writes to freed memory.
Update(op, o, p, pairs) ==
  /\ ~corrupt
  /\ o \in held
  /\ Len(pairs) <= MaxPairs
  /\ IF alive
     THEN LET query == WithoutQuestion(toString(pairs)) IN
            /\ search' = query
            /\ list' = [list EXCEPT ![o] = pairs, ![current] = parse_query_string(query)]
     ELSE /\ list' = [list EXCEPT ![o] = pairs]
          /\ UNCHANGED search
  /\ corrupt' = ~alive
  /\ did' = [op |-> op, on |-> o, pair |-> p]
  /\ UNCHANGED <<alive, current, made, held>>

\* What is left in o's list once Update has stored pairs there.
Stored(o, pairs) ==
  IF o = current THEN parse_query_string(WithoutQuestion(toString(pairs))) ELSE pairs

\* An empty value stands for any value.
Removed(pairs, p) ==
  SelectSeq(pairs, LAMBDA q : ~(q[1] = p[1] /\ (p[2] = <<>> \/ q[2] = p[2])))

append(o, p) == Update("append", o, p, Append(list[o], p))

remove(o, p) == Update("remove", o, p, Removed(list[o], p))

\* remove(name), then append(name, value).
set(o, p) ==
  Update("set", o, p, Append(Stored(o, Removed(list[o], <<p[1], <<>>>>)), p))

\* Order of strings, by their first difference.
CharBefore(c, d) ==
  \E i, j \in DOMAIN CharOrder : i < j /\ CharOrder[i] = c /\ CharOrder[j] = d

Before(s, t) ==
  \E i \in DOMAIN t :
    /\ SubSeq(t, 1, i - 1) = SubSeq(s, 1, i - 1)
    /\ i = Len(s) + 1 \/ (i <= Len(s) /\ CharBefore(s[i], t[i]))

Sorted(pairs) == \A i, j \in DOMAIN pairs : i < j => ~Before(pairs[j][1], pairs[i][1])

\* std::sort is not stable: pairs of one name may come out in any order.
sort(o) ==
  \E f \in [DOMAIN list[o] -> DOMAIN list[o]] :
    /\ IsInjective(f)
    /\ Sorted([i \in DOMAIN f |-> list[o][f[i]]])
    /\ Update("sort", o, Nothing.pair, [i \in DOMAIN f |-> list[o][f[i]]])

Next ==
  \/ \E query \in Queries : set_href(query) \/ set_search(query)
  \/ get_searchParams \/ FreeUrl
  \/ \E o \in Objects, p \in Names \X Values : append(o, p) \/ remove(o, p) \/ set(o, p)
  \/ \E o \in Objects : sort(o)

Spec == Init /\ [][Next]_vars

(***************************************************************************)
(* Properties.                                                             *)
(***************************************************************************)
TypeOK ==
  /\ alive \in BOOLEAN /\ corrupt \in BOOLEAN
  /\ search \in Seq(Text)
  /\ made \in Objects /\ current \in 1..made
  /\ list \in [Objects -> Seq(Pair)]
  /\ held \subseteq 1..made
  /\ did \in [op : {"none", "append", "remove", "set", "sort"}, on : 0..made, pair : Pair]

\* The two copies of the query agree: what the URL shows as its search is the
\* list of its query object, although either side is edited, a held object may
\* be one the URL has replaced, and each update runs through the other side.
SearchAgrees ==
  alive => parse_query_string(search) = list[current]

\* How often a pair is in a list.
Times(pairs, p) == Cardinality({i \in DOMAIN pairs : pairs[i] = p})

\* What an operation makes of a list.
Expected(op, pairs, p, result) ==
  CASE op = "append" -> result = Append(pairs, p)
    [] op = "remove" -> /\ p \notin Range(result)
                        /\ \A q \in Range(pairs) : q[1] # p[1] =>
                              Times(result, q) = Times(pairs, q)
    [] op = "set"    -> /\ Last(result) = p
                        /\ \A i \in 1..(Len(result) - 1) : result[i][1] # p[1]
                        /\ \A q \in Range(pairs) : q[1] # p[1] =>
                              Times(result, q) = Times(pairs, q)
    [] op = "sort"   -> /\ Sorted(result)
                        /\ \A q \in Range(pairs) \cup Range(result) :
                              Times(result, q) = Times(pairs, q)
    [] OTHER         -> TRUE

\* An operation on a query object does to its list what it says and shows in
\* the URL's search, although the list is encoded, handed to the URL, stripped
\* of a question mark and parsed again on the way, once or twice.
EditsAreExact ==
  [][ /\ did'.op # "none" =>
           Expected(did'.op, list[did'.on], did'.pair, list'[did'.on])
      /\ did'.op # "none" /\ alive =>
           parse_query_string(search') = list'[did'.on] ]_vars
=============================================================================
