---------------------------------- MODULE Agent ----------------------------------
(***************************************************************************)
(* The chat with tools of agent/service.py (chat and chat_stream).  The    *)
(* server keeps nothing between requests: the page sends the whole         *)
(* conversation, with the ids of the calls its user approved or rejected.  *)
(* Of the conversation only the messages that ask for calls and those that *)
(* answer one are modelled.  A call is its number; its id is its own, or,  *)
(* if the model of the provider gave none, its place in its message.       *)
(***************************************************************************)
EXTENDS Naturals, Sequences, SequencesExt

CONSTANTS MaxCalls,    \* calls the model may ask for
          MaxPerTurn,  \* and in one message
          MaxRequests,
          MaxRounds    \* turns of the model in a request: range(8)

VARIABLES calls,    \* the calls asked for so far
          page,     \* the page: its messages, the calls it asks its user about, and
                    \* the request it waits for
          desk,     \* each request, as the server handles it
          runs,     \* how often each call was executed
          agreed,   \* history: the calls the user approved, or let run on their own,
          unheard,  \*   those whose result did not reach the page,
          torn      \*   and whether the page's conversation has gaps

agvars == <<calls, page, desk, runs, agreed, unheard, torn>>

CallIds == 1 .. MaxCalls
Requests == 1 .. MaxRequests
Tools == {"read", "change", "none"}
Asks(ns) == [kind |-> "asks", ns |-> ns]
Result(n) == [kind |-> "result", ns |-> <<n>>]
Of(msgs, kind) == {msgs[i].ns[j] : i \in {k \in DOMAIN msgs : msgs[k].kind = kind}, j \in {1}}
Answered(msgs) == Of(msgs, "result")
Asked(msgs) == UNION {Range(msgs[i].ns) : i \in {k \in DOMAIN msgs : msgs[k].kind = "asks"}}
Id(n) == calls[n].id
IdsOf(ns) == {Id(n) : n \in ns}
Free == {k \in Requests : desk[k].at = "none"}
Working(k) == desk[k].at \notin {"none", "over"}
Hears(k) == page.waits = k
Shown(k) == Hears(k) /\ desk[k].stream

-----------------------------------------------------------------------------
(* The page.  It sends one request at a time. *)
Request(k, stream, auto, yes, no) ==
    /\ \A l \in Free : k <= l
    /\ page' = [page EXCEPT !.waits = k]
    /\ desk' = [desk EXCEPT ![k] = [at |-> IF yes \cup no = {} THEN "think" ELSE "start", stream |-> stream, auto |-> auto, base |-> page.msgs,
            new |-> <<>>, yes |-> yes, no |-> no, round |-> 0, todo |-> <<>>, pending |-> {}]]
    /\ UNCHANGED <<calls, runs, unheard>>

\* A message of the user: not while calls await confirmation.
Send(k, stream, auto) ==
    /\ page.pending = {}
    /\ Request(k, stream, auto, {}, {})
    /\ UNCHANGED <<agreed, torn>>

\* Approving or rejecting one of the calls, or all of them.  History: the others are not
\* asked about again.
Confirm(k, ns, approve, stream, auto) ==
    /\ ns \subseteq page.pending /\ ns # {}
    /\ Request(k, stream, auto, IF approve THEN IdsOf(ns) ELSE {}, IF approve THEN {} ELSE IdsOf(ns))
    /\ agreed' = IF approve THEN agreed \cup ns ELSE agreed
    /\ torn' = (torn \/ ns # page.pending)

-----------------------------------------------------------------------------
(* The server. *)
LastAsks(msgs) == SelectLastInSeq(msgs, LAMBDA m : m.kind = "asks")

\* Mutant: results that are there already are not looked for.
ChosenAgain(d) ==
    {n \in Range(d.base[LastAsks(d.base)].ns) : Id(n) \in d.yes \cup d.no}

\* The calls of the last message that asked for some, if their id was confirmed and no
\* result in the conversation has it.
Chosen(d) ==
    {n \in Range(d.base[LastAsks(d.base)].ns) :
        Id(n) \in d.yes \cup d.no /\ Id(n) \notin IdsOf(Answered(d.base))}

\* The page takes what it is sent; at the end the whole answer.
Told(m) == [page EXCEPT !.msgs = Append(@, m)]
Final(d) == [msgs |-> d.base \o d.new, pending |-> d.pending, waits |-> 0]

\* A request ends: the page has its messages, or an error if it is not a stream.
Close(k, d, well) ==
    /\ desk' = [desk EXCEPT ![k] = [at |-> "over"]]
    /\ IF ~Hears(k) THEN UNCHANGED page
       ELSE page' = IF well \/ d.stream THEN Final(d) ELSE [page EXCEPT !.waits = 0]
    /\ unheard' = IF Hears(k) /\ (well \/ d.stream) THEN unheard ELSE unheard \cup Answered(d.new)
    /\ UNCHANGED <<calls, runs, agreed>>

\* Confirmations without a message that asks are an error (400).
Open(k) ==
    /\ desk[k].at = "start"
    /\ LET d == desk[k] IN
       IF LastAsks(d.base) = 0 THEN Close(k, d, FALSE) /\ UNCHANGED torn
       ELSE \E s \in SetToSeqs(Chosen(d)) :
            /\ desk' = [desk EXCEPT ![k].at = "settle", ![k].todo = s]
            /\ UNCHANGED <<calls, page, runs, agreed, unheard, torn>>

\* The tools cannot be had, and the confirmations are not looked at.  A stream ends in `done`
\* with nothing pending, and its page forgets the calls it asked about.
OpenFails(k) ==
    /\ desk[k].at = "start"
    /\ Close(k, desk[k], FALSE)
    /\ torn' = (torn \/ Shown(k))

\* A call's result, with or without running it, goes into the conversation and to the page.
Answer(k, ran) ==
    LET n == Head(desk[k].todo) IN
    /\ runs' = IF ran THEN [runs EXCEPT ![n] = @ + 1] ELSE runs
    /\ desk' = [desk EXCEPT ![k].todo = Tail(@), ![k].new = Append(@, Result(n))]
    /\ page' = IF Shown(k) THEN Told(Result(n)) ELSE page
    /\ unheard' = IF ran /\ ~Hears(k) THEN unheard \cup {n} ELSE unheard
    /\ UNCHANGED <<calls, agreed, torn>>

\* Rejected calls and unknown tools are answered without being run.
Settle(k) ==
    /\ desk[k].at = "settle" /\ desk[k].todo # <<>>
    /\ LET n == Head(desk[k].todo) IN Answer(k, Id(n) \notin desk[k].no /\ calls[n].tool # "none")

\* The model is asked again when the calls are answered, unless one awaits its user.
Thinks(k) ==
    LET d == desk[k] IN
    \/ d.at = "think"
    \/ d.at = "settle" /\ d.todo = <<>>
    \/ d.at = "calls" /\ d.todo = <<>> /\ d.pending = {} /\ d.round < MaxRounds

\* The model answers, and asks for calls or not.
Think(k, tools, named) ==
    /\ Len(calls) + Len(tools) <= MaxCalls
    /\ LET made == [i \in DOMAIN tools |->
                       [tool |-> tools[i], id |-> IF named THEN MaxPerTurn + Len(calls) + i ELSE i]]
           ns == [i \in DOMAIN tools |-> Len(calls) + i]
           d == desk[k]
       IN IF tools = <<>> THEN named /\ Close(k, [d EXCEPT !.pending = {}], TRUE) /\ UNCHANGED torn
          ELSE /\ calls' = calls \o made
               /\ desk' = [desk EXCEPT ![k] = [d EXCEPT !.at = "calls", !.todo = ns, !.pending = {},
                                                 !.new = Append(@, Asks(ns)), !.round = @ + 1]]
               /\ page' = IF Shown(k) THEN Told(Asks(ns)) ELSE page
               /\ agreed' = IF d.auto THEN agreed \cup Range(ns) ELSE agreed
               /\ UNCHANGED <<runs, unheard, torn>>

ThinkFails(k) ==
    /\ Thinks(k)
    /\ Close(k, desk[k], FALSE)
    /\ UNCHANGED torn

Waits(k) == LET n == Head(desk[k].todo) IN calls[n].tool = "change" /\ ~desk[k].auto

\* A call of the model: one that changes something waits for its confirmation, unless the
\* user lets all of them run.
Call(k) ==
    /\ desk[k].at = "calls" /\ desk[k].todo # <<>>
    /\ LET n == Head(desk[k].todo) IN
       IF Waits(k)
       THEN /\ desk' = [desk EXCEPT ![k].todo = Tail(@), ![k].pending = @ \cup {n}]
            /\ UNCHANGED <<calls, page, runs, agreed, unheard, torn>>
       ELSE Answer(k, calls[n].tool # "none")

\* Something to confirm, or the last round, ends the request.
Round(k) ==
    /\ desk[k].at = "calls" /\ desk[k].todo = <<>> /\ ~Thinks(k)
    /\ Close(k, desk[k], TRUE)
    /\ UNCHANGED torn

\* The connection breaks.  A stream is cancelled, before or after what it is doing; without
\* one the server goes on and nobody hears the answer.
Break(k) ==
    /\ Hears(k) /\ Working(k)
    /\ page' = [page EXCEPT !.waits = 0]
    /\ torn' = (torn \/ desk[k].stream)
    /\ IF desk[k].stream
       THEN /\ desk' = [desk EXCEPT ![k] = [at |-> "over"]]
            /\ \/ UNCHANGED <<runs, unheard>>
               \/ /\ desk[k].todo # <<>>
                  /\ LET n == Head(desk[k].todo) IN
                     /\ calls[n].tool # "none"
                     /\ IF desk[k].at = "settle" THEN Id(n) \notin desk[k].no ELSE ~Waits(k)
                     /\ runs' = [runs EXCEPT ![n] = @ + 1]
                     /\ unheard' = unheard \cup {n}
       ELSE /\ unheard' = unheard \cup Answered(desk[k].new)
            /\ UNCHANGED <<desk, runs>>
    /\ UNCHANGED <<calls, agreed>>

Init ==
    /\ calls = <<>> /\ page = [msgs |-> <<>>, pending |-> {}, waits |-> 0]
    /\ desk = [k \in Requests |-> [at |-> "none"]]
    /\ runs = [n \in CallIds |-> 0] /\ agreed = {} /\ unheard = {} /\ torn = FALSE

Turns == UNION {[1 .. m -> Tools] : m \in 0 .. MaxPerTurn}

Next == \E k \in Requests :
    \/ k \in Free /\ page.waits = 0 /\ \E stream, auto \in BOOLEAN :
        \/ Send(k, stream, auto)
        \/ \E ns \in {page.pending} \cup {{n} : n \in page.pending}, approve \in BOOLEAN :
              Confirm(k, ns, approve, stream, auto)
    \/ Open(k) \/ OpenFails(k) \/ Settle(k) \/ ThinkFails(k) \/ Call(k) \/ Round(k) \/ Break(k)
    \/ Thinks(k) /\ \E tools \in Turns, named \in BOOLEAN : Think(k, tools, named)

AgSpec == Init /\ [][Next]_agvars

-----------------------------------------------------------------------------
Given(n) == Id(n) > MaxPerTurn

TypeOK ==
    /\ Len(calls) <= MaxCalls /\ \A n \in DOMAIN calls : calls[n].tool \in Tools
    /\ page.pending \subseteq DOMAIN calls /\ page.waits \in 0 .. MaxRequests
    /\ \A k \in Requests : desk[k].at \in {"none", "start", "settle", "think", "calls", "over"}
    /\ agreed \cup unheard \subseteq CallIds /\ torn \in BOOLEAN

\* A call that changes something is run only if the user approved that call or let calls
\* run on their own: whatever broke in between, if its id is its own.  (A place for an id is
\* taken for the call in that place of a later message.)
AskedFirst ==
    \A n \in DOMAIN calls : runs[n] > 0 /\ calls[n].tool = "change" /\ Given(n) => n \in agreed

\* A call is run once, unless its result did not reach the page: then the page still asks
\* about it, and an approval runs it again.
RunOnce == \A n \in DOMAIN calls : runs[n] > 1 => n \in unheard

\* Between requests every call in the conversation has its answer or awaits its user's (the
\* providers refuse a conversation with unanswered calls), unless a stream broke or had no
\* tools for the calls confirmed, only some of the calls asked about were confirmed, or the id
\* is a place another answer has taken.
AllAnswered ==
    page.waits = 0 /\ ~torn =>
        \A n \in Asked(page.msgs) : n \in Answered(page.msgs) \/ n \in page.pending \/ ~Given(n)
=================================================================================
