----------------------------- MODULE LspServer -----------------------------
(***************************************************************************)
(* The language server of tools/lsp/server.mjs: how documents, the 150 ms   *)
(* pause, compiler processes and requests interleave on the event loop.     *)
(*                                                                         *)
(* A callback runs to its end, together with the promise continuations it   *)
(* makes ready; what the loop may put between two callbacks is a step of    *)
(* its own.  Every edit makes a new state object: the next of its document.   *)
(* The text of a document is named by the client's opening of it and the    *)
(* version the client gave it; a client numbers versions from 1 each time   *)
(* it opens a document.                                                     *)
(***************************************************************************)
EXTENDS Naturals, Sequences, FiniteSetsExt

CONSTANTS
    Docs,        \* document URIs
    Compilers,   \* values of the compilerPath setting
    Requests,    \* names of requests
    Kinds,       \* for each request the kinds it may be of, see Handlers
    NoDiag,      \* a document that shows no diagnostics
    NoDoc,       \* no document
    MaxStates,   \* bound: how many state objects each document goes through
    MaxOpens     \* bound: how often each document is opened

(* hover stands for every handler that answers from the analysis at hand;    *)
(* rename compiles the rewritten text, completion after a bare dot a          *)
(* repaired one, before they answer; symbols lists those of every document,   *)
(* and then of the files of the workspace.                                    *)
Handlers == {"hover", "rename", "completion", "symbols"}

ASSUME LspAssumption ==
    /\ IsFiniteSet(Docs)
    /\ Kinds \in [Requests -> SUBSET Handlers]
    /\ MaxStates \in [Docs -> Nat] /\ MaxOpens \in [Docs -> Nat]

VARIABLES
    compiler,    \* the compiler to run
    doc,         \* what the client has open: [open, opening, version]
    st,          \* st[d]: the state objects of document d, oldest first
    states,      \* states[d]: the index in st[d] of d's entry in the states map, 0 for none
    place,       \* place[d]: where that entry stands in the map, which keeps the order of insertion
    published,   \* the diagnostics the client shows for each document
    req          \* the requests

vars == <<compiler, doc, st, states, place, published, req>>

Text(d) == [opening |-> doc[d].opening, version |-> doc[d].version]

(* run is the state's promise: "none" before start, "running" while the      *)
(* compiler works, "exited" when the compiler had ended before the abort but  *)
(* its output is not delivered yet, then "done" with an analysis or "null".   *)
NewState(text) ==
    [text |-> text, timer |-> TRUE, aborted |-> FALSE, run |-> "none", by |-> compiler]

Init ==
    /\ compiler \in Compilers
    /\ doc = [d \in Docs |-> [open |-> FALSE, opening |-> 0, version |-> 0]]
    /\ st = [d \in Docs |-> <<>>]
    /\ states = [d \in Docs |-> 0]
    /\ place = [d \in Docs |-> 0]
    /\ published = [d \in Docs |-> NoDiag]
    /\ req = [q \in Requests |-> [phase |-> "unsent"]]

----------------------------------------------------------------------------
(* What becomes of a request when the promise it awaits is settled.  s is st  *)
(* by then, and map the states map.                                           *)

\* An error response or an empty result; which one it is matters to no property.
Refused == [phase |-> "done", answer |-> "none"]

Reply(r) ==
    IF r.kind = "symbols"
    THEN [phase |-> "done", answer |-> "ok", kind |-> r.kind, found |-> r.found, since |-> r.since]
    ELSE [phase |-> "done", answer |-> "ok", kind |-> r.kind, doc |-> r.doc, text |-> st[r.doc][r.sid].text]

\* onWorkspaceSymbol goes on in the live map, over the states that are analysed to the
\* next that it must wait for, or else to the files; a cancelled request stops at the next.
Iterated(r, s, map) ==
    LET ahead   == {d \in Docs : map[d] # 0 /\ place[d] > r.place}
        pending == {d \in ahead : s[d][map[d]].run \notin {"done", "null"}}
        next    == CHOOSE d \in pending : \A e \in pending : place[d] <= place[e]
        passed  == {d \in ahead : \A e \in pending : place[d] < place[e]}
        there   == [r EXCEPT !.found = @ \cup {<<d, map[d]>> : d \in {e \in passed : s[e][map[e]].run = "done"}}]
    IN  IF r.cancelled /\ ahead # {} THEN Refused
        ELSE IF pending = {} THEN [there EXCEPT !.phase = "second"]
        ELSE [there EXCEPT !.doc = next, !.sid = map[next], !.place = place[next]]

\* Fault: the analysis is used whatever has become of the document.
ResumedUnchecked(r, run, s, map) ==
    IF r.cancelled \/ run = "null" THEN Refused
    ELSE IF r.kind = "hover" THEN Reply(r)
    ELSE [r EXCEPT !.phase = "second"]

\* The rest of current, and of the handler up to its own compilation; or the loop of
\* onWorkspaceSymbol, which takes any analysis and leaves out a state without one.
Resumed(r, run, s, map) ==
    IF r.kind = "symbols"
    THEN Iterated(IF run = "done" THEN [r EXCEPT !.found = @ \cup {<<r.doc, r.sid>>}] ELSE r, s, map)
    ELSE IF r.cancelled \/ map[r.doc] # r.sid \/ run = "null" THEN Refused
    ELSE IF r.kind = "hover" THEN Reply(r)
    ELSE [r EXCEPT !.phase = "second"]

\* The requests once the promise of state n[d] has become run, for every d in D.
Settle(D, n, run, s, map) ==
    [q \in Requests |->
        IF req[q].phase = "waiting" /\ req[q].doc \in D /\ req[q].sid = n[req[q].doc]
        THEN Resumed(req[q], run, s, map) ELSE req[q]]

Started(s, c) == [s EXCEPT !.timer = FALSE, !.run = "running", !.by = c]

\* start: a request that comes to wait for a state has c work on it, if nothing does yet.
Awaited(s, rs, c) ==
    [d \in Docs |-> [n \in DOMAIN s[d] |->
        IF s[d][n].run = "none" /\ \E q \in Requests : rs[q].phase = "waiting" /\ rs[q].doc = d /\ rs[q].sid = n
        THEN Started(s[d][n], c) ELSE s[d][n]]]

----------------------------------------------------------------------------
(* Documents.                                                                 *)

RunningIn(D) == {d \in D : states[d] # 0 /\ st[d][states[d]].run = "running"}

\* clearTimeout and abort on a state: its compiler is killed and the promise rejected at
\* once, or has just ended by itself.
Stopped(s, killed) ==
    [s EXCEPT !.timer = FALSE, !.aborted = TRUE,
              !.run = IF @ # "running" THEN @ ELSE IF killed THEN "null" ELSE "exited"]

\* The same on d's state, if it has one.
Aborted(d, killed) ==
    IF states[d] = 0 THEN st[d] ELSE [st[d] EXCEPT ![states[d]] = Stopped(@, killed)]

\* Fault: the compiler that works on the previous text is left running.
ScheduleKeepsOld(D, text) ==
    /\ \A d \in D : Len(st[d]) < MaxStates[d]
    /\ st' = [d \in Docs |-> IF d \in D THEN Append(st[d], NewState(text[d])) ELSE st[d]]
    /\ states' = [d \in Docs |-> IF d \in D THEN Len(st[d]) + 1 ELSE states[d]]
    /\ UNCHANGED req

\* Fault: the promise of a killed compiler is never settled.
ScheduleForgetsWaiters(D, text) ==
    /\ \A d \in D : Len(st[d]) < MaxStates[d]
    /\ \E K \in SUBSET RunningIn(D) :
         st' = [d \in Docs |->
                  IF d \in D THEN Append(Aborted(d, d \in K), NewState(text[d])) ELSE st[d]]
    /\ states' = [d \in Docs |-> IF d \in D THEN Len(st[d]) + 1 ELSE states[d]]
    /\ UNCHANGED req

\* schedule, for every document of D.  What waited for an aborted state goes on after the
\* callback, and so with the compiler that is configured then.
Schedule(D, text) ==
    /\ \A d \in D : Len(st[d]) < MaxStates[d]
    /\ states' = [d \in Docs |-> IF d \in D THEN Len(st[d]) + 1 ELSE states[d]]
    /\ \E K \in SUBSET RunningIn(D) :
         \E s \in {[d \in Docs |->
                     IF d \in D THEN Append(Aborted(d, d \in K), NewState(text[d])) ELSE st[d]]} :
            /\ req' = Settle(K, states, "null", s, states')
            /\ st' = Awaited(s, req', compiler')

\* The client opens d, or edits it: both are a change of content to the server.
DidChangeContent(d, new) ==
    /\ doc' = [doc EXCEPT ![d] = new]
    /\ UNCHANGED <<compiler, published>>
    /\ Schedule({d}, [e \in {d} |-> [opening |-> new.opening, version |-> new.version]])

DidOpen(d) ==
    /\ ~ doc[d].open /\ doc[d].opening < MaxOpens[d]
    /\ DidChangeContent(d, [open |-> TRUE, opening |-> doc[d].opening + 1, version |-> 1])
    /\ place' = [place EXCEPT ![d] = 1 + Max({place[e] : e \in Docs})]

DidChange(d) ==
    /\ doc[d].open
    /\ DidChangeContent(d, [doc[d] EXCEPT !.version = @ + 1])
    /\ UNCHANGED place

DidClose(d) ==
    /\ doc[d].open
    /\ doc' = [doc EXCEPT ![d].open = FALSE]
    /\ states' = [states EXCEPT ![d] = 0]
    /\ \E K \in SUBSET RunningIn({d}) :
         \E s \in {[st EXCEPT ![d] = Aborted(d, d \in K)]} :
            /\ req' = Settle(K, states, "null", s, states')
            /\ st' = Awaited(s, req', compiler)
    /\ published' = [published EXCEPT ![d] = NoDiag]
    /\ UNCHANGED <<compiler, place>>

\* Fault: open documents keep the analysis of the old compiler.
ConfigKeepsStates(c) ==
    /\ compiler' = c
    /\ UNCHANGED <<doc, st, states, place, published, req>>

DidChangeConfiguration(c) ==
    /\ compiler' = c
    /\ LET D == {d \in Docs : doc[d].open} IN Schedule(D, [d \in D |-> Text(d)])
    /\ UNCHANGED <<doc, place, published>>

----------------------------------------------------------------------------
(* Compilers.                                                                 *)

TimerFires(d) ==
    /\ states[d] # 0 /\ st[d][states[d]].timer
    /\ st' = [st EXCEPT ![d][states[d]] = Started(@, compiler)]
    /\ UNCHANGED <<compiler, doc, states, place, published, req>>

\* Fault: the diagnostics are published whatever has become of the document.
PublishAnyway(d, n, ok) ==
    published' = [published EXCEPT ![d] = [text |-> st[d][n].text, by |-> st[d][n].by]]

\* An analysis, or why there is none, is published if the state is still in the map.
Publish(d, n, ok) ==
    published' =
        IF states[d] = n /\ (ok \/ ~ st[d][n].aborted)
        THEN [published EXCEPT ![d] = [text |-> st[d][n].text, by |-> st[d][n].by]]
        ELSE published

\* The compiler has ended, with an analysis, an error or a timeout.
CompileEnds(d, n, ok) ==
    LET run == IF ok THEN "done" ELSE "null" IN
    /\ st[d][n].run \in {"running", "exited"}
    /\ Publish(d, n, ok)
    /\ \E s \in {[st EXCEPT ![d][n].run = run]} :
         /\ req' = Settle({d}, [e \in {d} |-> n], run, s, states)
         /\ st' = Awaited(s, req', compiler)
    /\ UNCHANGED <<compiler, doc, states, place>>

----------------------------------------------------------------------------
(* Requests.                                                                  *)

\* A request for one document arrives: current starts the compiler now if the pause is
\* not over.
Arrival(kind, d) ==
    LET r   == [phase |-> "waiting", kind |-> kind, doc |-> d, sid |-> states[d], cancelled |-> FALSE]
        run == st[d][states[d]].run
    IN  IF states[d] = 0 THEN Refused
        ELSE IF run \in {"done", "null"} THEN Resumed(r, run, st, states) ELSE r

\* A request for the symbols of the workspace; since is the map it finds.
SymbolsArrival ==
    Iterated([phase |-> "waiting", kind |-> "symbols", doc |-> NoDoc, sid |-> 0, place |-> 0,
              cancelled |-> FALSE, found |-> {}, since |-> states], st, states)

Request(q, kind, d) ==
    /\ req[q].phase = "unsent"
    /\ req' = [req EXCEPT ![q] = IF kind = "symbols" THEN SymbolsArrival ELSE Arrival(kind, d)]
    /\ st' = Awaited(st, req', compiler)
    /\ UNCHANGED <<compiler, doc, states, place, published>>

Cancel(q) ==
    /\ req[q].phase \in {"waiting", "second"} /\ ~ req[q].cancelled
    /\ req' = [req EXCEPT ![q].cancelled = TRUE]
    /\ UNCHANGED <<compiler, doc, st, states, place, published>>

\* rename looks at the version of the document, completion at nothing.
Unchanged(r) ==
    r.kind = "rename" =>
        /\ states[r.doc] # 0
        /\ st[r.doc][states[r.doc]].text.version = st[r.doc][r.sid].text.version

\* The compilation of the rewritten or repaired text has ended; it may have failed, or
\* found that the rename breaks the program.  Or the last file of the workspace has been
\* read; a file that cannot be is passed over, and one that comes after the request was
\* cancelled ends it.
SecondEnds(q) ==
    LET r == req[q] IN
    /\ r.phase = "second"
    /\ \/ r.kind # "symbols" /\ req' = [req EXCEPT ![q] = Refused]
       \/ r.cancelled /\ req' = [req EXCEPT ![q] = Refused]
       \/ (r.kind = "symbols" \/ ~ r.cancelled) /\ Unchanged(r) /\ req' = [req EXCEPT ![q] = Reply(r)]
    /\ UNCHANGED <<compiler, doc, st, states, place, published>>

Next ==
    \/ \E d \in Docs : DidOpen(d) \/ DidChange(d) \/ DidClose(d) \/ TimerFires(d)
    \/ \E c \in Compilers : DidChangeConfiguration(c)
    \/ \E d \in Docs : \E n \in DOMAIN st[d], ok \in BOOLEAN : CompileEnds(d, n, ok)
    \/ \E q \in Requests : \E kind \in Kinds[q], d \in Docs : Request(q, kind, d)
    \/ \E q \in Requests : Cancel(q) \/ SecondEnds(q)

\* Timers fire, and compilers end: execFile gives each at most ten seconds.
Fairness ==
    /\ \A d \in Docs : WF_vars(TimerFires(d))
    /\ \A d \in Docs : \A n \in 1..MaxStates[d] :
          WF_vars(n \in DOMAIN st[d] /\ \E ok \in BOOLEAN : CompileEnds(d, n, ok))
    /\ \A q \in Requests : WF_vars(SecondEnds(q))

Spec == Init /\ [][Next]_vars

FairSpec == Spec /\ Fairness

----------------------------------------------------------------------------
(* Properties.                                                                *)

Runs == {"none", "running", "exited", "done", "null"}

Texts == [opening : Nat, version : Nat]

StateObjects == [text : Texts, timer : BOOLEAN, aborted : BOOLEAN, run : Runs, by : Compilers]

Shown == [text : Texts, by : Compilers]

Active == {"waiting", "second"}

OneDocRequests ==
    [phase : Active, kind : Handlers \ {"symbols"}, doc : Docs, sid : Nat, cancelled : BOOLEAN]

SymbolRequests ==
    [phase : Active, kind : {"symbols"}, doc : Docs \cup {NoDoc}, sid : Nat, place : Nat,
     cancelled : BOOLEAN, found : SUBSET (Docs \X Nat), since : [Docs -> Nat]]

OneDocAnswers ==
    [phase : {"done"}, answer : {"ok"}, kind : Handlers \ {"symbols"}, doc : Docs, text : Texts]

SymbolAnswers ==
    [phase : {"done"}, answer : {"ok"}, kind : {"symbols"},
     found : SUBSET (Docs \X Nat), since : [Docs -> Nat]]

RequestStates ==
    OneDocRequests \cup SymbolRequests \cup OneDocAnswers \cup SymbolAnswers
      \cup {Refused, [phase |-> "unsent"]}

\* Every variable keeps its type.
TypeOK ==
    /\ compiler \in Compilers
    /\ doc \in [Docs -> [open : BOOLEAN, opening : Nat, version : Nat]]
    /\ st \in [Docs -> Seq(StateObjects)]
    /\ states \in [Docs -> Nat] /\ place \in [Docs -> Nat]
    /\ published \in [Docs -> Shown \cup {NoDiag}]
    /\ req \in [Requests -> RequestStates]

\* Diagnostics are published only for the text the document has then, by the compiler
\* that is configured then.
DiagnosticsAreCurrent ==
    [][\A d \in Docs :
          published'[d] # published[d] /\ published'[d] # NoDiag =>
             /\ doc[d].open /\ published'[d].text = Text(d)
             /\ published'[d].by = compiler]_vars

\* tools/lsp/README.md:13: obsolete compiler processes are cancelled.  The one that
\* analyses a document works on the text and for the compiler the document has.
AnalysisIsOfCurrentText ==
    \A d \in Docs : \A n \in DOMAIN st[d] :
        st[d][n].run = "running" => n = states[d] /\ st[d][n].by = compiler

\* A request that is answered in this step, and not refused.
Answered(q) == req'[q] # req[q] /\ req'[q].phase = "done" /\ req'[q].answer = "ok"

\* tools/lsp/README.md:14: requests against stale snapshots are rejected.  What a request
\* is answered with was computed from the text the document has when the answer is sent.
NoStaleAnswer ==
    [][\A q \in Requests : Answered(q) /\ req'[q].kind # "symbols" =>
          doc[req'[q].doc].open /\ Text(req'[q].doc) = req'[q].text]_vars

Listed(found, since) ==
    /\ \A d \in Docs : since[d] # 0 /\ states[d] = since[d] /\ st[d][since[d]].run = "done"
                        => <<d, since[d]>> \in found
    /\ \A f \in found : f[2] >= since[f[1]]
    /\ \A f, g \in found : f[1] = g[1] /\ f # g =>
          st[f[1]][f[2]].text.opening # st[g[1]][g[2]].text.opening

\* What the server does guarantee: handlers that answer from the analysis they awaited
\* answer from the text the document has then, whatever happened while they waited; a
\* rename never carries a version that the document has moved on from.  The symbols of
\* the workspace are those of every document that has stayed as it was since the request
\* came, and of no text from before it, and a document that was not opened again is
\* listed once, although the map changes while the handler goes through it.
AnswersAreFresh ==
    [][\A q \in Requests : Answered(q) =>
          CASE req'[q].kind = "hover"  -> doc[req'[q].doc].open /\ Text(req'[q].doc) = req'[q].text
            [] req'[q].kind = "rename" -> /\ doc[req'[q].doc].open
                                         /\ doc[req'[q].doc].version = req'[q].text.version
            [] req'[q].kind = "symbols" -> Listed(req'[q].found, req'[q].since)
            [] OTHER                   -> TRUE]_vars

\* When the client pauses, an open document comes to show what the configured compiler
\* says of its text.
Diagnosed(d) ==
    published[d] # NoDiag /\ published[d].text = Text(d) /\ published[d].by = compiler

DiagnosticsCatchUp == \A d \in Docs : <>[](doc[d].open => Diagnosed(d))

\* Every request is answered.
RequestsAreAnswered ==
    \A q \in Requests : [](req[q].phase # "unsent" => <>(req[q].phase = "done"))
=============================================================================
