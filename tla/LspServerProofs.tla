-------------------------- MODULE LspServerProofs --------------------------
(***************************************************************************)
(* Proofs about the language server, for any number of documents, requests  *)
(* and compilers, and any sequence of edits: nothing stale is shown, and    *)
(* answers that are checked before they are sent are fresh.                 *)
(***************************************************************************)
EXTENDS LspServer, SequenceTheorems, FiniteSetTheorems, WellFoundedInduction, TLAPS

(* The states map holds the newest state of exactly the open documents, and *)
(* that state is for the text the client has.                               *)
MapOK ==
    \A d \in Docs :
        /\ states[d] = IF doc[d].open THEN Len(st[d]) ELSE 0
        /\ doc[d].open => /\ Len(st[d]) > 0 /\ place[d] > 0
                          /\ st[d][Len(st[d])].text = Text(d) /\ ~ st[d][Len(st[d])].aborted
        /\ \A n \in DOMAIN st[d] : st[d][n].text.opening <= doc[d].opening

(* Where each entry stands in the map tells the documents apart.            *)
PlacesDiffer == \A d, e \in Docs : place[d] > 0 /\ place[d] = place[e] => d = e

(* A state whose compiler works is in the map, and works with the compiler  *)
(* that is configured; one that was started has no timer any more.          *)
RunsAreCurrent(s, map, c) ==
    \A d \in Docs : \A n \in DOMAIN s[d] :
        /\ s[d][n].run = "running" => n = map[d] /\ s[d][n].by = c
        /\ s[d][n].run = "exited" => s[d][n].aborted
        /\ s[d][n].timer => s[d][n].run = "none"

(* Whoever waits, waits for a compiler that was started and not heard of.   *)
WaitsForRun(r, s) ==
    r.phase = "waiting" => /\ r.doc \in Docs /\ r.sid \in DOMAIN s[r.doc]
                           /\ s[r.doc][r.sid].run \in {"running", "exited"}

(* What a search of the workspace has found, or is about to find.           *)
Taken(r) == IF r.phase = "waiting" THEN r.found \cup {<<r.doc, r.sid>>} ELSE r.found

Opening(s, f) == s[f[1]][f[2]].text.opening

(* It lists states from after the request came, and none twice; what it has *)
(* yet to go through is newer than what it has found; and it has found or   *)
(* is yet to go through every document that stays.                          *)
Search(since, taken, ahead, s, map) ==
    /\ \A d \in Docs : since[d] <= Len(s[d])
    /\ \A f \in taken : f[1] \in Docs /\ f[2] \in DOMAIN s[f[1]] /\ f[2] >= since[f[1]]
    /\ \A f, g \in taken : f[1] = g[1] /\ f # g => Opening(s, f) # Opening(s, g)
    /\ \A f \in taken : f[1] \in ahead /\ map[f[1]] # 0 =>
          Opening(s, f) < s[f[1]][map[f[1]]].text.opening
    /\ \A d \in Docs : since[d] # 0 /\ map[d] = since[d] =>
          d \in ahead \/ <<d, since[d]>> \in taken \/ s[d][since[d]].run = "null"

Ahead(r, pl) == IF r.phase = "waiting" THEN {d \in Docs : pl[d] > r.place} ELSE {}

SearchOK(r, s, map, pl) == Search(r.since, Taken(r), Ahead(r, pl), s, map)

RequestsOK ==
    \A q \in Requests :
        /\ WaitsForRun(req[q], st)
        /\ req[q].phase = "second" => req[q].kind # "hover"
        /\ req[q] \in OneDocRequests => req[q].sid \in DOMAIN st[req[q].doc]
        /\ req[q] \in SymbolRequests => SearchOK(req[q], st, states, place)

IInv == TypeOK /\ MapOK /\ PlacesDiffer /\ RunsAreCurrent(st, states, compiler) /\ RequestsOK

-----------------------------------------------------------------------------
(* The search of the workspace.                                             *)

LEMMA StatesAreTyped ==
  ASSUME NEW s \in [Docs -> Seq(StateObjects)], NEW d \in Docs
  PROVE  /\ Len(s[d]) \in Nat /\ DOMAIN s[d] = 1..Len(s[d])
         /\ \A n \in DOMAIN s[d] : s[d][n] \in StateObjects /\ s[d][n].text.opening \in Nat
<1>1. s[d] \in Seq(StateObjects)
  OBVIOUS
<1>2. Len(s[d]) \in Nat /\ DOMAIN s[d] = 1..Len(s[d])
  BY <1>1, LenProperties
<1>3. \A n \in 1..Len(s[d]) : s[d][n] \in StateObjects
  BY <1>1, ElementOfSeq
<1>4. QED
  BY <1>2, <1>3 DEF StateObjects, Texts

(* What is added to the list lies ahead, and so is newer.                   *)
LEMMA SearchAdvances ==
  ASSUME NEW since \in [Docs -> Nat], NEW taken \in SUBSET (Docs \X Nat), NEW ahead \in SUBSET Docs,
         NEW s \in [Docs -> Seq(StateObjects)], NEW map \in [Docs -> Nat],
         \A d \in Docs : map[d] # 0 => map[d] = Len(s[d]),
         Search(since, taken, ahead, s, map),
         NEW added \in SUBSET ahead, \A d \in added : map[d] # 0,
         NEW left \in SUBSET (ahead \ added),
         \A d \in ahead : \/ d \in left \/ d \in added
                           \/ map[d] = 0 \/ s[d][map[d]].run = "null"
  PROVE  Search(since, taken \cup {<<d, map[d]>> : d \in added}, left, s, map)
<1> DEFINE more == taken \cup {<<d, map[d]>> : d \in added}
<1>1. \A f \in more : f \in taken \/ (f[1] \in added /\ f[2] = map[f[1]] /\ f = <<f[1], f[2]>>)
  OBVIOUS
<1>2. \A f \in taken : f = <<f[1], f[2]>> /\ f[1] \in Docs /\ f[2] \in Nat
  OBVIOUS
<1>3. \A d \in Docs : Len(s[d]) \in Nat /\ DOMAIN s[d] = 1..Len(s[d])
  BY LenProperties
<1>4. \A d \in added : map[d] \in DOMAIN s[d] /\ map[d] >= since[d]
  BY <1>3 DEF Search
<1>5. \A f \in taken : f[1] \in added => Opening(s, f) < s[f[1]][map[f[1]]].text.opening
  BY DEF Search
<1>6. \A d \in Docs : \A n \in DOMAIN s[d] : s[d][n].text.opening \in Nat
  BY StatesAreTyped
<1> HIDE DEF more
<1>7. \A f \in more : f[1] \in Docs /\ f[2] \in DOMAIN s[f[1]] /\ f[2] >= since[f[1]]
  BY <1>1, <1>4 DEF Search
<1>8. \A f, g \in more : f[1] = g[1] /\ f # g => Opening(s, f) # Opening(s, g)
  <2> SUFFICES ASSUME NEW f \in more, NEW g \in more, f[1] = g[1], f # g
               PROVE  Opening(s, f) # Opening(s, g)
    OBVIOUS
  <2>1. CASE f \in taken /\ g \in taken
    BY <2>1 DEF Search
  <2>2. CASE f \in taken /\ g \notin taken
    BY <1>1, <1>4, <1>5, <1>6, <1>7, <2>2 DEF Opening
  <2>3. CASE f \notin taken /\ g \in taken
    BY <1>1, <1>4, <1>5, <1>6, <1>7, <2>3 DEF Opening
  <2>4. CASE f \notin taken /\ g \notin taken
    BY <1>1, <2>4
  <2>5. QED
    BY <2>1, <2>2, <2>3, <2>4
<1>9. \A f \in more : f[1] \in left /\ map[f[1]] # 0 => Opening(s, f) < s[f[1]][map[f[1]]].text.opening
  BY <1>1 DEF Search
<1>10. \A d \in Docs : since[d] # 0 /\ map[d] = since[d] =>
          d \in left \/ <<d, since[d]>> \in more \/ s[d][since[d]].run = "null"
  BY DEF Search, more
<1>11. QED
  BY <1>7, <1>8, <1>9, <1>10 DEF Search, more

(* The states and the map after a callback, before the requests it woke go on. *)
Grown(s, map) ==
    /\ s \in [Docs -> Seq(StateObjects)] /\ map \in [Docs -> Nat]
    /\ \A d \in Docs :
          /\ Len(st[d]) <= Len(s[d])
          /\ \A n \in DOMAIN st[d] : /\ s[d][n].text = st[d][n].text
                                     /\ st[d][n].run = "null" => s[d][n].run = "null"
          /\ map[d] # 0 => map[d] = Len(s[d])
          /\ \/ map[d] = states[d] \/ map[d] = 0
             \/ /\ map[d] > Len(st[d])
                /\ \/ states[d] # 0 /\ s[d][map[d]].text.opening = st[d][states[d]].text.opening
                   \/ \A n \in DOMAIN st[d] : st[d][n].text.opening < s[d][map[d]].text.opening

(* A search that goes on waiting is as good afterwards.  Only a document    *)
(* that is opened changes its place.                                        *)
LEMMA SearchLasts ==
  ASSUME TypeOK, NEW since \in [Docs -> Nat], NEW taken \in SUBSET (Docs \X Nat),
         NEW ahead \in SUBSET Docs, NEW ahead2 \in SUBSET Docs, NEW s, NEW map,
         Grown(s, map), Search(since, taken, ahead, st, states),
         \A d \in Docs : states[d] # 0 => (d \in ahead <=> d \in ahead2),
         \A d \in Docs : states[d] \in 0..Len(st[d]),
         \A d \in Docs : states[d] = 0 /\ map[d] # 0 =>
            \A n \in DOMAIN st[d] : st[d][n].text.opening < s[d][map[d]].text.opening
  PROVE  Search(since, taken, ahead2, s, map)
<1>1. \A d \in Docs : /\ Len(st[d]) \in Nat /\ DOMAIN st[d] = 1..Len(st[d])
                      /\ Len(s[d]) \in Nat /\ DOMAIN s[d] = 1..Len(s[d])
                      /\ DOMAIN st[d] \subseteq DOMAIN s[d]
                      /\ states[d] \in Nat /\ map[d] \in Nat
  BY LenProperties DEF TypeOK, Grown
<1>2. \A f \in taken : /\ f[1] \in Docs /\ f[2] \in DOMAIN st[f[1]] /\ f[2] >= since[f[1]]
                      /\ Opening(s, f) = Opening(st, f)
  BY DEF Search, Grown, Opening
<1>3. \A d \in Docs : since[d] <= Len(s[d])
  <2>1. \A d \in Docs : since[d] <= Len(st[d]) /\ Len(st[d]) <= Len(s[d])
    BY DEF Search, Grown
  <2>2. QED
    BY <1>1, <2>1
<1>4. \A f \in taken : f[1] \in Docs /\ f[2] \in DOMAIN s[f[1]] /\ f[2] >= since[f[1]]
  BY <1>1, <1>2
<1>5. \A f, g \in taken : f[1] = g[1] /\ f # g => Opening(s, f) # Opening(s, g)
  BY <1>2 DEF Search
<1>6. ASSUME NEW f \in taken, f[1] \in ahead2, map[f[1]] # 0
      PROVE  Opening(s, f) < s[f[1]][map[f[1]]].text.opening
  <2> DEFINE d == f[1]
  <2>1. d \in Docs /\ f[2] \in DOMAIN st[d]
    BY <1>2
  <2>2. CASE states[d] = 0
    BY <1>2, <1>6, <2>1, <2>2 DEF Opening
  <2>3. CASE states[d] # 0
    <3>1. Opening(st, f) < st[d][states[d]].text.opening
      BY <1>6, <2>1, <2>3 DEF Search
    <3>2. states[d] \in DOMAIN st[d]
      BY <1>1, <2>1, <2>3
    <3>3. \/ s[d][map[d]].text.opening = st[d][states[d]].text.opening
          \/ \A n \in DOMAIN st[d] : st[d][n].text.opening < s[d][map[d]].text.opening
      <4>1. CASE map[d] = states[d]
        BY <2>1, <3>2, <4>1 DEF Grown
      <4>2. CASE map[d] # states[d]
        BY <1>6, <2>1, <4>2 DEF Grown
      <4>3. QED
        BY <4>1, <4>2
    <3>4. QED
      BY <1>2, <2>1, <3>1, <3>3 DEF Opening
  <2>4. QED
    BY <2>2, <2>3
<1>7. ASSUME NEW d \in Docs, since[d] # 0, map[d] = since[d]
      PROVE  d \in ahead2 \/ <<d, since[d]>> \in taken \/ s[d][since[d]].run = "null"
  <2>1. since[d] \in DOMAIN st[d]
    BY <1>1, <1>7 DEF Search
  <2>2. map[d] = states[d]
    BY <1>1, <1>7, <2>1 DEF Grown
  <2>3. QED
    BY <1>7, <2>1, <2>2 DEF Search, Grown
<1>8. QED
  BY <1>3, <1>4, <1>5, <1>6, <1>7 DEF Search

LEMMA NextPending ==
  ASSUME place \in [Docs -> Nat], NEW pending \in SUBSET Docs, pending # {}
  PROVE  \E d \in pending : \A e \in pending : place[d] <= place[e]
<1> DEFINE R == {p \in Nat \X Nat : p[1] < p[2]}
           T == {place[d] : d \in pending}
<1>1. IsWellFoundedOn(R, Nat)
  BY NatLessThanWellFounded DEF OpToRel
<1>2. \A x, y \in Nat : <<y, x>> \notin R => x <= y
  OBVIOUS
<1>3. T \subseteq Nat /\ T # {}
  OBVIOUS
<1> HIDE DEF R, T
<1>4. PICK x \in T : \A y \in T : ~(<<y, x>> \in R)
  BY <1>1, <1>3, WFMin
<1>5. \A y \in T : x <= y
  BY <1>2, <1>3, <1>4
<1>6. QED
  BY <1>4, <1>5 DEF T

(* How a search goes on once it need not wait for the state it was at.      *)
Searching(r, s, map) ==
    /\ r \in SymbolRequests /\ r.phase = "waiting"
    /\ Search(r.since, r.found, {d \in Docs : place[d] > r.place}, s, map)

SearchedOn(t, s, map) ==
    /\ t \in SymbolRequests \/ t = Refused
    /\ t \in SymbolRequests => SearchOK(t, s, map, place)
    /\ t.phase = "waiting" => /\ t.doc \in Docs /\ t.sid = map[t.doc] /\ map[t.doc] # 0
                             /\ s[t.doc][t.sid].run \notin {"done", "null"}

LEMMA IteratedIsOK ==
  ASSUME TypeOK, PlacesDiffer, NEW s \in [Docs -> Seq(StateObjects)], NEW map \in [Docs -> Nat],
         \A d \in Docs : map[d] # 0 => map[d] = Len(s[d]),
         NEW r, Searching(r, s, map),
         NEW t, t = Iterated(r, s, map)
  PROVE  SearchedOn(t, s, map)
<1> DEFINE beyond  == {d \in Docs : place[d] > r.place}
           ahead   == {d \in Docs : map[d] # 0 /\ place[d] > r.place}
           pending == {d \in ahead : s[d][map[d]].run \notin {"done", "null"}}
           next    == CHOOSE d \in pending : \A e \in pending : place[d] <= place[e]
           passed  == {d \in ahead : \A e \in pending : place[d] < place[e]}
           ended   == {e \in passed : s[e][map[e]].run = "done"}
           there   == [r EXCEPT !.found = @ \cup {<<d, map[d]>> : d \in ended}]
<1>0. /\ r \in SymbolRequests /\ r.phase = "waiting"
      /\ Search(r.since, r.found, {d \in Docs : place[d] > r.place}, s, map)
  BY DEF Searching
<1> USE <1>0
<1>1. t = IF r.cancelled /\ ahead # {} THEN Refused
          ELSE IF pending = {} THEN [there EXCEPT !.phase = "second"]
          ELSE [there EXCEPT !.doc = next, !.sid = map[next], !.place = place[next]]
  BY DEF Iterated
<1>2. /\ r.since \in [Docs -> Nat] /\ r.found \in SUBSET (Docs \X Nat) /\ r.place \in Nat
      /\ place \in [Docs -> Nat]
  BY DEF SymbolRequests, TypeOK
<1>3. /\ there \in SymbolRequests /\ there.phase = "waiting" /\ there.since = r.since
      /\ there.found = r.found \cup {<<d, map[d]>> : d \in ended}
  <2> DEFINE F == r.found \cup {<<d, map[d]>> : d \in ended}
  <2>1. F \in SUBSET (Docs \X Nat)
    BY <1>2
  <2>2. there = [r EXCEPT !.found = F]
    OBVIOUS
  <2> HIDE DEF F, there
  <2>3. there \in SymbolRequests /\ there.phase = "waiting" /\ there.since = r.since /\ there.found = F
    BY <2>1, <2>2 DEF SymbolRequests
  <2>4. QED
    BY <2>3 DEF F
<1>4. CASE r.cancelled /\ ahead # {}
  <2>1. t = Refused
    BY <1>1, <1>4
  <2>2. t.phase = "done" /\ Refused \notin SymbolRequests
    BY <2>1 DEF Refused, SymbolRequests, Active
  <2>3. QED
    BY <2>1, <2>2 DEF SearchedOn
<1>5. CASE ~(r.cancelled /\ ahead # {}) /\ pending = {}
  <2>1. t = [there EXCEPT !.phase = "second"]
    BY <1>1, <1>5
  <2>2. t \in SymbolRequests /\ t.phase = "second" /\ t.since = r.since /\ t.found = there.found
    <3> HIDE DEF there
    <3>1. QED
      BY <1>3, <2>1 DEF SymbolRequests, Active
  <2>3. ended \in SUBSET beyond /\ \A d \in ended : map[d] # 0
    OBVIOUS
  <2>4. \A d \in beyond : \/ d \in {} \/ d \in ended \/ map[d] = 0 \/ s[d][map[d]].run = "null"
    BY <1>5
  <2>5. Search(r.since, r.found \cup {<<d, map[d]>> : d \in ended}, {}, s, map)
    <3> HIDE DEF ended, beyond
    <3>1. beyond \in SUBSET Docs /\ {} \in SUBSET (beyond \ ended)
      BY DEF beyond
    <3>2. Search(r.since, r.found, beyond, s, map)
      BY DEF beyond
    <3>3. QED
      BY <1>2, <2>3, <2>4, <3>1, <3>2, SearchAdvances
  <2>6. QED
    BY <1>3, <2>2, <2>5 DEF SearchedOn, SearchOK, Taken, Ahead
<1>6. CASE ~(r.cancelled /\ ahead # {}) /\ pending # {}
  <2>1. t = [there EXCEPT !.doc = next, !.sid = map[next], !.place = place[next]]
    BY <1>1, <1>6
  <2>2. next \in pending /\ \A e \in pending : place[next] <= place[e]
    <3>1. pending \in SUBSET Docs
      OBVIOUS
    <3> HIDE DEF pending
    <3>2. \E d \in pending : \A e \in pending : place[d] <= place[e]
      BY <1>2, <1>6, <3>1, NextPending
    <3>3. QED
      BY <3>2
  <2>3. /\ next \in Docs /\ map[next] # 0 /\ map[next] \in Nat /\ place[next] \in Nat
        /\ place[next] > r.place /\ s[next][map[next]].run \notin {"done", "null"}
    BY <1>2, <2>2
  <2> HIDE DEF next
  <2>4. /\ t \in SymbolRequests /\ t.phase = "waiting" /\ t.since = r.since /\ t.found = there.found
        /\ t.doc = next /\ t.sid = map[next] /\ t.place = place[next]
    <3> HIDE DEF there
    <3>1. QED
      BY <1>3, <2>1, <2>3 DEF SymbolRequests, Active
  <2> DEFINE added == ended \cup {next}
             left  == {d \in Docs : place[d] > place[next]}
  <2>5. added \in SUBSET beyond /\ \A d \in added : map[d] # 0
    BY <2>3
  <2>6. left \in SUBSET (beyond \ added)
    <3>1. \A d \in ended : place[d] < place[next]
      BY <2>2
    <3>2. QED
      BY <1>2, <2>3, <3>1
  <2>7. ASSUME NEW d \in beyond
        PROVE  d \in left \/ d \in added \/ map[d] = 0 \/ s[d][map[d]].run = "null"
    <3>1. CASE place[d] > place[next]
      BY <3>1
    <3>2. CASE place[d] = place[next]
      BY <1>2, <2>3, <3>2 DEF PlacesDiffer
    <3>3. CASE place[d] < place[next] /\ map[d] # 0
      <4>1. d \notin pending
        BY <1>2, <2>2, <2>3, <3>3
      <4>2. d \in passed
        BY <1>2, <2>2, <2>3, <3>3
      <4>3. QED
        BY <3>3, <4>1, <4>2
    <3>4. QED
      BY <1>2, <2>3, <3>1, <3>2, <3>3
  <2>8. Search(r.since, r.found \cup {<<d, map[d]>> : d \in added}, left, s, map)
    <3>1. beyond \in SUBSET Docs
      OBVIOUS
    <3> HIDE DEF added, left, beyond
    <3>2. Search(r.since, r.found, beyond, s, map)
      BY DEF beyond
    <3>3. QED
      BY <1>2, <2>5, <2>6, <2>7, <3>1, <3>2, SearchAdvances
  <2>9. Taken(t) = r.found \cup {<<d, map[d]>> : d \in added} /\ Ahead(t, place) = left
    <3> HIDE DEF ended
    <3>1. Taken(t) = (r.found \cup {<<d, map[d]>> : d \in ended}) \cup {<<next, map[next]>>}
      BY <1>3, <2>4 DEF Taken
    <3>2. QED
      BY <2>4, <3>1 DEF Ahead
  <2>10. SearchOK(t, s, map, place)
    BY <2>4, <2>8, <2>9 DEF SearchOK
  <2>11. QED
    BY <2>3, <2>4, <2>10 DEF SearchedOn
<1>7. QED
  BY <1>4, <1>5, <1>6

-----------------------------------------------------------------------------
(* Requests that go on.                                                     *)

LEMMA RequestForms ==
  ASSUME NEW t \in RequestStates
  PROVE  /\ t.phase \in Active <=> t \in OneDocRequests \cup SymbolRequests
         /\ t \in OneDocRequests => t \notin SymbolRequests /\ t.kind # "symbols"
         /\ t \in SymbolRequests => t.kind = "symbols"
         /\ t.phase = "done" /\ t.answer = "ok" => t \in OneDocAnswers \cup SymbolAnswers
  BY DEF RequestStates, OneDocRequests, SymbolRequests, OneDocAnswers, SymbolAnswers, Refused, Active

(* What a request that has gone on is, in the states s and the map: it has  *)
(* ended, or waits for a state in the map whose compiler has not ended.     *)
GoesOn(t, s, map) ==
    /\ t \in RequestStates
    /\ t.phase = "second" => t.kind # "hover"
    /\ t \in OneDocRequests => t.sid \in DOMAIN s[t.doc]
    /\ t \in SymbolRequests => SearchOK(t, s, map, place)
    /\ t.phase = "waiting" => /\ t.doc \in Docs /\ t.sid = map[t.doc] /\ map[t.doc] # 0
                             /\ s[t.doc][t.sid].run \notin {"done", "null"}

LEMMA RefusedGoesOn ==
  ASSUME NEW s, NEW map
  PROVE  GoesOn(Refused, s, map) /\ ~(Refused.phase = "done" /\ Refused.answer = "ok")
  BY DEF GoesOn, Refused, RequestStates, OneDocRequests, SymbolRequests, Active

(* A state without an analysis need not be listed.                          *)
LEMMA SearchDrops ==
  ASSUME NEW since, NEW found, NEW d0 \in Docs, NEW n0, NEW ahead, NEW s, NEW map,
         Search(since, found \cup {<<d0, n0>>}, ahead, s, map), s[d0][n0].run = "null"
  PROVE  Search(since, found, ahead, s, map)
<1>1. \A d \in Docs : since[d] # 0 /\ map[d] = since[d] =>
          d \in ahead \/ <<d, since[d]>> \in found \/ s[d][since[d]].run = "null"
  BY DEF Search
<1>2. QED
  BY <1>1 DEF Search

LEMMA ResumedGoesOn ==
  ASSUME TypeOK, PlacesDiffer, NEW s \in [Docs -> Seq(StateObjects)], NEW map \in [Docs -> Nat],
         \A d \in Docs : map[d] # 0 => map[d] = Len(s[d]),
         NEW r \in OneDocRequests \cup SymbolRequests, r.phase = "waiting",
         r.doc \in Docs, r.sid \in DOMAIN st[r.doc], r.sid \in DOMAIN s[r.doc],
         NEW run \in {"done", "null"}, s[r.doc][r.sid].run = run,
         r \in SymbolRequests => SearchOK(r, s, map, place),
         NEW t, t = Resumed(r, run, s, map)
  PROVE  /\ GoesOn(t, s, map)
         /\ t.phase = "done" /\ t.answer = "ok" =>
               t.kind = "hover" /\ t.doc = r.doc /\ map[r.doc] = r.sid /\ t.text = st[r.doc][r.sid].text
<1>1. CASE r \in SymbolRequests
  <2> DEFINE beyond == {d \in Docs : place[d] > r.place}
             u == IF run = "done" THEN [r EXCEPT !.found = @ \cup {<<r.doc, r.sid>>}] ELSE r
  <2>1. t = Iterated(u, s, map)
    <3>1. r.kind = "symbols"
      BY <1>1 DEF SymbolRequests
    <3>2. Resumed(r, run, s, map) = Iterated(u, s, map)
      BY <3>1 DEF Resumed
    <3>3. QED
      BY <3>2
  <2>2. Search(r.since, r.found \cup {<<r.doc, r.sid>>}, beyond, s, map)
    BY <1>1 DEF SearchOK, Taken, Ahead
  <2>3. /\ u \in SymbolRequests /\ u.phase = "waiting"
        /\ Search(u.since, u.found, {d \in Docs : place[d] > u.place}, s, map)
    <3>1. CASE run = "done"
      <4> DEFINE F == r.found \cup {<<r.doc, r.sid>>}
      <4>1. r.sid \in Nat /\ F \in SUBSET (Docs \X Nat) /\ u = [r EXCEPT !.found = F]
        BY <1>1, <3>1 DEF SymbolRequests
      <4> HIDE DEF F, u
      <4>2. /\ u \in SymbolRequests /\ u.phase = "waiting" /\ u.since = r.since /\ u.found = F
            /\ u.place = r.place
        BY <1>1, <4>1 DEF SymbolRequests
      <4>3. QED
        BY <2>2, <4>2 DEF F
    <3>2. CASE run = "null"
      <4>1. u = r
        BY <3>2
      <4> HIDE DEF u
      <4>2. Search(r.since, r.found, beyond, s, map)
        <5> HIDE DEF beyond
        <5>1. QED
          BY <2>2, <3>2, SearchDrops
      <4>3. QED
        BY <1>1, <4>1, <4>2
    <3>3. QED
      BY <3>1, <3>2
  <2> HIDE DEF u, beyond
  <2>4. /\ t \in SymbolRequests \/ t = Refused
        /\ t \in SymbolRequests => SearchOK(t, s, map, place)
        /\ t.phase = "waiting" => /\ t.doc \in Docs /\ t.sid = map[t.doc] /\ map[t.doc] # 0
                                 /\ s[t.doc][t.sid].run \notin {"done", "null"}
    <3>1. Searching(u, s, map)
      BY <2>3 DEF Searching
    <3>2. SearchedOn(t, s, map)
      BY <2>1, <3>1, IteratedIsOK
    <3>3. QED
      BY <3>2 DEF SearchedOn
  <2>5. t \in RequestStates
    BY <2>4 DEF RequestStates
  <2>6. t \notin OneDocRequests
    BY <2>4 DEF OneDocRequests, SymbolRequests, Refused
  <2>7. ~(t.phase = "done" /\ t.answer = "ok")
    BY <2>4 DEF SymbolRequests, Active, Refused
  <2>8. t.phase = "second" => t.kind # "hover"
    BY <2>4 DEF SymbolRequests, Refused
  <2>9. QED
    BY <2>4, <2>5, <2>6, <2>7, <2>8 DEF GoesOn
<1>2. CASE r \in OneDocRequests
  <2>1. r.kind # "symbols" /\ r.kind \in Handlers
    BY <1>2 DEF OneDocRequests
  <2>2. \/ t = Refused
        \/ r.kind = "hover" /\ map[r.doc] = r.sid /\ t = Reply(r)
        \/ r.kind # "hover" /\ t = [r EXCEPT !.phase = "second"]
    BY <2>1 DEF Resumed
  <2>3. CASE t = Refused
    BY <2>3, RefusedGoesOn
  <2>4. CASE r.kind = "hover" /\ map[r.doc] = r.sid /\ t = Reply(r)
    <3>1. t = [phase |-> "done", answer |-> "ok", kind |-> r.kind, doc |-> r.doc,
               text |-> st[r.doc][r.sid].text]
      BY <2>1, <2>4 DEF Reply
    <3>2. st[r.doc][r.sid].text \in Texts
      BY StatesAreTyped DEF TypeOK, StateObjects
    <3>3. t \in OneDocAnswers
      BY <2>1, <3>1, <3>2 DEF OneDocAnswers
    <3>4. t \in RequestStates
      BY <3>3 DEF RequestStates
    <3>5. t.phase = "done" /\ t.kind = r.kind /\ t.doc = r.doc /\ t.text = st[r.doc][r.sid].text
      BY <3>1
    <3>6. t \notin OneDocRequests /\ t \notin SymbolRequests
      BY <3>5 DEF OneDocRequests, SymbolRequests, Active
    <3>7. GoesOn(t, s, map)
      BY <3>4, <3>5, <3>6 DEF GoesOn
    <3>8. QED
      BY <2>4, <3>5, <3>7
  <2>5. CASE r.kind # "hover" /\ t = [r EXCEPT !.phase = "second"]
    <3>1. /\ t \in OneDocRequests /\ t.phase = "second" /\ t.doc = r.doc /\ t.sid = r.sid
          /\ t.kind = r.kind
      BY <1>2, <2>5 DEF OneDocRequests, Active
    <3>2. t \notin SymbolRequests
      BY <3>1 DEF OneDocRequests, SymbolRequests
    <3>3. QED
      BY <2>5, <3>1, <3>2 DEF GoesOn, RequestStates
  <2>6. QED
    BY <2>2, <2>3, <2>4, <2>5
<1>3. QED
  BY <1>1, <1>2

(* The same, with what it asks of the request in one piece.                 *)
Ready(r, run, s, map) ==
    /\ s \in [Docs -> Seq(StateObjects)] /\ map \in [Docs -> Nat]
    /\ \A d \in Docs : map[d] # 0 => map[d] = Len(s[d])
    /\ r \in OneDocRequests \cup SymbolRequests /\ r.phase = "waiting"
    /\ r.doc \in Docs /\ r.sid \in DOMAIN st[r.doc] /\ r.sid \in DOMAIN s[r.doc]
    /\ run \in {"done", "null"} /\ s[r.doc][r.sid].run = run
    /\ r \in SymbolRequests => SearchOK(r, s, map, place)

LEMMA ReadyGoesOn ==
  ASSUME TypeOK, PlacesDiffer, NEW r, NEW run, NEW s, NEW map, Ready(r, run, s, map),
         NEW t, t = Resumed(r, run, s, map)
  PROVE  /\ GoesOn(t, s, map)
         /\ t.phase = "done" /\ t.answer = "ok" =>
               t.kind = "hover" /\ t.doc = r.doc /\ map[r.doc] = r.sid /\ t.text = st[r.doc][r.sid].text
  BY ResumedGoesOn DEF Ready

-----------------------------------------------------------------------------
(* A callback and the continuations it makes ready.                         *)

LEMMA FunctionIsSeq ==
  ASSUME NEW S, NEW n \in Nat, NEW f \in [1..n -> S]
  PROVE  f \in Seq(S) /\ Len(f) = n
<1>1. f \in UNION {[1..m -> S] : m \in Nat}
  OBVIOUS
<1>2. f \in Seq(S)
  BY <1>1, SeqDef, Zenon
<1>3. Len(f) \in Nat /\ 1..Len(f) = 1..n
  BY <1>2, LenProperties
<1>4. QED
  BY <1>2, <1>3

Waited(rs, d, n) == \E q \in Requests : rs[q].phase = "waiting" /\ rs[q].doc = d /\ rs[q].sid = n

LEMMA AwaitedStarts ==
  ASSUME NEW s \in [Docs -> Seq(StateObjects)], NEW rs, NEW c \in Compilers, NEW t, t = Awaited(s, rs, c)
  PROVE  /\ t \in [Docs -> Seq(StateObjects)]
         /\ \A d \in Docs : Len(t[d]) = Len(s[d]) /\ DOMAIN t[d] = DOMAIN s[d]
         /\ \A d \in Docs : \A n \in DOMAIN s[d] :
               t[d][n] = IF s[d][n].run = "none" /\ Waited(rs, d, n) THEN Started(s[d][n], c) ELSE s[d][n]
<1>1. \A d \in Docs : t[d] = [n \in DOMAIN s[d] |->
                               IF s[d][n].run = "none" /\ Waited(rs, d, n) THEN Started(s[d][n], c) ELSE s[d][n]]
  BY DEF Awaited, Waited
<1>2. ASSUME NEW d \in Docs
      PROVE  t[d] \in Seq(StateObjects) /\ Len(t[d]) = Len(s[d]) /\ DOMAIN t[d] = DOMAIN s[d]
  <2>1. /\ Len(s[d]) \in Nat /\ DOMAIN s[d] = 1..Len(s[d])
        /\ \A n \in DOMAIN s[d] : s[d][n] \in StateObjects
    BY StatesAreTyped
  <2>2. \A n \in DOMAIN s[d] : Started(s[d][n], c) \in StateObjects
    BY <2>1 DEF Started, StateObjects, Runs
  <2> DEFINE u(n) == IF s[d][n].run = "none" /\ Waited(rs, d, n) THEN Started(s[d][n], c) ELSE s[d][n]
  <2>3. \A n \in 1..Len(s[d]) : u(n) \in StateObjects
    BY <2>1, <2>2
  <2>4. t[d] = [n \in 1..Len(s[d]) |-> u(n)]
    BY <1>1, <2>1
  <2> HIDE DEF u
  <2>5. t[d] \in [1..Len(s[d]) -> StateObjects]
    BY <2>3, <2>4
  <2>6. t[d] \in Seq(StateObjects) /\ Len(t[d]) = Len(s[d])
    BY <2>1, <2>5, FunctionIsSeq
  <2>7. QED
    BY <2>1, <2>5, <2>6
<1>3. t \in [Docs -> Seq(StateObjects)]
  <2>1. t = [d \in Docs |-> t[d]]
    BY DEF Awaited
  <2>2. QED
    BY <1>2, <2>1
<1>4. ASSUME NEW d \in Docs, NEW n \in DOMAIN s[d]
      PROVE  t[d][n] = IF s[d][n].run = "none" /\ Waited(rs, d, n) THEN Started(s[d][n], c) ELSE s[d][n]
  BY <1>1
<1>5. QED
  BY <1>2, <1>3, <1>4

LEMMA SearchAwaited ==
  ASSUME NEW s \in [Docs -> Seq(StateObjects)], NEW rs, NEW c \in Compilers,
         NEW since \in [Docs -> Nat], NEW taken \in SUBSET (Docs \X Nat), NEW ahead, NEW map \in [Docs -> Nat],
         \A d \in Docs : map[d] \in 0..Len(s[d]), Search(since, taken, ahead, s, map)
  PROVE  Search(since, taken, ahead, Awaited(s, rs, c), map)
<1> DEFINE t == Awaited(s, rs, c)
<1>1. /\ \A d \in Docs : Len(t[d]) = Len(s[d]) /\ DOMAIN t[d] = DOMAIN s[d]
      /\ \A d \in Docs : \A n \in DOMAIN s[d] :
            t[d][n] = IF s[d][n].run = "none" /\ Waited(rs, d, n) THEN Started(s[d][n], c) ELSE s[d][n]
  BY AwaitedStarts
<1> HIDE DEF t
<1>2. \A d \in Docs : \A n \in DOMAIN s[d] :
         t[d][n].text = s[d][n].text /\ (s[d][n].run = "null" => t[d][n].run = "null")
  BY <1>1, StatesAreTyped DEF Started, StateObjects
<1>3. \A d \in Docs : Len(s[d]) \in Nat /\ DOMAIN s[d] = 1..Len(s[d]) /\ map[d] \in Nat
  BY StatesAreTyped
<1>4. \A f \in taken : f[1] \in Docs /\ f[2] \in DOMAIN s[f[1]] /\ Opening(t, f) = Opening(s, f)
  BY <1>2 DEF Search, Opening
<1>5. \A d \in Docs : map[d] # 0 => map[d] \in DOMAIN s[d]
  BY <1>3
<1>6. \A f \in taken : f[1] \in ahead /\ map[f[1]] # 0 => Opening(t, f) < t[f[1]][map[f[1]]].text.opening
  BY <1>2, <1>4, <1>5 DEF Search
<1>7. \A d \in Docs : since[d] # 0 /\ map[d] = since[d] =>
          d \in ahead \/ <<d, since[d]>> \in taken \/ t[d][since[d]].run = "null"
  BY <1>2, <1>5 DEF Search
<1>8. Search(since, taken, ahead, t, map)
  BY <1>1, <1>4, <1>6, <1>7 DEF Search
<1>9. QED
  BY <1>8 DEF t

(* What a callback leaves, with s for the states before the requests that   *)
(* were woken have compilers started.                                       *)
Called(s) ==
    /\ Grown(s, states')
    /\ RunsAreCurrent(s, states', compiler')
    /\ PlacesDiffer'
    /\ compiler' \in Compilers
    /\ doc' \in [Docs -> [open : BOOLEAN, opening : Nat, version : Nat]]
    /\ place' \in [Docs -> Nat]
    /\ published' \in [Docs -> Shown \cup {NoDiag}]
    /\ \A d \in Docs :
          /\ states'[d] = IF doc'[d].open THEN Len(s[d]) ELSE 0
          /\ doc'[d].open => /\ Len(s[d]) > 0 /\ place'[d] > 0
                             /\ s[d][Len(s[d])].text = Text(d)' /\ ~ s[d][Len(s[d])].aborted
          /\ \A n \in DOMAIN s[d] : s[d][n].text.opening <= doc'[d].opening
          /\ states[d] # 0 => place'[d] = place[d]
          /\ states[d] = 0 /\ states'[d] # 0 =>
                \A n \in DOMAIN st[d] : st[d][n].text.opening < s[d][states'[d]].text.opening

(* A request that stays as it was, and one that goes on.                    *)
Stays(q, s) == req'[q] = req[q] /\ WaitsForRun(req[q], s)

Woken(q, s) == GoesOn(req'[q], s, states') /\ place' = place

LEMMA CallbackKeeps ==
  ASSUME IInv, NEW s, Called(s), req' \in [Requests -> RequestStates],
         \A q \in Requests : Stays(q, s) \/ Woken(q, s),
         st' = Awaited(s, req', compiler')
  PROVE  IInv'
<1>1. /\ s \in [Docs -> Seq(StateObjects)] /\ compiler' \in Compilers /\ states' \in [Docs -> Nat]
      /\ place' \in [Docs -> Nat] /\ place \in [Docs -> Nat] /\ states \in [Docs -> Nat]
  BY DEF Called, Grown, IInv, TypeOK
<1>2. /\ st' \in [Docs -> Seq(StateObjects)]
      /\ \A d \in Docs : Len(st'[d]) = Len(s[d]) /\ DOMAIN st'[d] = DOMAIN s[d]
      /\ \A d \in Docs : \A n \in DOMAIN s[d] :
            st'[d][n] = IF s[d][n].run = "none" /\ Waited(req', d, n) THEN Started(s[d][n], compiler')
                        ELSE s[d][n]
  <2> DEFINE rs == req'
             c  == compiler'
             t  == st'
  <2>1. s \in [Docs -> Seq(StateObjects)] /\ c \in Compilers /\ t = Awaited(s, rs, c)
    BY <1>1
  <2> HIDE DEF rs, c, t
  <2>2. /\ t \in [Docs -> Seq(StateObjects)]
        /\ \A d \in Docs : Len(t[d]) = Len(s[d]) /\ DOMAIN t[d] = DOMAIN s[d]
        /\ \A d \in Docs : \A n \in DOMAIN s[d] :
              t[d][n] = IF s[d][n].run = "none" /\ Waited(rs, d, n) THEN Started(s[d][n], c) ELSE s[d][n]
    BY <2>1, AwaitedStarts
  <2>3. QED
    BY <2>2 DEF rs, c, t
<1>3. \A d \in Docs : /\ Len(s[d]) \in Nat /\ DOMAIN s[d] = 1..Len(s[d])
                      /\ \A n \in DOMAIN s[d] : s[d][n] \in StateObjects /\ s[d][n].run \in Runs
  BY <1>1, StatesAreTyped DEF StateObjects
<1>4. \A d \in Docs : /\ Len(st[d]) \in Nat /\ DOMAIN st[d] = 1..Len(st[d])
                      /\ Len(st[d]) <= Len(s[d]) /\ DOMAIN st[d] \subseteq DOMAIN s[d]
  BY <1>3, StatesAreTyped DEF IInv, TypeOK, Called, Grown
<1>5. \A d \in Docs : \A n \in DOMAIN s[d] :
         /\ st'[d][n].text = s[d][n].text /\ st'[d][n].aborted = s[d][n].aborted
  BY <1>2, <1>3 DEF Started, StateObjects
<1>6. TypeOK'
  BY <1>1, <1>2 DEF TypeOK, Called
<1>7. MapOK'
  <2> SUFFICES ASSUME NEW d \in Docs
               PROVE  /\ states'[d] = IF doc'[d].open THEN Len(st'[d]) ELSE 0
                      /\ doc'[d].open => /\ Len(st'[d]) > 0 /\ place'[d] > 0
                                         /\ st'[d][Len(st'[d])].text = Text(d)'
                                         /\ ~ st'[d][Len(st'[d])].aborted
                      /\ \A n \in DOMAIN st'[d] : st'[d][n].text.opening <= doc'[d].opening
    BY DEF MapOK, Text
  <2>1. Len(st'[d]) = Len(s[d]) /\ (Len(s[d]) > 0 => Len(s[d]) \in DOMAIN s[d])
    BY <1>2, <1>3
  <2>2. /\ states'[d] = IF doc'[d].open THEN Len(s[d]) ELSE 0
        /\ doc'[d].open => /\ Len(s[d]) > 0 /\ place'[d] > 0
                           /\ s[d][Len(s[d])].text = Text(d)' /\ ~ s[d][Len(s[d])].aborted
        /\ \A n \in DOMAIN s[d] : s[d][n].text.opening <= doc'[d].opening
    BY DEF Called
  <2>3. doc'[d].open => /\ st'[d][Len(st'[d])].text = s[d][Len(s[d])].text
                        /\ st'[d][Len(st'[d])].aborted = s[d][Len(s[d])].aborted
    BY <1>5, <2>1, <2>2
  <2>4. \A n \in DOMAIN st'[d] : st'[d][n].text.opening <= doc'[d].opening
    BY <1>2, <1>5, <2>2
  <2>5. QED
    BY <2>1, <2>2, <2>3, <2>4
<1>8. \A q \in Requests : req'[q].phase = "waiting" =>
         /\ req'[q].doc \in Docs /\ req'[q].sid \in DOMAIN s[req'[q].doc]
         /\ \/ s[req'[q].doc][req'[q].sid].run \in {"running", "exited"}
            \/ /\ req'[q].sid = states'[req'[q].doc]
               /\ s[req'[q].doc][req'[q].sid].run \notin {"done", "null"}
  <2> SUFFICES ASSUME NEW q \in Requests, req'[q].phase = "waiting"
               PROVE  /\ req'[q].doc \in Docs /\ req'[q].sid \in DOMAIN s[req'[q].doc]
                      /\ \/ s[req'[q].doc][req'[q].sid].run \in {"running", "exited"}
                         \/ /\ req'[q].sid = states'[req'[q].doc]
                            /\ s[req'[q].doc][req'[q].sid].run \notin {"done", "null"}
    OBVIOUS
  <2>1. CASE Stays(q, s)
    BY <2>1 DEF Stays, WaitsForRun
  <2>2. CASE Woken(q, s)
    <3>1. /\ req'[q].doc \in Docs /\ req'[q].sid = states'[req'[q].doc] /\ states'[req'[q].doc] # 0
          /\ s[req'[q].doc][req'[q].sid].run \notin {"done", "null"}
      BY <2>2 DEF Woken, GoesOn
    <3>2. states'[req'[q].doc] = Len(s[req'[q].doc])
      BY <3>1 DEF Called, Grown
    <3>3. QED
      BY <1>3, <3>1, <3>2
  <2>3. QED
    BY <2>1, <2>2
<1>9. RunsAreCurrent(st', states', compiler')
  <2> SUFFICES ASSUME NEW d \in Docs, NEW n \in DOMAIN s[d]
               PROVE  /\ st'[d][n].run = "running" => n = states'[d] /\ st'[d][n].by = compiler'
                      /\ st'[d][n].run = "exited" => st'[d][n].aborted
                      /\ st'[d][n].timer => st'[d][n].run = "none"
    BY <1>2 DEF RunsAreCurrent
  <2>1. CASE s[d][n].run = "none" /\ Waited(req', d, n)
    <3>1. st'[d][n] = Started(s[d][n], compiler') /\ s[d][n] \in StateObjects
      BY <1>2, <1>3, <2>1
    <3>2. st'[d][n].run = "running" /\ st'[d][n].by = compiler' /\ ~ st'[d][n].timer
      BY <3>1 DEF Started, StateObjects
    <3>3. n = states'[d]
      BY <1>8, <2>1 DEF Waited
    <3>4. QED
      BY <3>2, <3>3
  <2>2. CASE ~(s[d][n].run = "none" /\ Waited(req', d, n))
    BY <1>2, <2>2 DEF Called, RunsAreCurrent
  <2>3. QED
    BY <2>1, <2>2
<1>10. ASSUME NEW q \in Requests PROVE WaitsForRun(req'[q], st')
  <2> SUFFICES ASSUME req'[q].phase = "waiting"
               PROVE  /\ req'[q].doc \in Docs /\ req'[q].sid \in DOMAIN st'[req'[q].doc]
                      /\ st'[req'[q].doc][req'[q].sid].run \in {"running", "exited"}
    BY DEF WaitsForRun
  <2> DEFINE d == req'[q].doc
             n == req'[q].sid
  <2>1. /\ d \in Docs /\ n \in DOMAIN s[d] /\ Waited(req', d, n) /\ s[d][n] \in StateObjects
        /\ s[d][n].run \in {"none", "running", "exited"}
    BY <1>3, <1>8 DEF Waited, Runs
  <2> HIDE DEF d, n
  <2>2. n \in DOMAIN st'[d] /\ st'[d][n].run \in {"running", "exited"}
    BY <1>2, <2>1 DEF Started, StateObjects
  <2>3. QED
    BY <2>1, <2>2 DEF d, n
<1>11. ASSUME NEW q \in Requests, req'[q] \in OneDocRequests
       PROVE  req'[q].sid \in DOMAIN st'[req'[q].doc]
  <2>1. req'[q].doc \in Docs
    BY <1>11 DEF OneDocRequests
  <2>2. req'[q].sid \in DOMAIN s[req'[q].doc]
    BY <1>4, <1>11, <2>1 DEF Stays, Woken, GoesOn, IInv, RequestsOK
  <2>3. QED
    BY <1>2, <2>1, <2>2
<1>12. ASSUME NEW q \in Requests, req'[q] \in SymbolRequests
       PROVE  SearchOK(req'[q], st', states', place')
  <2> DEFINE r == req'[q]
  <2>1. /\ r.since \in [Docs -> Nat] /\ r.found \in SUBSET (Docs \X Nat) /\ r.sid \in Nat
        /\ r.place \in Nat
    BY <1>12 DEF SymbolRequests
  <2>2. Taken(r) \in SUBSET (Docs \X Nat)
    <3>1. r.phase = "waiting" => r.doc \in Docs
      BY <1>8
    <3>2. QED
      BY <2>1, <3>1 DEF Taken
  <2>3. Search(r.since, Taken(r), Ahead(r, place'), s, states')
    <3>1. CASE Stays(q, s)
      <4>1. r = req[q] /\ Search(r.since, Taken(r), Ahead(r, place), st, states)
        BY <1>12, <3>1 DEF Stays, IInv, RequestsOK, SearchOK
      <4>2. \A d \in Docs : states[d] # 0 => (d \in Ahead(r, place) <=> d \in Ahead(r, place'))
        BY DEF Called, Ahead
      <4>3. Ahead(r, place) \in SUBSET Docs /\ Ahead(r, place') \in SUBSET Docs
        BY DEF Ahead
      <4>4. \A d \in Docs : states[d] \in 0..Len(st[d])
        BY <1>4 DEF IInv, MapOK
      <4>5. /\ Grown(s, states') /\ TypeOK
            /\ \A d \in Docs : states[d] = 0 /\ states'[d] # 0 =>
                  \A n \in DOMAIN st[d] : st[d][n].text.opening < s[d][states'[d]].text.opening
        BY DEF Called, IInv
      <4> HIDE DEF r
      <4>6. QED
        BY <2>1, <2>2, <4>1, <4>2, <4>3, <4>4, <4>5, SearchLasts
    <3>2. CASE Woken(q, s)
      <4>1. GoesOn(r, s, states') /\ place' = place
        BY <3>2 DEF Woken
      <4>2. SearchOK(r, s, states', place)
        BY <1>12, <4>1 DEF GoesOn
      <4>3. SearchOK(r, s, states', place')
        BY <4>1, <4>2
      <4>4. QED
        BY <4>3 DEF SearchOK
    <3>3. QED
      BY <3>1, <3>2
  <2>4. \A d \in Docs : states'[d] \in 0..Len(s[d])
    <3>1. \A d \in Docs : states'[d] = Len(s[d]) \/ states'[d] = 0
      BY DEF Called
    <3>2. QED
      BY <1>3, <3>1
  <2> HIDE DEF r
  <2>5. Search(r.since, Taken(r), Ahead(r, place'), st', states')
    BY <1>1, <2>1, <2>2, <2>3, <2>4, SearchAwaited
  <2>6. QED
    BY <2>5 DEF SearchOK, r
<1>13. \A q \in Requests : req'[q].phase = "second" => req'[q].kind # "hover"
  BY DEF Stays, Woken, GoesOn, IInv, RequestsOK
<1>14. RequestsOK'
  BY <1>10, <1>11, <1>12, <1>13 DEF RequestsOK
<1>15. QED
  BY <1>6, <1>7, <1>9, <1>14 DEF IInv, Called

(* The states in the map.                                                   *)
LEMMA Newest ==
  ASSUME IInv, NEW d \in Docs
  PROVE  /\ states[d] \in Nat /\ states[d] \in 0..Len(st[d])
         /\ states[d] # 0 => /\ doc[d].open /\ states[d] = Len(st[d]) /\ states[d] \in DOMAIN st[d]
                             /\ st[d][states[d]].text = Text(d) /\ place[d] > 0
                             /\ ~ st[d][states[d]].aborted /\ st[d][states[d]].run # "exited"
<1>1. states[d] \in Nat /\ Len(st[d]) \in Nat /\ DOMAIN st[d] = 1..Len(st[d])
  BY StatesAreTyped DEF IInv, TypeOK
<1>2. /\ states[d] = IF doc[d].open THEN Len(st[d]) ELSE 0
      /\ doc[d].open => /\ Len(st[d]) > 0 /\ place[d] > 0
                        /\ st[d][Len(st[d])].text = Text(d) /\ ~ st[d][Len(st[d])].aborted
  BY DEF IInv, MapOK
<1>3. states[d] \in DOMAIN st[d] /\ st[d][states[d]].run = "exited" => st[d][states[d]].aborted
  BY DEF IInv, RunsAreCurrent
<1>4. QED
  BY <1>1, <1>2, <1>3

(* What an answer from the analysis that was awaited says is so.            *)
HoverIsFresh(q) ==
    req'[q].kind = "hover" /\ doc[req'[q].doc].open /\ Text(req'[q].doc) = req'[q].text

(* The promise of state n[d] has become run, for every d in D, and no other.  *)
Settled(D, n, run, s) ==
    /\ \A d \in D : n[d] \in DOMAIN st[d] => s[d][n[d]].run = run
    /\ \A d \in Docs : \A k \in DOMAIN st[d] :
          st[d][k].run \in {"running", "exited"} /\ ~(d \in D /\ k = n[d])
            => s[d][k].run \in {"running", "exited"}

(* The continuations of the promises a callback settles.                    *)
LEMMA SettleKeeps ==
  ASSUME IInv, NEW s, Called(s), NEW D \in SUBSET Docs, NEW n, NEW run \in {"done", "null"},
         Settled(D, n, run, s), D = {} \/ place' = place,
         req' = Settle(D, n, run, s, states'), st' = Awaited(s, req', compiler')
  PROVE  IInv' /\ \A q \in Requests : Answered(q) => HoverIsFresh(q)
<1>1. /\ TypeOK /\ PlacesDiffer /\ s \in [Docs -> Seq(StateObjects)] /\ states' \in [Docs -> Nat]
      /\ \A d \in Docs : states'[d] # 0 => states'[d] = Len(s[d])
  BY DEF IInv, Called, Grown
<1>2. \A d \in Docs : DOMAIN st[d] \subseteq DOMAIN s[d]
  <2>1. \A d \in Docs : Len(st[d]) \in Nat /\ DOMAIN st[d] = 1..Len(st[d])
                        /\ Len(s[d]) \in Nat /\ DOMAIN s[d] = 1..Len(s[d]) /\ Len(st[d]) <= Len(s[d])
    BY <1>1, StatesAreTyped DEF TypeOK, Called, Grown
  <2>2. QED
    BY <2>1
<1>3. ASSUME NEW q \in Requests
      PROVE  /\ Stays(q, s) \/ Woken(q, s)
             /\ req'[q] \in RequestStates
             /\ Answered(q) => HoverIsFresh(q)
  <2> DEFINE r == req[q]
  <2>1. /\ r \in RequestStates /\ WaitsForRun(r, st)
        /\ r \in SymbolRequests => Search(r.since, Taken(r), Ahead(r, place), st, states)
    BY DEF IInv, TypeOK, RequestsOK, SearchOK
  <2>2. req'[q] = IF r.phase = "waiting" /\ r.doc \in D /\ r.sid = n[r.doc]
                  THEN Resumed(r, run, s, states') ELSE r
    BY DEF Settle
  <2>3. CASE r.phase = "waiting" /\ r.doc \in D /\ r.sid = n[r.doc]
    <3>1. r \in OneDocRequests \cup SymbolRequests
      BY <2>1, <2>3, RequestForms DEF Active
    <3>2. /\ r.doc \in Docs /\ r.sid \in DOMAIN st[r.doc] /\ r.sid \in DOMAIN s[r.doc]
          /\ s[r.doc][r.sid].run = run /\ place' = place
      BY <1>2, <2>1, <2>3 DEF WaitsForRun, Settled
    <3>3. ASSUME r \in SymbolRequests PROVE SearchOK(r, s, states', place)
      <4>1. /\ r.since \in [Docs -> Nat] /\ r.found \in SUBSET (Docs \X Nat) /\ r.sid \in Nat
        BY <3>3 DEF SymbolRequests
      <4>2. Taken(r) \in SUBSET (Docs \X Nat) /\ Ahead(r, place) \in SUBSET Docs
        BY <2>3, <3>2, <4>1 DEF Taken, Ahead
      <4>3. /\ Grown(s, states')
            /\ \A d \in Docs : states[d] = 0 /\ states'[d] # 0 =>
                  \A k \in DOMAIN st[d] : st[d][k].text.opening < s[d][states'[d]].text.opening
        BY DEF Called
      <4>4. \A d \in Docs : states[d] \in 0..Len(st[d])
        BY Newest
      <4>5. Search(r.since, Taken(r), Ahead(r, place), st, states)
        BY <2>1, <3>3
      <4> HIDE DEF r
      <4>6. Search(r.since, Taken(r), Ahead(r, place), s, states')
        BY <1>1, <4>1, <4>2, <4>3, <4>4, <4>5, SearchLasts
      <4>7. QED
        BY <4>6 DEF SearchOK
    <3>4. /\ GoesOn(req'[q], s, states')
          /\ req'[q].phase = "done" /\ req'[q].answer = "ok" =>
                /\ req'[q].kind = "hover" /\ req'[q].doc = r.doc /\ states'[r.doc] = r.sid
                /\ req'[q].text = st[r.doc][r.sid].text
      <4> DEFINE map == states'
                 t   == req'[q]
      <4>1. /\ map \in [Docs -> Nat] /\ \A d \in Docs : map[d] # 0 => map[d] = Len(s[d])
            /\ t = Resumed(r, run, s, map)
            /\ r \in SymbolRequests => SearchOK(r, s, map, place)
        BY <1>1, <2>2, <2>3, <3>3
      <4>2. r.phase = "waiting"
        BY <2>3
      <4> HIDE DEF map, t, r
      <4>3. /\ TypeOK /\ PlacesDiffer /\ s \in [Docs -> Seq(StateObjects)]
            /\ r.doc \in Docs /\ r.sid \in DOMAIN st[r.doc] /\ r.sid \in DOMAIN s[r.doc]
            /\ s[r.doc][r.sid].run = run
        BY <1>1, <3>2
      <4> DEFINE Goes(u) ==
                   /\ GoesOn(u, s, map)
                   /\ u.phase = "done" /\ u.answer = "ok" =>
                        /\ u.kind = "hover" /\ u.doc = r.doc /\ map[r.doc] = r.sid
                        /\ u.text = st[r.doc][r.sid].text
      <4>4. Ready(r, run, s, map)
        BY <3>1, <4>1, <4>2, <4>3 DEF Ready
      <4>5. Goes(t)
        BY <4>1, <4>3, <4>4, ReadyGoesOn
      <4>6. QED
        BY <4>5 DEF map, t
    <3>5. ASSUME Answered(q) PROVE HoverIsFresh(q)
      <4>1. /\ req'[q].kind = "hover" /\ req'[q].doc = r.doc /\ states'[r.doc] = r.sid
            /\ req'[q].text = st[r.doc][r.sid].text
        BY <3>4, <3>5 DEF Answered
      <4>2. /\ Len(st[r.doc]) \in Nat /\ DOMAIN st[r.doc] = 1..Len(st[r.doc])
            /\ states[r.doc] \in Nat
        BY <1>1, <3>2, StatesAreTyped DEF TypeOK
      <4>3. states[r.doc] = r.sid /\ states[r.doc] # 0
        BY <3>2, <4>1, <4>2 DEF Called, Grown
      <4>4. doc[r.doc].open /\ st[r.doc][r.sid].text = Text(r.doc)
        BY <3>2, <4>3, Newest
      <4>5. QED
        BY <4>1, <4>4 DEF HoverIsFresh
    <3>6. QED
      BY <3>2, <3>4, <3>5 DEF Woken, GoesOn
  <2>4. CASE ~(r.phase = "waiting" /\ r.doc \in D /\ r.sid = n[r.doc])
    <3>1. req'[q] = req[q]
      BY <2>2, <2>4
    <3>2. WaitsForRun(r, s)
      BY <1>2, <2>1, <2>4 DEF WaitsForRun, Settled
    <3>3. QED
      BY <2>1, <3>1, <3>2 DEF Stays, Answered
  <2>5. QED
    BY <2>3, <2>4
<1>4. req' \in [Requests -> RequestStates]
  BY <1>3 DEF Settle
<1>5. QED
  BY <1>3, <1>4, CallbackKeeps

-----------------------------------------------------------------------------
(* Documents.                                                               *)

(* What clearTimeout and abort leave of a document's states.                *)
LEMMA AbortedLeaves ==
  ASSUME IInv, NEW d \in Docs, NEW killed \in BOOLEAN,
         killed => states[d] # 0 /\ st[d][states[d]].run = "running",
         NEW a, a = Aborted(d, killed)
  PROVE  /\ a \in Seq(StateObjects) /\ Len(a) = Len(st[d]) /\ DOMAIN a = DOMAIN st[d]
         /\ \A n \in DOMAIN st[d] :
               /\ a[n].text = st[d][n].text /\ a[n].run # "running"
               /\ a[n].run = "exited" => a[n].aborted
               /\ a[n].timer => a[n].run = "none"
               /\ st[d][n].run = "null" => a[n].run = "null"
               /\ st[d][n].run \in {"running", "exited"} /\ ~(killed /\ n = states[d])
                     => a[n].run \in {"running", "exited"}
         /\ killed => a[states[d]].run = "null"
<1>1. /\ st[d] \in Seq(StateObjects) /\ Len(st[d]) \in Nat /\ DOMAIN st[d] = 1..Len(st[d])
      /\ \A n \in DOMAIN st[d] : st[d][n] \in StateObjects
  BY StatesAreTyped DEF IInv, TypeOK
<1>2. \A n \in DOMAIN st[d] : /\ st[d][n].run = "running" => n = states[d]
                              /\ st[d][n].run = "exited" => st[d][n].aborted
                              /\ st[d][n].timer => st[d][n].run = "none"
  BY DEF IInv, RunsAreCurrent
<1>3. CASE states[d] = 0
  <2>1. a = st[d]
    BY <1>3 DEF Aborted
  <2>2. \A n \in DOMAIN st[d] : st[d][n].run # "running"
    BY <1>1, <1>2, <1>3
  <2>3. QED
    BY <1>1, <1>2, <1>3, <2>1, <2>2
<1>4. CASE states[d] # 0
  <2> DEFINE m == states[d]
             o == Stopped(st[d][m], killed)
  <2>1. m \in DOMAIN st[d]
    BY <1>4, Newest
  <2>2. a = [st[d] EXCEPT ![m] = o]
    BY <1>4 DEF Aborted
  <2>3. /\ o \in StateObjects /\ o.text = st[d][m].text /\ o.run # "running" /\ o.aborted /\ ~ o.timer
        /\ st[d][m].run = "null" => o.run = "null"
        /\ st[d][m].run \in {"running", "exited"} /\ ~ killed => o.run \in {"running", "exited"}
        /\ killed => o.run = "null"
    <3>1. st[d][m] \in StateObjects
      BY <1>1, <2>1
    <3>2. QED
      BY <1>4, <3>1 DEF StateObjects, Runs, Stopped
  <2> HIDE DEF o
  <2>4. /\ a \in Seq(StateObjects) /\ Len(a) = Len(st[d])
        /\ \A n \in 1..Len(st[d]) : a[n] = IF n = m THEN o ELSE st[d][n]
    BY <1>1, <2>1, <2>2, <2>3, ExceptSeq
  <2>5. DOMAIN a = DOMAIN st[d]
    BY <2>2
  <2>6. QED
    BY <1>1, <1>2, <2>1, <2>3, <2>4, <2>5
<1>5. QED
  BY <1>3, <1>4

LEMMA AppendedState ==
  ASSUME NEW a \in Seq(StateObjects), NEW o \in StateObjects, NEW b, b = Append(a, o)
  PROVE  /\ b \in Seq(StateObjects) /\ Len(b) = Len(a) + 1 /\ b[Len(b)] = o
         /\ \A n \in DOMAIN a : b[n] = a[n]
         /\ \A n \in DOMAIN b : n \in DOMAIN a \/ n = Len(b)
<1>1. Len(a) \in Nat /\ DOMAIN a = 1..Len(a)
  BY LenProperties
<1>2. b \in Seq(StateObjects) /\ Len(b) = Len(a) + 1 /\ b[Len(a) + 1] = o /\ \A n \in 1..Len(a) : b[n] = a[n]
  BY AppendProperties
<1>3. DOMAIN b = 1..Len(b)
  BY <1>2, LenProperties
<1>4. QED
  BY <1>1, <1>2, <1>3

(* What the callers of schedule change with it.                             *)
Scheduling(D, text) ==
    /\ compiler' \in Compilers
    /\ compiler' = compiler \/ \A d \in Docs : doc[d].open => d \in D
    /\ doc' \in [Docs -> [open : BOOLEAN, opening : Nat, version : Nat]]
    /\ place' \in [Docs -> Nat] /\ PlacesDiffer' /\ published' = published
    /\ \A d \in D : /\ text[d] \in Texts /\ text[d] = Text(d)' /\ doc'[d].open /\ place'[d] > 0
                    /\ \/ states[d] = 0 /\ doc[d].opening < text[d].opening
                       \/ states[d] # 0 /\ doc[d].opening = text[d].opening /\ place'[d] = place[d]
    /\ \A d \in Docs \ D : doc'[d] = doc[d] /\ place'[d] = place[d]
    /\ place' = place \/ \A d \in D : states[d] = 0

LEMMA ScheduleKeeps ==
  ASSUME IInv, NEW D \in SUBSET Docs, NEW text, Schedule(D, text), Scheduling(D, text)
  PROVE  IInv' /\ \A q \in Requests : Answered(q) => HoverIsFresh(q)
<1>0. PICK K \in SUBSET RunningIn(D) :
        \E s : /\ s = [d \in Docs |->
                        IF d \in D THEN Append(Aborted(d, d \in K), NewState(text[d])) ELSE st[d]]
              /\ req' = Settle(K, states, "null", s, states')
              /\ st' = Awaited(s, req', compiler')
  BY DEF Schedule
<1>1. PICK s : /\ s = [d \in Docs |->
                        IF d \in D THEN Append(Aborted(d, d \in K), NewState(text[d])) ELSE st[d]]
               /\ req' = Settle(K, states, "null", s, states')
               /\ st' = Awaited(s, req', compiler')
  BY <1>0
<1>2. K \in SUBSET D /\ \A d \in K : states[d] # 0 /\ st[d][states[d]].run = "running"
  BY <1>1 DEF RunningIn
<1>3. \A d \in Docs : states'[d] = IF d \in D THEN Len(st[d]) + 1 ELSE states[d]
  BY DEF Schedule
<1>4. \A d \in Docs : /\ Len(st[d]) \in Nat /\ DOMAIN st[d] = 1..Len(st[d])
                      /\ st[d] \in Seq(StateObjects) /\ doc[d].opening \in Nat
                      /\ \A n \in DOMAIN st[d] : st[d][n] \in StateObjects
  BY StatesAreTyped DEF IInv, TypeOK
<1>5. ASSUME NEW d \in D
      PROVE  /\ s[d] \in Seq(StateObjects) /\ Len(s[d]) = Len(st[d]) + 1
             /\ s[d][Len(s[d])].text = text[d] /\ ~ s[d][Len(s[d])].aborted
             /\ s[d][Len(s[d])].run = "none"
             /\ \A n \in DOMAIN s[d] : n \in DOMAIN st[d] \/ n = Len(s[d])
             /\ \A n \in DOMAIN st[d] :
                   /\ s[d][n].text = st[d][n].text /\ s[d][n].run # "running"
                   /\ s[d][n].run = "exited" => s[d][n].aborted
                   /\ s[d][n].timer => s[d][n].run = "none"
                   /\ st[d][n].run = "null" => s[d][n].run = "null"
                   /\ st[d][n].run \in {"running", "exited"} /\ ~(d \in K /\ n = states[d])
                         => s[d][n].run \in {"running", "exited"}
             /\ d \in K => s[d][states[d]].run = "null"
  <2> DEFINE a == Aborted(d, d \in K)
             o == NewState(text[d])
  <2>1. d \in Docs /\ (d \in K => states[d] # 0 /\ st[d][states[d]].run = "running" /\ states[d] \in DOMAIN st[d])
    BY <1>2, Newest
  <2>2. /\ a \in Seq(StateObjects) /\ Len(a) = Len(st[d]) /\ DOMAIN a = DOMAIN st[d]
        /\ \A n \in DOMAIN st[d] :
              /\ a[n].text = st[d][n].text /\ a[n].run # "running"
              /\ a[n].run = "exited" => a[n].aborted
              /\ a[n].timer => a[n].run = "none"
              /\ st[d][n].run = "null" => a[n].run = "null"
              /\ st[d][n].run \in {"running", "exited"} /\ ~(d \in K /\ n = states[d])
                    => a[n].run \in {"running", "exited"}
        /\ d \in K => a[states[d]].run = "null"
    <3> DEFINE killed == d \in K
    <3>1. /\ killed \in BOOLEAN /\ a = Aborted(d, killed)
          /\ killed => states[d] # 0 /\ st[d][states[d]].run = "running"
      BY <2>1
    <3> HIDE DEF killed, a
    <3>2. /\ a \in Seq(StateObjects) /\ Len(a) = Len(st[d]) /\ DOMAIN a = DOMAIN st[d]
          /\ \A n \in DOMAIN st[d] :
                /\ a[n].text = st[d][n].text /\ a[n].run # "running"
                /\ a[n].run = "exited" => a[n].aborted
                /\ a[n].timer => a[n].run = "none"
                /\ st[d][n].run = "null" => a[n].run = "null"
                /\ st[d][n].run \in {"running", "exited"} /\ ~(killed /\ n = states[d])
                      => a[n].run \in {"running", "exited"}
          /\ killed => a[states[d]].run = "null"
      BY <2>1, <3>1, AbortedLeaves
    <3>3. QED
      BY <3>2 DEF killed
  <2>3. o \in StateObjects /\ o.text = text[d] /\ ~ o.aborted /\ o.run = "none"
    BY DEF NewState, StateObjects, Runs, IInv, TypeOK, Scheduling
  <2>4. s[d] = Append(a, o)
    BY <1>1, <2>1
  <2> HIDE DEF a, o
  <2>5. /\ s[d] \in Seq(StateObjects) /\ Len(s[d]) = Len(a) + 1 /\ s[d][Len(s[d])] = o
        /\ \A n \in DOMAIN a : s[d][n] = a[n]
        /\ \A n \in DOMAIN s[d] : n \in DOMAIN a \/ n = Len(s[d])
    BY <2>2, <2>3, <2>4, AppendedState
  <2>6. QED
    BY <2>1, <2>2, <2>3, <2>5
<1>6. \A d \in Docs \ D : s[d] = st[d]
  BY <1>1
<1>7. \A d \in Docs : s[d] \in Seq(StateObjects) /\ Len(s[d]) \in Nat /\ DOMAIN s[d] = 1..Len(s[d])
  BY <1>4, <1>5, <1>6, LenProperties
<1>8. s \in [Docs -> Seq(StateObjects)] /\ states' \in [Docs -> Nat]
  <2>1. states' = [d \in Docs |-> IF d \in D THEN Len(st[d]) + 1 ELSE states[d]]
    BY DEF Schedule
  <2>2. \A d \in Docs : states'[d] \in Nat
    BY <1>3, <1>4, Newest
  <2>3. QED
    BY <1>1, <1>7, <2>1, <2>2
<1>9. Grown(s, states')
  <2> SUFFICES ASSUME NEW d \in Docs
               PROVE  /\ Len(st[d]) <= Len(s[d])
                      /\ \A n \in DOMAIN st[d] : /\ s[d][n].text = st[d][n].text
                                                 /\ st[d][n].run = "null" => s[d][n].run = "null"
                      /\ states'[d] # 0 => states'[d] = Len(s[d])
                      /\ \/ states'[d] = states[d] \/ states'[d] = 0
                         \/ /\ states'[d] > Len(st[d])
                            /\ \/ states[d] # 0 /\ s[d][states'[d]].text.opening = st[d][states[d]].text.opening
                               \/ \A n \in DOMAIN st[d] : st[d][n].text.opening < s[d][states'[d]].text.opening
    BY <1>8 DEF Grown
  <2>1. CASE d \in D
    <3>1. states'[d] = Len(st[d]) + 1 /\ states'[d] = Len(s[d])
      BY <1>3, <1>5, <2>1
    <3>2. CASE states[d] # 0
      <4>1. st[d][states[d]].text = Text(d) /\ Text(d).opening = doc[d].opening
        BY <3>2, Newest DEF Text
      <4>2. s[d][states'[d]].text.opening = doc[d].opening
        BY <1>5, <2>1, <3>1, <3>2 DEF Scheduling
      <4>3. QED
        BY <1>4, <1>5, <2>1, <3>1, <3>2, <4>1, <4>2
    <3>3. CASE states[d] = 0
      <4>1. \A n \in DOMAIN st[d] : st[d][n].text.opening <= doc[d].opening /\ st[d][n].text.opening \in Nat
        BY StatesAreTyped DEF IInv, TypeOK, MapOK
      <4>2. doc[d].opening < text[d].opening /\ text[d].opening \in Nat
        BY <2>1, <3>3 DEF Scheduling, Texts
      <4>3. s[d][states'[d]].text = text[d]
        BY <1>5, <2>1, <3>1
      <4>4. doc[d].opening \in Nat
        BY <1>4
      <4>5. \A n \in DOMAIN st[d] : st[d][n].text.opening < text[d].opening
        BY <4>1, <4>2, <4>4
      <4>6. \A n \in DOMAIN st[d] : st[d][n].text.opening < s[d][states'[d]].text.opening
        BY <4>3, <4>5
      <4>7. QED
        BY <1>4, <1>5, <2>1, <3>1, <4>6
    <3>4. QED
      BY <3>2, <3>3
  <2>2. CASE d \notin D
    BY <1>3, <1>4, <1>6, <2>2, Newest
  <2>3. QED
    BY <2>1, <2>2
<1>10. RunsAreCurrent(s, states', compiler')
  <2> SUFFICES ASSUME NEW d \in Docs, NEW n \in DOMAIN s[d]
               PROVE  /\ s[d][n].run = "running" => n = states'[d] /\ s[d][n].by = compiler'
                      /\ s[d][n].run = "exited" => s[d][n].aborted
                      /\ s[d][n].timer => s[d][n].run = "none"
    BY DEF RunsAreCurrent
  <2>1. CASE d \in D
    BY <1>5, <2>1
  <2>2. CASE d \notin D
    <3>1. /\ s[d][n].run = "running" => n = states[d] /\ s[d][n].by = compiler
          /\ s[d][n].run = "exited" => s[d][n].aborted
          /\ s[d][n].timer => s[d][n].run = "none"
      BY <1>6, <2>2 DEF IInv, RunsAreCurrent
    <3>2. states'[d] = states[d] /\ n \in DOMAIN st[d] /\ n # 0
      BY <1>3, <1>4, <1>6, <2>2
    <3>3. s[d][n].run = "running" => compiler' = compiler
      BY <2>2, <3>1, <3>2, Newest DEF Scheduling
    <3>4. QED
      BY <3>1, <3>2, <3>3
  <2>3. QED
    BY <2>1, <2>2
<1>11. ASSUME NEW d \in Docs
       PROVE  /\ states'[d] = IF doc'[d].open THEN Len(s[d]) ELSE 0
              /\ doc'[d].open => /\ Len(s[d]) > 0 /\ place'[d] > 0
                                 /\ s[d][Len(s[d])].text = Text(d)' /\ ~ s[d][Len(s[d])].aborted
              /\ \A n \in DOMAIN s[d] : s[d][n].text.opening <= doc'[d].opening
              /\ states[d] # 0 => place'[d] = place[d]
              /\ states[d] = 0 /\ states'[d] # 0 =>
                    \A n \in DOMAIN st[d] : st[d][n].text.opening < s[d][states'[d]].text.opening
  <2>1. \A n \in DOMAIN st[d] : st[d][n].text.opening <= doc[d].opening /\ st[d][n].text.opening \in Nat
    BY StatesAreTyped DEF IInv, TypeOK, MapOK
  <2>2. CASE d \in D
    <3>1. states'[d] = Len(s[d]) /\ Len(s[d]) > 0
      BY <1>3, <1>4, <1>5, <2>2
    <3>2. /\ doc'[d].open /\ place'[d] > 0 /\ text[d] = Text(d)' /\ text[d].opening \in Nat
          /\ \/ states[d] = 0 /\ doc[d].opening < text[d].opening
             \/ states[d] # 0 /\ doc[d].opening = text[d].opening /\ place'[d] = place[d]
      BY <2>2 DEF Scheduling, Texts
    <3>3. text[d].opening = doc'[d].opening
      BY <3>2 DEF Text
    <3>4. \A n \in DOMAIN s[d] : s[d][n].text.opening <= doc'[d].opening
      <4>1. \A n \in DOMAIN st[d] : s[d][n].text.opening <= doc'[d].opening
        <5>1. \A n \in DOMAIN st[d] : s[d][n].text = st[d][n].text
          BY <1>5, <2>2
        <5>2. doc[d].opening \in Nat /\ doc'[d].opening \in Nat /\ doc[d].opening <= doc'[d].opening
          BY <1>4, <3>2, <3>3
        <5>3. QED
          BY <2>1, <5>1, <5>2
      <4>2. s[d][Len(s[d])].text.opening <= doc'[d].opening
        BY <1>5, <2>2, <3>2, <3>3
      <4>3. QED
        BY <1>5, <2>2, <4>1, <4>2
    <3>5. states[d] = 0 => \A n \in DOMAIN st[d] : st[d][n].text.opening < s[d][states'[d]].text.opening
      BY <1>4, <1>5, <2>1, <2>2, <3>1, <3>2
    <3>6. QED
      BY <1>5, <2>2, <3>1, <3>2, <3>4, <3>5
  <2>3. CASE d \notin D
    <3>1. /\ states'[d] = states[d] /\ s[d] = st[d] /\ doc'[d] = doc[d] /\ place'[d] = place[d]
          /\ Text(d)' = Text(d)
      BY <1>3, <1>6, <2>3 DEF Scheduling, Text
    <3>2. /\ states[d] = IF doc[d].open THEN Len(st[d]) ELSE 0
          /\ doc[d].open => /\ Len(st[d]) > 0 /\ place[d] > 0
                            /\ st[d][Len(st[d])].text = Text(d) /\ ~ st[d][Len(st[d])].aborted
      BY DEF IInv, MapOK
    <3>3. QED
      BY <2>1, <3>1, <3>2
  <2>4. QED
    BY <2>2, <2>3
<1>12. Called(s)
  BY <1>9, <1>10, <1>11 DEF Called, Scheduling, IInv, TypeOK
<1>13. Settled(K, states, "null", s)
  <2>1. \A d \in K : s[d][states[d]].run = "null"
    BY <1>2, <1>5
  <2>2. ASSUME NEW d \in Docs, NEW k \in DOMAIN st[d],
               st[d][k].run \in {"running", "exited"}, ~(d \in K /\ k = states[d])
        PROVE  s[d][k].run \in {"running", "exited"}
    BY <1>5, <1>6, <2>2
  <2>3. QED
    BY <2>1, <2>2 DEF Settled
<1>14. K \in SUBSET Docs /\ (K = {} \/ place' = place)
  BY <1>2 DEF Scheduling
<1>15. QED
  BY <1>1, <1>12, <1>13, <1>14, SettleKeeps

(* A number for each member of a finite set has a greatest.                 *)
LEMMA FiniteMax ==
  ASSUME NEW S, IsFiniteSet(S), S # {}, NEW f \in [S -> Nat]
  PROVE  \E x \in S : \A y \in S : f[x] >= f[y]
<1>1. PICK n \in Nat : ExistsSurjection(1..n, S)
  BY FS_NatSurjection
<1>2. PICK g \in [1..n -> S] : \A y \in S : \E i \in 1..n : g[i] = y
  BY <1>1 DEF ExistsSurjection, Surjection
<1> DEFINE Top(i, k) == \A j \in 1..k : f[g[i]] >= f[g[j]]
           HasTop(k) == \E i \in 1..k : Top(i, k)
           B == {k \in 1..n : ~ HasTop(k)}
           R == {p \in Nat \X Nat : p[1] < p[2]}
<1>3. IsWellFoundedOn(R, Nat) /\ \A a, b \in Nat : a < b => <<a, b>> \in R
  BY NatLessThanWellFounded DEF OpToRel
<1>4. \A i \in 1..n : f[g[i]] \in Nat
  BY <1>2
<1>5. n >= 1 => HasTop(1)
  BY <1>4
<1>6. ASSUME NEW k \in 1..n, k # 1, HasTop(k - 1) PROVE HasTop(k)
  <2>1. PICK i \in 1..(k - 1) : Top(i, k - 1)
    BY <1>6
  <2>2. i \in 1..k /\ k \in 1..k
    OBVIOUS
  <2>3. CASE f[g[i]] >= f[g[k]]
    <3>1. Top(i, k)
      BY <2>1, <2>3
    <3>2. QED
      BY <2>2, <3>1
  <2>4. CASE f[g[k]] >= f[g[i]]
    <3>1. Top(k, k)
      BY <1>4, <2>1, <2>4
    <3>2. QED
      BY <2>2, <3>1
  <2>5. QED
    BY <1>4, <2>3, <2>4
<1> HIDE DEF HasTop
<1>7. B = {}
  <2>1. SUFFICES ASSUME B # {} PROVE FALSE
    OBVIOUS
  <2>2. B \subseteq Nat
    OBVIOUS
  <2>3. PICK k \in B : \A m \in B : ~(<<m, k>> \in R)
    <3> HIDE DEF B, R
    <3>1. IsWellFoundedOn(R, Nat)
      BY <1>3
    <3>2. \E k \in B : \A m \in B : ~(<<m, k>> \in R)
      BY <2>1, <2>2, <3>1, WFMin, Zenon
    <3>3. QED
      BY <3>2
  <2>4. k \in 1..n /\ ~ HasTop(k) /\ k # 1
    BY <1>5
  <2>5. k - 1 \in 1..n /\ k - 1 \notin B
    <3> DEFINE m == k - 1
    <3>1. m \in 1..n /\ k \in Nat /\ m \in Nat /\ m < k
      BY <2>4
    <3> HIDE DEF B, R, m
    <3>2. <<m, k>> \in R
      BY <1>3, <3>1
    <3>3. m \in 1..n /\ m \notin B
      BY <2>3, <3>1, <3>2
    <3>4. QED
      BY <3>3 DEF m
  <2>6. HasTop(k - 1)
    BY <2>5
  <2>7. QED
    BY <1>6, <2>4, <2>6
<1>8. n \in 1..n
  BY <1>2
<1>9. HasTop(n)
  BY <1>7, <1>8
<1>10. PICK i \in 1..n : Top(i, n)
  BY <1>9 DEF HasTop
<1>11. \A y \in S : f[g[i]] >= f[y]
  BY <1>2, <1>10
<1>12. QED
  BY <1>2, <1>11

(* The place of a document that is opened is past every other.              *)
LEMMA MaxIsPast ==
  ASSUME TypeOK, NEW e \in Docs
  PROVE  /\ Max({place[d] : d \in Docs}) \in Nat
         /\ \A d \in Docs : place[d] <= Max({place[c] : c \in Docs})
<1> DEFINE P == {place[d] : d \in Docs}
<1>1. place \in [Docs -> Nat] /\ IsFiniteSet(Docs)
  BY LspAssumption DEF TypeOK
<1>2. PICK x \in Docs : \A y \in Docs : place[x] >= place[y]
  BY <1>1, FiniteMax
<1>3. P \subseteq Nat /\ place[x] \in P /\ \A y \in P : place[x] >= y
  BY <1>1, <1>2
<1>4. Max(P) \in P /\ \A y \in P : Max(P) >= y
  <2> HIDE DEF P
  <2>1. QED
    BY <1>3 DEF Max
<1>5. QED
  BY <1>1, <1>3, <1>4

LEMMA ChangeIsScheduling ==
  ASSUME IInv, NEW d \in Docs, NEW new \in [open : BOOLEAN, opening : Nat, version : Nat], new.open,
         DidChangeContent(d, new), place' \in [Docs -> Nat], PlacesDiffer',
         place'[d] > 0, \A e \in Docs \ {d} : place'[e] = place[e],
         \/ states[d] = 0 /\ doc[d].opening < new.opening
         \/ states[d] # 0 /\ doc[d].opening = new.opening /\ place' = place
  PROVE  Scheduling({d}, [e \in {d} |-> [opening |-> new.opening, version |-> new.version]])
<1> DEFINE text == [e \in {d} |-> [opening |-> new.opening, version |-> new.version]]
<1>1. /\ text[d] = [opening |-> new.opening, version |-> new.version] /\ text[d] \in Texts
      /\ text[d].opening = new.opening
  BY DEF Texts
<1>2. /\ doc' = [doc EXCEPT ![d] = new] /\ compiler' = compiler /\ published' = published
      /\ doc \in [Docs -> [open : BOOLEAN, opening : Nat, version : Nat]] /\ compiler \in Compilers
  BY DEF DidChangeContent, IInv, TypeOK
<1>3. /\ doc' \in [Docs -> [open : BOOLEAN, opening : Nat, version : Nat]]
      /\ doc'[d] = new /\ \A e \in Docs \ {d} : doc'[e] = doc[e]
  BY <1>2
<1>4. Text(d)' = text[d]
  BY <1>1, <1>3 DEF Text
<1> HIDE DEF text
<1>5. Scheduling({d}, text)
  BY <1>1, <1>2, <1>3, <1>4 DEF Scheduling
<1>6. QED
  BY <1>5 DEF text

LEMMA DidOpenKeeps ==
  ASSUME IInv, NEW d \in Docs, DidOpen(d)
  PROVE  /\ IInv' /\ published' = published
         /\ \A q \in Requests : Answered(q) => HoverIsFresh(q)
<1> DEFINE new == [open |-> TRUE, opening |-> doc[d].opening + 1, version |-> 1]
           m   == Max({place[e] : e \in Docs})
<1>1. /\ ~ doc[d].open /\ DidChangeContent(d, new) /\ place' = [place EXCEPT ![d] = 1 + m]
  BY DEF DidOpen
<1>2. /\ doc[d].opening \in Nat /\ place \in [Docs -> Nat] /\ PlacesDiffer /\ TypeOK
  BY DEF IInv, TypeOK
<1>3. m \in Nat /\ \A e \in Docs : place[e] <= m
  BY <1>2, MaxIsPast
<1> HIDE DEF m
<1>4. /\ new \in [open : BOOLEAN, opening : Nat, version : Nat] /\ new.open
      /\ doc[d].opening < new.opening /\ states[d] = 0
  BY <1>1, <1>2, Newest
<1>5. /\ place' \in [Docs -> Nat] /\ place'[d] = 1 + m /\ place'[d] > 0
      /\ \A e \in Docs \ {d} : place'[e] = place[e]
  BY <1>1, <1>2, <1>3
<1>6. PlacesDiffer'
  <2> SUFFICES ASSUME NEW a \in Docs, NEW b \in Docs, place'[a] > 0, place'[a] = place'[b]
               PROVE  a = b
    BY DEF PlacesDiffer
  <2>1. \A e \in Docs \ {d} : place'[e] \in Nat /\ place'[e] < place'[d]
    BY <1>2, <1>3, <1>5
  <2>2. CASE a = d \/ b = d
    BY <1>3, <1>5, <2>1, <2>2
  <2>3. CASE a # d /\ b # d
    BY <1>2, <1>5, <2>3 DEF PlacesDiffer
  <2>4. QED
    BY <2>2, <2>3
<1> DEFINE text == [e \in {d} |-> [opening |-> new.opening, version |-> new.version]]
<1> HIDE DEF new
<1>7. Scheduling({d}, text)
  BY <1>1, <1>4, <1>5, <1>6, ChangeIsScheduling
<1>8. Schedule({d}, text) /\ published' = published
  BY <1>1 DEF DidChangeContent
<1> HIDE DEF text
<1>9. QED
  BY <1>7, <1>8, ScheduleKeeps

LEMMA DidChangeKeeps ==
  ASSUME IInv, NEW d \in Docs, DidChange(d)
  PROVE  /\ IInv' /\ published' = published
         /\ \A q \in Requests : Answered(q) => HoverIsFresh(q)
<1> DEFINE new == [doc[d] EXCEPT !.version = @ + 1]
<1>1. /\ doc[d].open /\ DidChangeContent(d, new) /\ place' = place
  BY DEF DidChange
<1>2. /\ doc[d] \in [open : BOOLEAN, opening : Nat, version : Nat] /\ place \in [Docs -> Nat]
      /\ PlacesDiffer
  BY DEF IInv, TypeOK
<1>3. /\ new \in [open : BOOLEAN, opening : Nat, version : Nat] /\ new.open = doc[d].open
      /\ doc[d].opening = new.opening
  BY <1>2
<1>4. states[d] # 0 /\ place[d] > 0
  BY <1>1 DEF IInv, MapOK
<1>5. PlacesDiffer'
  BY <1>1, <1>2 DEF PlacesDiffer
<1> DEFINE text == [e \in {d} |-> [opening |-> new.opening, version |-> new.version]]
<1> HIDE DEF new
<1>6. Scheduling({d}, text)
  BY <1>1, <1>2, <1>3, <1>4, <1>5, ChangeIsScheduling
<1>7. Schedule({d}, text) /\ published' = published
  BY <1>1 DEF DidChangeContent
<1> HIDE DEF text
<1>8. QED
  BY <1>6, <1>7, ScheduleKeeps

LEMMA ConfigurationKeeps ==
  ASSUME IInv, NEW c \in Compilers, DidChangeConfiguration(c)
  PROVE  /\ IInv' /\ published' = published
         /\ \A q \in Requests : Answered(q) => HoverIsFresh(q)
<1> DEFINE D    == {d \in Docs : doc[d].open}
           text == [d \in D |-> Text(d)]
<1>1. /\ Schedule(D, text) /\ compiler' = c /\ doc' = doc /\ place' = place /\ published' = published
  BY DEF DidChangeConfiguration
<1>2. /\ doc \in [Docs -> [open : BOOLEAN, opening : Nat, version : Nat]]
      /\ place \in [Docs -> Nat] /\ PlacesDiffer
  BY DEF IInv, TypeOK
<1>3. ASSUME NEW d \in D
      PROVE  /\ text[d] \in Texts /\ text[d] = Text(d)' /\ doc'[d].open /\ place'[d] > 0
             /\ states[d] # 0 /\ doc[d].opening = text[d].opening /\ place'[d] = place[d]
  <2>1. text[d] = Text(d) /\ Text(d) \in Texts /\ Text(d)' = Text(d) /\ Text(d).opening = doc[d].opening
    BY <1>1, <1>2 DEF Text, Texts
  <2>2. states[d] # 0 /\ place[d] > 0
    BY DEF IInv, MapOK
  <2>3. QED
    BY <1>1, <2>1, <2>2
<1>4. PlacesDiffer' /\ D \in SUBSET Docs /\ \A d \in Docs : doc[d].open => d \in D
  BY <1>1, <1>2 DEF PlacesDiffer
<1> HIDE DEF D, text
<1>5. Scheduling(D, text)
  BY <1>1, <1>2, <1>3, <1>4 DEF Scheduling
<1>6. QED
  BY <1>1, <1>4, <1>5, ScheduleKeeps

(* Where no document is opened or edited.                                   *)
InPlace(s) ==
    /\ s \in [Docs -> Seq(StateObjects)]
    /\ \A d \in Docs : Len(s[d]) = Len(st[d])
    /\ \A d \in Docs : \A n \in DOMAIN st[d] :
          /\ s[d][n].text = st[d][n].text
          /\ st[d][n].run = "null" => s[d][n].run = "null"

LEMMA InPlaceIsCalled ==
  ASSUME IInv, NEW s, InPlace(s), RunsAreCurrent(s, states', compiler'),
         compiler' = compiler, place' = place, published' \in [Docs -> Shown \cup {NoDiag}],
         doc' \in [Docs -> [open : BOOLEAN, opening : Nat, version : Nat]],
         states' \in [Docs -> Nat],
         \A d \in Docs :
            \/ /\ states'[d] = states[d] /\ doc'[d] = doc[d]
               /\ \A n \in DOMAIN st[d] : n = states[d] => s[d][n].aborted = st[d][n].aborted
            \/ states'[d] = 0 /\ ~ doc'[d].open /\ doc'[d].opening = doc[d].opening
  PROVE  Called(s)
<1>1. \A d \in Docs : /\ Len(st[d]) \in Nat /\ DOMAIN st[d] = 1..Len(st[d])
                      /\ Len(s[d]) = Len(st[d]) /\ DOMAIN s[d] = 1..Len(st[d])
  BY StatesAreTyped DEF InPlace, IInv, TypeOK
<1>2. ASSUME NEW d \in Docs
      PROVE  /\ states'[d] \in {states[d], 0} /\ (states'[d] # 0 => states'[d] = Len(s[d]))
             /\ states'[d] = IF doc'[d].open THEN Len(s[d]) ELSE 0
             /\ doc'[d].open => /\ Len(s[d]) > 0 /\ place'[d] > 0
                                /\ s[d][Len(s[d])].text = Text(d)' /\ ~ s[d][Len(s[d])].aborted
             /\ \A n \in DOMAIN s[d] : s[d][n].text.opening <= doc'[d].opening
  <2>1. /\ states[d] = IF doc[d].open THEN Len(st[d]) ELSE 0
        /\ doc[d].open => /\ Len(st[d]) > 0 /\ place[d] > 0
                          /\ st[d][Len(st[d])].text = Text(d) /\ ~ st[d][Len(st[d])].aborted
        /\ \A n \in DOMAIN st[d] : st[d][n].text.opening <= doc[d].opening
    BY DEF IInv, MapOK
  <2>2. doc'[d].opening = doc[d].opening /\ \A n \in DOMAIN s[d] : s[d][n].text = st[d][n].text
    BY <1>1 DEF InPlace
  <2>3. CASE states'[d] = 0 /\ ~ doc'[d].open
    BY <2>1, <2>2, <2>3, <1>1
  <2>4. CASE /\ states'[d] = states[d] /\ doc'[d] = doc[d]
             /\ \A n \in DOMAIN st[d] : n = states[d] => s[d][n].aborted = st[d][n].aborted
    <3>1. Text(d)' = Text(d)
      BY <2>4 DEF Text
    <3>2. doc[d].open => Len(st[d]) \in DOMAIN st[d]
      BY <1>1, <2>1
    <3>3. QED
      BY <1>1, <2>1, <2>2, <2>4, <3>1, <3>2
  <2>5. QED
    BY <2>3, <2>4
<1>3. Grown(s, states')
  BY <1>1, <1>2 DEF Grown, InPlace
<1>4. PlacesDiffer'
  BY DEF IInv, PlacesDiffer
<1>5. \A d \in Docs : ~(states[d] = 0 /\ states'[d] # 0) /\ (states[d] # 0 => place'[d] = place[d])
  BY <1>2
<1>6. QED
  BY <1>2, <1>3, <1>4, <1>5 DEF Called, IInv, TypeOK

LEMMA DidCloseKeeps ==
  ASSUME IInv, NEW d \in Docs, DidClose(d)
  PROVE  /\ IInv' /\ \A e \in Docs : published'[e] # published[e] => published'[e] = NoDiag
         /\ \A q \in Requests : Answered(q) => HoverIsFresh(q)
<1>0. PICK K \in SUBSET RunningIn({d}) :
        \E s : /\ s = [st EXCEPT ![d] = Aborted(d, d \in K)]
              /\ req' = Settle(K, states, "null", s, states')
              /\ st' = Awaited(s, req', compiler')
  BY DEF DidClose
<1>1. PICK s : /\ s = [st EXCEPT ![d] = Aborted(d, d \in K)]
               /\ req' = Settle(K, states, "null", s, states')
               /\ st' = Awaited(s, req', compiler')
  BY <1>0
<1>2. /\ doc' = [doc EXCEPT ![d].open = FALSE] /\ states' = [states EXCEPT ![d] = 0]
      /\ published' = [published EXCEPT ![d] = NoDiag] /\ compiler' = compiler /\ place' = place
  BY DEF DidClose
<1>3. /\ doc \in [Docs -> [open : BOOLEAN, opening : Nat, version : Nat]]
      /\ st \in [Docs -> Seq(StateObjects)] /\ states \in [Docs -> Nat]
      /\ published \in [Docs -> Shown \cup {NoDiag}]
  BY DEF IInv, TypeOK
<1>4. K \in SUBSET {d} /\ \A e \in K : states[e] # 0 /\ st[e][states[e]].run = "running"
  BY DEF RunningIn
<1> DEFINE killed == d \in K
           a == Aborted(d, killed)
<1>5. killed \in BOOLEAN /\ (killed => states[d] # 0 /\ st[d][states[d]].run = "running")
  BY <1>4
<1>6. s = [st EXCEPT ![d] = a]
  BY <1>1
<1>7. (d \in K <=> killed) /\ a = Aborted(d, killed)
  OBVIOUS
<1> HIDE DEF killed, a
<1>8. /\ a \in Seq(StateObjects) /\ Len(a) = Len(st[d]) /\ DOMAIN a = DOMAIN st[d]
      /\ \A n \in DOMAIN st[d] :
            /\ a[n].text = st[d][n].text /\ a[n].run # "running"
            /\ a[n].run = "exited" => a[n].aborted
            /\ a[n].timer => a[n].run = "none"
            /\ st[d][n].run = "null" => a[n].run = "null"
            /\ st[d][n].run \in {"running", "exited"} /\ ~(killed /\ n = states[d])
                  => a[n].run \in {"running", "exited"}
      /\ killed => a[states[d]].run = "null"
  BY <1>5, <1>7, AbortedLeaves
<1>9. /\ s \in [Docs -> Seq(StateObjects)] /\ s[d] = a /\ \A e \in Docs \ {d} : s[e] = st[e]
  BY <1>3, <1>6, <1>8
<1>10. InPlace(s)
  <2>1. \A e \in Docs : Len(s[e]) = Len(st[e])
    BY <1>8, <1>9
  <2>2. ASSUME NEW e \in Docs, NEW n \in DOMAIN st[e]
        PROVE  s[e][n].text = st[e][n].text /\ (st[e][n].run = "null" => s[e][n].run = "null")
    <3>1. CASE e = d
      BY <1>8, <1>9, <3>1
    <3>2. CASE e # d
      BY <1>9, <3>2
    <3>3. QED
      BY <3>1, <3>2
  <2>3. QED
    BY <1>9, <2>1, <2>2 DEF InPlace
<1>11. /\ states' \in [Docs -> Nat] /\ states'[d] = 0 /\ \A e \in Docs \ {d} : states'[e] = states[e]
       /\ doc' \in [Docs -> [open : BOOLEAN, opening : Nat, version : Nat]]
       /\ ~ doc'[d].open /\ doc'[d].opening = doc[d].opening
       /\ \A e \in Docs \ {d} : doc'[e] = doc[e]
       /\ published' \in [Docs -> Shown \cup {NoDiag}]
       /\ \A e \in Docs : published'[e] # published[e] => published'[e] = NoDiag
  BY <1>2, <1>3
<1>12. RunsAreCurrent(s, states', compiler')
  <2> SUFFICES ASSUME NEW e \in Docs, NEW n \in DOMAIN s[e]
               PROVE  /\ s[e][n].run = "running" => n = states'[e] /\ s[e][n].by = compiler'
                      /\ s[e][n].run = "exited" => s[e][n].aborted
                      /\ s[e][n].timer => s[e][n].run = "none"
    BY DEF RunsAreCurrent
  <2>1. CASE e = d
    BY <1>8, <1>9, <2>1
  <2>2. CASE e # d
    <3>1. s[e] = st[e] /\ states'[e] = states[e] /\ compiler' = compiler
      BY <1>2, <1>9, <1>11, <2>2
    <3>2. QED
      BY <3>1 DEF IInv, RunsAreCurrent
  <2>3. QED
    BY <2>1, <2>2
<1>13. \A e \in Docs :
          \/ /\ states'[e] = states[e] /\ doc'[e] = doc[e]
             /\ \A n \in DOMAIN st[e] : n = states[e] => s[e][n].aborted = st[e][n].aborted
          \/ states'[e] = 0 /\ ~ doc'[e].open /\ doc'[e].opening = doc[e].opening
  BY <1>9, <1>11
<1>14. Called(s)
  BY <1>2, <1>10, <1>11, <1>12, <1>13, InPlaceIsCalled
<1>15. Settled(K, states, "null", s)
  <2>1. \A e \in K : s[e][states[e]].run = "null"
    BY <1>4, <1>7, <1>8, <1>9
  <2>2. ASSUME NEW e \in Docs, NEW k \in DOMAIN st[e],
               st[e][k].run \in {"running", "exited"}, ~(e \in K /\ k = states[e])
        PROVE  s[e][k].run \in {"running", "exited"}
    <3>1. CASE e = d
      BY <1>7, <1>8, <1>9, <2>2, <3>1
    <3>2. CASE e # d
      BY <1>9, <2>2, <3>2
    <3>3. QED
      BY <3>1, <3>2
  <2>3. QED
    BY <2>1, <2>2 DEF Settled
<1>16. K \in SUBSET Docs /\ place' = place
  BY <1>2, <1>4
<1>17. QED
  BY <1>1, <1>11, <1>14, <1>15, <1>16, SettleKeeps

-----------------------------------------------------------------------------
(* Compilers.                                                               *)

(* Nothing is started where every request waits for a compiler that was.    *)
LEMMA NobodyStarts ==
  ASSUME NEW s \in [Docs -> Seq(StateObjects)], NEW rs, NEW c, \A q \in Requests : WaitsForRun(rs[q], s)
  PROVE  Awaited(s, rs, c) = s
<1>1. \A d \in Docs : \A n \in DOMAIN s[d] :
         ~(s[d][n].run = "none" /\ \E q \in Requests : rs[q].phase = "waiting" /\ rs[q].doc = d /\ rs[q].sid = n)
  BY DEF WaitsForRun
<1>2. \A d \in Docs : s[d] = [n \in DOMAIN s[d] |-> s[d][n]]
  <2>1. \A d \in Docs : s[d] \in [1..Len(s[d]) -> StateObjects]
    BY LenProperties
  <2>2. QED
    BY <2>1
<1>3. Awaited(s, rs, c) = [d \in Docs |-> [n \in DOMAIN s[d] |-> s[d][n]]]
  BY <1>1 DEF Awaited
<1>4. s = [d \in Docs |-> s[d]]
  OBVIOUS
<1>5. QED
  BY <1>2, <1>3, <1>4

LEMMA TimerFiresKeeps ==
  ASSUME IInv, NEW d \in Docs, TimerFires(d)
  PROVE  IInv' /\ published' = published /\ req' = req
<1> DEFINE m == states[d]
           o == Started(st[d][m], compiler)
<1>1. /\ m # 0 /\ st[d][m].timer /\ st' = [st EXCEPT ![d][m] = o]
      /\ compiler' = compiler /\ doc' = doc /\ states' = states /\ place' = place
      /\ published' = published /\ req' = req
  BY DEF TimerFires
<1>2. /\ st \in [Docs -> Seq(StateObjects)] /\ st[d] \in Seq(StateObjects)
      /\ compiler \in Compilers /\ states \in [Docs -> Nat] /\ published \in [Docs -> Shown \cup {NoDiag}]
      /\ doc \in [Docs -> [open : BOOLEAN, opening : Nat, version : Nat]]
      /\ req \in [Requests -> RequestStates]
  BY DEF IInv, TypeOK
<1>3. /\ Len(st[d]) \in Nat /\ DOMAIN st[d] = 1..Len(st[d]) /\ m \in DOMAIN st[d]
      /\ st[d][m] \in StateObjects
  BY <1>1, Newest, StatesAreTyped, <1>2
<1>4. /\ o \in StateObjects /\ o.text = st[d][m].text /\ o.aborted = st[d][m].aborted
      /\ o.run = "running" /\ o.by = compiler /\ ~ o.timer
  BY <1>2, <1>3 DEF Started, StateObjects, Runs
<1>5. st[d][m].run = "none"
  BY <1>1, <1>3 DEF IInv, RunsAreCurrent
<1> DEFINE u == [st[d] EXCEPT ![m] = o]
<1> HIDE DEF o, m
<1>6. /\ u \in Seq(StateObjects) /\ Len(u) = Len(st[d])
      /\ \A n \in DOMAIN st[d] : u[n] = IF n = m THEN o ELSE st[d][n]
  BY <1>2, <1>3, <1>4, ExceptSeq
<1>7. st' = [st EXCEPT ![d] = u]
  BY <1>1, <1>2
<1> HIDE DEF u
<1>8. /\ st' \in [Docs -> Seq(StateObjects)] /\ st'[d] = u /\ \A e \in Docs \ {d} : st'[e] = st[e]
  BY <1>2, <1>6, <1>7
<1>9. \A e \in Docs : /\ Len(st'[e]) = Len(st[e]) /\ DOMAIN st'[e] = DOMAIN st[e]
                      /\ \A n \in DOMAIN st[e] : st'[e][n] = IF e = d /\ n = m THEN o ELSE st[e][n]
  <2>1. \A e \in Docs : Len(st'[e]) = Len(st[e]) /\ \A n \in DOMAIN st[e] : st'[e][n] = IF e = d /\ n = m THEN o ELSE st[e][n]
    BY <1>6, <1>8
  <2>2. \A e \in Docs : DOMAIN st'[e] = 1..Len(st'[e]) /\ DOMAIN st[e] = 1..Len(st[e])
    BY <1>2, <1>8, LenProperties
  <2>3. QED
    BY <2>1, <2>2
<1>10. InPlace(st')
  BY <1>4, <1>5, <1>8, <1>9 DEF InPlace
<1>11. RunsAreCurrent(st', states', compiler')
  <2> SUFFICES ASSUME NEW e \in Docs, NEW n \in DOMAIN st[e]
               PROVE  /\ st'[e][n].run = "running" => n = states[e] /\ st'[e][n].by = compiler
                      /\ st'[e][n].run = "exited" => st'[e][n].aborted
                      /\ st'[e][n].timer => st'[e][n].run = "none"
    BY <1>1, <1>9 DEF RunsAreCurrent
  <2>1. CASE e = d /\ n = m
    BY <1>4, <1>9, <2>1 DEF m
  <2>2. CASE ~(e = d /\ n = m)
    BY <1>9, <2>2 DEF IInv, RunsAreCurrent
  <2>3. QED
    BY <2>1, <2>2
<1>12. \A e \in Docs : \A n \in DOMAIN st[e] : st'[e][n].aborted = st[e][n].aborted
  BY <1>4, <1>9
<1>13. Called(st')
  <2> DEFINE s == st'
  <2>1. /\ InPlace(s) /\ RunsAreCurrent(s, states', compiler')
        /\ \A e \in Docs : \A n \in DOMAIN st[e] : s[e][n].aborted = st[e][n].aborted
    BY <1>10, <1>11, <1>12
  <2> HIDE DEF s
  <2>2. Called(s)
    BY <1>1, <1>2, <2>1, InPlaceIsCalled
  <2>3. QED
    BY <2>2 DEF s
<1>14. \A q \in Requests : WaitsForRun(req[q], st')
  BY <1>4, <1>9 DEF IInv, RequestsOK, WaitsForRun
<1>15. QED
  <2> DEFINE s == st'
  <2>1. /\ Called(s) /\ req' \in [Requests -> RequestStates] /\ \A q \in Requests : Stays(q, s)
        /\ st' = Awaited(s, req', compiler')
    BY <1>1, <1>2, <1>8, <1>13, <1>14, NobodyStarts DEF Stays
  <2> HIDE DEF s
  <2>2. IInv'
    BY <2>1, CallbackKeeps
  <2>3. QED
    BY <1>1, <2>2

(* What is published is what the client has, from the compiler that is      *)
(* configured: a state that was aborted is not in the map.                  *)
LEMMA CompileEndsKeeps ==
  ASSUME IInv, NEW d \in Docs, NEW n \in DOMAIN st[d], NEW ok \in BOOLEAN, CompileEnds(d, n, ok)
  PROVE  /\ IInv' /\ doc' = doc /\ compiler' = compiler
         /\ \A e \in Docs : published'[e] # published[e] =>
               doc[e].open /\ published'[e].text = Text(e) /\ published'[e].by = compiler
         /\ \A q \in Requests : Answered(q) => HoverIsFresh(q)
<1> DEFINE run == IF ok THEN "done" ELSE "null"
           o   == [st[d][n] EXCEPT !.run = run]
           at  == [e \in {d} |-> n]
<1>1. PICK s : /\ s = [st EXCEPT ![d][n].run = run]
               /\ req' = Settle({d}, at, run, s, states) /\ st' = Awaited(s, req', compiler)
  BY DEF CompileEnds
<1>2. /\ st[d][n].run \in {"running", "exited"} /\ Publish(d, n, ok)
      /\ compiler' = compiler /\ doc' = doc /\ states' = states /\ place' = place
  BY DEF CompileEnds
<1>3. /\ st \in [Docs -> Seq(StateObjects)] /\ st[d] \in Seq(StateObjects)
      /\ compiler \in Compilers /\ states \in [Docs -> Nat] /\ published \in [Docs -> Shown \cup {NoDiag}]
      /\ doc \in [Docs -> [open : BOOLEAN, opening : Nat, version : Nat]]
  BY DEF IInv, TypeOK
<1>4. /\ Len(st[d]) \in Nat /\ DOMAIN st[d] = 1..Len(st[d]) /\ n # 0
      /\ st[d][n] \in StateObjects /\ st[d][n].text \in Texts /\ st[d][n].by \in Compilers
  <2>1. /\ Len(st[d]) \in Nat /\ DOMAIN st[d] = 1..Len(st[d]) /\ st[d][n] \in StateObjects
    BY <1>3, StatesAreTyped
  <2>2. QED
    BY <2>1 DEF StateObjects
<1>5. /\ st[d][n].run = "running" => n = states[d] /\ st[d][n].by = compiler
      /\ st[d][n].run = "exited" => st[d][n].aborted
      /\ ~ st[d][n].timer
  BY <1>2 DEF IInv, RunsAreCurrent
<1>6. run \in {"done", "null"} /\ at[d] = n
  OBVIOUS
<1>7. /\ o \in StateObjects /\ o.text = st[d][n].text /\ o.aborted = st[d][n].aborted
      /\ o.run = run /\ o.timer = st[d][n].timer
  BY <1>4 DEF StateObjects, Runs
<1>8. ASSUME NEW e \in Docs, published'[e] # published[e]
      PROVE  doc[e].open /\ published'[e].text = Text(e) /\ published'[e].by = compiler
  <2>1. /\ states[d] = n /\ (ok \/ ~ st[d][n].aborted) /\ e = d
        /\ published'[d] = [text |-> st[d][n].text, by |-> st[d][n].by]
    BY <1>2, <1>3, <1>8 DEF Publish
  <2>2. /\ doc[d].open /\ st[d][n].text = Text(d) /\ ~ st[d][n].aborted
    BY <1>4, <2>1, Newest
  <2>3. st[d][n].run = "running"
    BY <1>2, <1>5, <2>2
  <2>4. QED
    BY <1>5, <2>1, <2>2, <2>3
<1>9. published' \in [Docs -> Shown \cup {NoDiag}]
  <2>1. [text |-> st[d][n].text, by |-> st[d][n].by] \in Shown
    BY <1>4 DEF Shown
  <2>2. QED
    BY <1>2, <1>3, <2>1 DEF Publish
<1> DEFINE u == [st[d] EXCEPT ![n] = o]
<1>10. s = [st EXCEPT ![d] = u]
  BY <1>1
<1> HIDE DEF o, at, run
<1>11. /\ u \in Seq(StateObjects) /\ Len(u) = Len(st[d])
       /\ \A k \in DOMAIN st[d] : u[k] = IF k = n THEN o ELSE st[d][k]
  BY <1>3, <1>4, <1>7, ExceptSeq
<1> HIDE DEF u
<1>12. /\ s \in [Docs -> Seq(StateObjects)] /\ s[d] = u /\ \A e \in Docs \ {d} : s[e] = st[e]
  BY <1>3, <1>10, <1>11
<1>13. \A e \in Docs : /\ Len(s[e]) = Len(st[e]) /\ DOMAIN s[e] = DOMAIN st[e]
                       /\ \A k \in DOMAIN st[e] : s[e][k] = IF e = d /\ k = n THEN o ELSE st[e][k]
  <2>1. \A e \in Docs : Len(s[e]) = Len(st[e]) /\ \A k \in DOMAIN st[e] : s[e][k] = IF e = d /\ k = n THEN o ELSE st[e][k]
    BY <1>11, <1>12
  <2>2. \A e \in Docs : DOMAIN s[e] = 1..Len(s[e]) /\ DOMAIN st[e] = 1..Len(st[e])
    BY <1>3, <1>12, LenProperties
  <2>3. QED
    BY <2>1, <2>2
<1>14. InPlace(s)
  BY <1>2, <1>7, <1>12, <1>13 DEF InPlace
<1>15. RunsAreCurrent(s, states', compiler')
  <2> SUFFICES ASSUME NEW e \in Docs, NEW k \in DOMAIN st[e]
               PROVE  /\ s[e][k].run = "running" => k = states[e] /\ s[e][k].by = compiler
                      /\ s[e][k].run = "exited" => s[e][k].aborted
                      /\ s[e][k].timer => s[e][k].run = "none"
    BY <1>2, <1>13 DEF RunsAreCurrent
  <2>1. CASE e = d /\ k = n
    BY <1>5, <1>6, <1>7, <1>13, <2>1
  <2>2. CASE ~(e = d /\ k = n)
    BY <1>13, <2>2 DEF IInv, RunsAreCurrent
  <2>3. QED
    BY <2>1, <2>2
<1>16. \A e \in Docs : \A k \in DOMAIN st[e] : s[e][k].aborted = st[e][k].aborted
  BY <1>7, <1>13
<1>17. Called(s)
  BY <1>2, <1>3, <1>9, <1>14, <1>15, <1>16, InPlaceIsCalled
<1>18. Settled({d}, at, run, s)
  BY <1>6, <1>7, <1>13 DEF Settled
<1>19. {d} \in SUBSET Docs /\ req' = Settle({d}, at, run, s, states') /\ st' = Awaited(s, req', compiler')
  BY <1>1, <1>2
<1>20. IInv' /\ \A q \in Requests : Answered(q) => HoverIsFresh(q)
  BY <1>2, <1>6, <1>17, <1>18, <1>19, SettleKeeps
<1>21. QED
  BY <1>2, <1>8, <1>20

-----------------------------------------------------------------------------
(* Requests.                                                                *)

LEMMA UntouchedIsCalled ==
  ASSUME IInv, UNCHANGED <<compiler, doc, states, place, published>>
  PROVE  Called(st)
<1>1. /\ st \in [Docs -> Seq(StateObjects)] /\ states' \in [Docs -> Nat]
      /\ published' \in [Docs -> Shown \cup {NoDiag}]
      /\ doc' \in [Docs -> [open : BOOLEAN, opening : Nat, version : Nat]]
      /\ RunsAreCurrent(st, states', compiler')
  BY DEF IInv, TypeOK
<1>2. InPlace(st)
  BY <1>1 DEF InPlace
<1>3. QED
  BY <1>1, <1>2, InPlaceIsCalled

(* A request arrives, and goes on at once as far as it can.                 *)
LEMMA ArrivalGoesOn ==
  ASSUME IInv, NEW kind \in Handlers \ {"symbols"}, NEW d \in Docs, NEW t, t = Arrival(kind, d)
  PROVE  /\ GoesOn(t, st, states)
         /\ t.phase = "done" /\ t.answer = "ok" =>
               t.kind = "hover" /\ doc[t.doc].open /\ Text(t.doc) = t.text
<1>1. CASE states[d] = 0
  <2>1. t = Refused
    BY <1>1 DEF Arrival
  <2>2. QED
    BY <2>1, RefusedGoesOn
<1>2. CASE states[d] # 0
  <2> DEFINE r   == [phase |-> "waiting", kind |-> kind, doc |-> d, sid |-> states[d], cancelled |-> FALSE]
             run == st[d][states[d]].run
  <2>1. /\ states[d] \in Nat /\ states[d] \in DOMAIN st[d]
        /\ doc[d].open /\ st[d][states[d]].text = Text(d)
        /\ TypeOK /\ PlacesDiffer /\ st \in [Docs -> Seq(StateObjects)] /\ states \in [Docs -> Nat]
        /\ \A e \in Docs : states[e] # 0 => states[e] = Len(st[e])
    BY <1>2, Newest DEF IInv, TypeOK
  <2>2. /\ r \in OneDocRequests /\ r \notin SymbolRequests /\ r.phase = "waiting"
        /\ r.doc = d /\ r.sid = states[d]
    BY <2>1 DEF OneDocRequests, SymbolRequests, Active
  <2>3. t = IF run \in {"done", "null"} THEN Resumed(r, run, st, states) ELSE r
    BY <1>2 DEF Arrival
  <2> HIDE DEF r, run
  <2>4. CASE run \in {"done", "null"}
    <3>1. Ready(r, run, st, states)
      BY <2>1, <2>2, <2>4 DEF Ready, run
    <3>2. t = Resumed(r, run, st, states)
      BY <2>3, <2>4
    <3>3. /\ GoesOn(t, st, states)
          /\ t.phase = "done" /\ t.answer = "ok" =>
                t.kind = "hover" /\ t.doc = r.doc /\ states[r.doc] = r.sid /\ t.text = st[r.doc][r.sid].text
      BY <2>1, <3>1, <3>2, ReadyGoesOn
    <3>4. QED
      BY <2>1, <2>2, <3>3
  <2>5. CASE run \notin {"done", "null"}
    <3>1. t = r
      BY <2>3, <2>5
    <3>2. GoesOn(r, st, states)
      BY <1>2, <2>1, <2>2, <2>5 DEF GoesOn, RequestStates, run
    <3>3. QED
      BY <2>2, <3>1, <3>2
  <2>6. QED
    BY <2>4, <2>5
<1>3. QED
  BY <1>1, <1>2

LEMMA SymbolsArrivalGoesOn ==
  ASSUME IInv, NEW t, t = SymbolsArrival
  PROVE  GoesOn(t, st, states) /\ ~(t.phase = "done" /\ t.answer = "ok")
<1> DEFINE r == [phase |-> "waiting", kind |-> "symbols", doc |-> NoDoc, sid |-> 0, place |-> 0,
                 cancelled |-> FALSE, found |-> {}, since |-> states]
<1>1. t = Iterated(r, st, states)
  BY DEF SymbolsArrival
<1>2. /\ TypeOK /\ PlacesDiffer /\ st \in [Docs -> Seq(StateObjects)] /\ states \in [Docs -> Nat]
      /\ place \in [Docs -> Nat]
  BY DEF IInv, TypeOK
<1>3. \A d \in Docs : /\ Len(st[d]) \in Nat /\ states[d] \in 0..Len(st[d])
                      /\ states[d] # 0 => states[d] = Len(st[d]) /\ place[d] > 0
  BY <1>2, Newest, StatesAreTyped
<1>4. /\ r \in SymbolRequests /\ r.phase = "waiting" /\ r.since = states /\ r.found = {} /\ r.place = 0
  BY <1>2 DEF SymbolRequests, Active
<1> HIDE DEF r
<1>5. Search(r.since, r.found, {d \in Docs : place[d] > r.place}, st, states)
  BY <1>3, <1>4 DEF Search
<1>6. /\ t \in SymbolRequests \/ t = Refused
      /\ t \in SymbolRequests => SearchOK(t, st, states, place)
      /\ t.phase = "waiting" => /\ t.doc \in Docs /\ t.sid = states[t.doc] /\ states[t.doc] # 0
                               /\ st[t.doc][t.sid].run \notin {"done", "null"}
  <2>1. \A d \in Docs : states[d] # 0 => states[d] = Len(st[d])
    BY <1>3
  <2>2. r \in SymbolRequests /\ r.phase = "waiting"
    BY <1>4
  <2>3. TypeOK /\ PlacesDiffer /\ st \in [Docs -> Seq(StateObjects)] /\ states \in [Docs -> Nat]
    BY <1>2
  <2>4. Searching(r, st, states)
    BY <1>5, <2>2 DEF Searching
  <2>5. SearchedOn(t, st, states)
    BY <1>1, <2>1, <2>3, <2>4, IteratedIsOK
  <2>6. QED
    BY <2>5 DEF SearchedOn
<1>7. CASE t = Refused
  BY <1>7, RefusedGoesOn
<1>8. CASE t \in SymbolRequests
  <2>1. /\ t \in RequestStates /\ t \notin OneDocRequests /\ t.kind # "hover" /\ t.phase # "done"
    BY <1>8 DEF RequestStates, OneDocRequests, SymbolRequests, Active
  <2>2. QED
    BY <1>6, <1>8, <2>1 DEF GoesOn
<1>9. QED
  BY <1>6, <1>7, <1>8

LEMMA RequestKeeps ==
  ASSUME IInv, NEW q \in Requests, NEW kind \in Kinds[q], NEW d \in Docs, Request(q, kind, d)
  PROVE  /\ IInv' /\ published' = published
         /\ \A p \in Requests : Answered(p) => HoverIsFresh(p)
<1> DEFINE t == IF kind = "symbols" THEN SymbolsArrival ELSE Arrival(kind, d)
<1>1. /\ req' = [req EXCEPT ![q] = t] /\ st' = Awaited(st, req', compiler')
      /\ compiler' = compiler /\ doc' = doc /\ states' = states /\ place' = place
      /\ published' = published
  BY DEF Request
<1>2. kind \in Handlers /\ req \in [Requests -> RequestStates]
  BY LspAssumption DEF IInv, TypeOK
<1>3. /\ GoesOn(t, st, states)
      /\ t.phase = "done" /\ t.answer = "ok" =>
            t.kind = "hover" /\ doc[t.doc].open /\ Text(t.doc) = t.text
  <2>1. CASE kind = "symbols"
    <3>1. t = SymbolsArrival
      BY <2>1
    <3> HIDE DEF t
    <3>2. QED
      BY <3>1, SymbolsArrivalGoesOn
  <2>2. CASE kind # "symbols"
    <3>1. t = Arrival(kind, d) /\ kind \in Handlers \ {"symbols"}
      BY <1>2, <2>2
    <3> HIDE DEF t
    <3>2. QED
      BY <3>1, ArrivalGoesOn
  <2>3. QED
    BY <2>1, <2>2
<1> HIDE DEF t
<1>4. /\ req' \in [Requests -> RequestStates] /\ req'[q] = t
      /\ \A p \in Requests \ {q} : req'[p] = req[p]
  BY <1>1, <1>2, <1>3 DEF GoesOn
<1>5. \A p \in Requests : Stays(p, st) \/ Woken(p, st)
  <2>1. Woken(q, st)
    BY <1>1, <1>3, <1>4 DEF Woken
  <2>2. \A p \in Requests \ {q} : Stays(p, st)
    BY <1>4 DEF Stays, IInv, RequestsOK
  <2>3. QED
    BY <2>1, <2>2
<1>6. Called(st)
  BY <1>1, UntouchedIsCalled
<1>7. IInv'
  BY <1>1, <1>4, <1>5, <1>6, CallbackKeeps
<1>8. ASSUME NEW p \in Requests, Answered(p) PROVE HoverIsFresh(p)
  <2>1. p = q /\ t.phase = "done" /\ t.answer = "ok"
    BY <1>4, <1>8 DEF Answered
  <2>2. QED
    BY <1>3, <1>4, <2>1 DEF HoverIsFresh
<1>9. QED
  BY <1>1, <1>7, <1>8

LEMMA CancelKeeps ==
  ASSUME IInv, NEW q \in Requests, Cancel(q)
  PROVE  IInv' /\ published' = published /\ \A p \in Requests : ~ Answered(p)
<1> DEFINE r == req[q]
           t == [r EXCEPT !.cancelled = TRUE]
<1>1. /\ r.phase \in Active /\ req' = [req EXCEPT ![q] = t]
      /\ compiler' = compiler /\ doc' = doc /\ st' = st /\ states' = states /\ place' = place
      /\ published' = published
  BY DEF Cancel, Active
<1>2. req \in [Requests -> RequestStates] /\ r \in RequestStates
  BY DEF IInv, TypeOK
<1>3. r \in OneDocRequests \cup SymbolRequests
  BY <1>1, <1>2, RequestForms
<1>4. /\ t.phase = r.phase /\ t.kind = r.kind /\ t.doc = r.doc /\ t.sid = r.sid
      /\ r \in OneDocRequests => t \in OneDocRequests
      /\ r \in SymbolRequests => t \in SymbolRequests /\ t.found = r.found /\ t.since = r.since
                                 /\ t.place = r.place
  <2>1. CASE r \in OneDocRequests
    BY <2>1 DEF OneDocRequests, SymbolRequests
  <2>2. CASE r \in SymbolRequests
    BY <2>2 DEF OneDocRequests, SymbolRequests
  <2>3. QED
    BY <1>3, <2>1, <2>2
<1> HIDE DEF t
<1>5. t \in RequestStates
  BY <1>3, <1>4 DEF RequestStates
<1>6. /\ req' \in [Requests -> RequestStates] /\ req'[q] = t
      /\ \A p \in Requests \ {q} : req'[p] = req[p]
  BY <1>1, <1>2, <1>5
<1>7. /\ WaitsForRun(r, st) /\ (r.phase = "second" => r.kind # "hover")
      /\ r \in OneDocRequests => r.sid \in DOMAIN st[r.doc]
      /\ r \in SymbolRequests => SearchOK(r, st, states, place)
  BY DEF IInv, RequestsOK
<1>8. /\ WaitsForRun(t, st) /\ (t.phase = "second" => t.kind # "hover")
      /\ t \in OneDocRequests => t.sid \in DOMAIN st[t.doc]
      /\ t \in SymbolRequests => SearchOK(t, st, states, place)
  <2>1. /\ WaitsForRun(t, st) /\ (t.phase = "second" => t.kind # "hover")
    BY <1>4, <1>7 DEF WaitsForRun
  <2>2. CASE r \in OneDocRequests
    <3>1. t \notin SymbolRequests
      BY <1>4, <2>2, <1>5, RequestForms
    <3>2. QED
      BY <1>4, <1>7, <2>1, <2>2, <3>1
  <2>3. CASE r \in SymbolRequests
    <3>1. t \notin OneDocRequests
      BY <1>4, <2>3, <1>5, RequestForms
    <3>2. SearchOK(t, st, states, place)
      BY <1>4, <1>7, <2>3 DEF SearchOK, Taken, Ahead
    <3>3. QED
      BY <2>1, <3>1, <3>2
  <2>4. QED
    BY <1>3, <2>2, <2>3
<1>9. RequestsOK'
  <2> SUFFICES ASSUME NEW p \in Requests
               PROVE  /\ WaitsForRun(req'[p], st)
                      /\ req'[p].phase = "second" => req'[p].kind # "hover"
                      /\ req'[p] \in OneDocRequests => req'[p].sid \in DOMAIN st[req'[p].doc]
                      /\ req'[p] \in SymbolRequests => SearchOK(req'[p], st, states, place)
    BY <1>1 DEF RequestsOK, WaitsForRun
  <2>1. CASE p = q
    BY <1>6, <1>8, <2>1
  <2>2. CASE p # q
    BY <1>6, <2>2 DEF IInv, RequestsOK
  <2>3. QED
    BY <2>1, <2>2
<1>10. TypeOK' /\ MapOK' /\ PlacesDiffer' /\ RunsAreCurrent(st', states', compiler')
  BY <1>1, <1>6 DEF IInv, TypeOK, MapOK, PlacesDiffer, Text
<1>11. \A p \in Requests : ~ Answered(p)
  <2>1. t.phase # "done"
    BY <1>1, <1>4 DEF Active
  <2>2. QED
    BY <1>6, <2>1 DEF Answered
<1>12. QED
  BY <1>1, <1>9, <1>10, <1>11 DEF IInv

(* What an answer says is so, as AnswersAreFresh states it.                 *)
IsFresh(q) ==
    /\ req'[q].kind = "hover" => doc[req'[q].doc].open /\ Text(req'[q].doc) = req'[q].text
    /\ req'[q].kind = "rename" => doc[req'[q].doc].open /\ doc[req'[q].doc].version = req'[q].text.version
    /\ req'[q].kind = "symbols" => Listed(req'[q].found, req'[q].since)

LEMMA SecondEndsKeeps ==
  ASSUME IInv, NEW q \in Requests, SecondEnds(q)
  PROVE  IInv' /\ published' = published /\ \A p \in Requests : Answered(p) => IsFresh(p)
<1> DEFINE r == req[q]
<1>1. PICK t : /\ req' = [req EXCEPT ![q] = t]
               /\ t = Refused \/ (t = Reply(r) /\ Unchanged(r))
  BY DEF SecondEnds
<1>2. /\ r.phase = "second" /\ compiler' = compiler /\ doc' = doc /\ st' = st /\ states' = states
      /\ place' = place /\ published' = published
  BY DEF SecondEnds
<1>3. /\ req \in [Requests -> RequestStates] /\ r \in OneDocRequests \cup SymbolRequests
      /\ st \in [Docs -> Seq(StateObjects)]
  BY <1>2, RequestForms DEF IInv, TypeOK, Active
<1>4. /\ r.kind # "hover"
      /\ r \in OneDocRequests => r.sid \in DOMAIN st[r.doc]
      /\ r \in SymbolRequests => SearchOK(r, st, states, place)
  BY <1>2 DEF IInv, RequestsOK
<1>5. /\ GoesOn(t, st, states)
      /\ t.phase = "done" /\ t.answer = "ok" =>
            /\ t.kind # "hover"
            /\ t.kind = "rename" => doc[t.doc].open /\ doc[t.doc].version = t.text.version
            /\ t.kind = "symbols" => Listed(t.found, t.since)
  <2>1. CASE t = Refused
    BY <2>1, RefusedGoesOn
  <2>2. CASE t = Reply(r) /\ Unchanged(r) /\ r \in OneDocRequests
    <3>1. r.kind \in Handlers \ {"symbols"} /\ r.doc \in Docs
      BY <2>2 DEF OneDocRequests
    <3>2. t = [phase |-> "done", answer |-> "ok", kind |-> r.kind, doc |-> r.doc,
               text |-> st[r.doc][r.sid].text]
      BY <2>2, <3>1 DEF Reply
    <3>3. st[r.doc][r.sid] \in StateObjects
      BY <1>3, <1>4, <2>2, <3>1, StatesAreTyped
    <3>4. st[r.doc][r.sid].text \in Texts
      BY <3>3 DEF StateObjects
    <3>5. t \in OneDocAnswers /\ t.phase = "done" /\ t.kind = r.kind /\ t.doc = r.doc
      BY <3>1, <3>2, <3>4 DEF OneDocAnswers
    <3>6. GoesOn(t, st, states)
      <4>1. t \in RequestStates
        BY <3>5 DEF RequestStates
      <4>2. t \notin OneDocRequests \cup SymbolRequests
        BY <3>5, <4>1, RequestForms DEF Active
      <4>3. QED
        BY <3>5, <4>1, <4>2 DEF GoesOn
    <3>7. ASSUME r.kind = "rename"
          PROVE  doc[r.doc].open /\ doc[r.doc].version = t.text.version
      <4>1. /\ states[r.doc] # 0
            /\ st[r.doc][states[r.doc]].text.version = st[r.doc][r.sid].text.version
        BY <2>2, <3>7 DEF Unchanged
      <4>2. doc[r.doc].open /\ st[r.doc][states[r.doc]].text = Text(r.doc)
        BY <3>1, <4>1, Newest
      <4>3. Text(r.doc).version = doc[r.doc].version
        BY DEF Text
      <4>4. QED
        BY <3>2, <4>1, <4>2, <4>3
    <3>8. QED
      BY <1>4, <3>1, <3>5, <3>6, <3>7
  <2>3. CASE t = Reply(r) /\ r \in SymbolRequests
    <3>1. /\ r.kind = "symbols" /\ r.found \in SUBSET (Docs \X Nat) /\ r.since \in [Docs -> Nat]
      BY <2>3 DEF SymbolRequests
    <3>2. t = [phase |-> "done", answer |-> "ok", kind |-> "symbols", found |-> r.found, since |-> r.since]
      BY <2>3, <3>1 DEF Reply
    <3>3. t \in SymbolAnswers /\ t.phase = "done" /\ t.kind = "symbols" /\ t.found = r.found /\ t.since = r.since
      BY <3>1, <3>2 DEF SymbolAnswers
    <3>4. GoesOn(t, st, states)
      <4>1. t \in RequestStates
        BY <3>3 DEF RequestStates
      <4>2. t \notin OneDocRequests \cup SymbolRequests
        BY <3>3, <4>1, RequestForms DEF Active
      <4>3. QED
        BY <3>3, <4>1, <4>2 DEF GoesOn
    <3>5. Search(r.since, r.found, {}, st, states)
      BY <1>2, <1>4, <2>3 DEF SearchOK, Taken, Ahead
    <3>6. Listed(r.found, r.since)
      <4>1. \A d \in Docs : r.since[d] # 0 /\ states[d] = r.since[d] /\ st[d][r.since[d]].run = "done"
                            => <<d, r.since[d]>> \in r.found
        BY <3>5 DEF Search
      <4>2. \A f \in r.found : f[2] >= r.since[f[1]]
        BY <3>5 DEF Search
      <4>3. \A f, g \in r.found : f[1] = g[1] /\ f # g =>
               st[f[1]][f[2]].text.opening # st[g[1]][g[2]].text.opening
        BY <3>5 DEF Search, Opening
      <4>4. QED
        BY <4>1, <4>2, <4>3 DEF Listed
    <3>7. QED
      BY <3>3, <3>4, <3>6
  <2>4. QED
    BY <1>1, <1>3, <2>1, <2>2, <2>3
<1>6. /\ req' \in [Requests -> RequestStates] /\ req'[q] = t
      /\ \A p \in Requests \ {q} : req'[p] = req[p]
  BY <1>1, <1>3, <1>5 DEF GoesOn
<1>7. \A p \in Requests : Stays(p, st) \/ Woken(p, st)
  <2>1. Woken(q, st)
    BY <1>2, <1>5, <1>6 DEF Woken
  <2>2. \A p \in Requests \ {q} : Stays(p, st)
    BY <1>6 DEF Stays, IInv, RequestsOK
  <2>3. QED
    BY <2>1, <2>2
<1>8. IInv'
  <2>1. Called(st)
    BY <1>2, UntouchedIsCalled
  <2>2. \A p \in Requests : WaitsForRun(req'[p], st)
    <3>1. t.phase # "waiting"
      BY <1>1, <1>3 DEF Refused, Reply
    <3>2. QED
      BY <1>6, <3>1 DEF WaitsForRun, IInv, RequestsOK
  <2>3. st' = Awaited(st, req', compiler')
    BY <1>2, <1>3, <2>2, NobodyStarts
  <2>4. QED
    BY <1>6, <1>7, <2>1, <2>3, CallbackKeeps
<1>9. ASSUME NEW p \in Requests, Answered(p) PROVE IsFresh(p)
  <2>1. p = q /\ t.phase = "done" /\ t.answer = "ok"
    BY <1>6, <1>9 DEF Answered
  <2>2. QED
    BY <1>5, <1>6, <2>1 DEF IsFresh
<1>10. QED
  BY <1>2, <1>8, <1>9

-----------------------------------------------------------------------------

LEMMA InitKeeps == Init => IInv
<1> SUFFICES ASSUME Init PROVE IInv
  OBVIOUS
<1>1. \A d \in Docs : st[d] = <<>> /\ states[d] = 0 /\ place[d] = 0 /\ ~ doc[d].open
  BY DEF Init
<1>2. <<>> \in Seq(StateObjects) /\ Len(<<>>) = 0 /\ DOMAIN <<>> = {}
  OBVIOUS
<1>3. \A q \in Requests : req[q] = [phase |-> "unsent"]
  BY DEF Init
<1>4. TypeOK
  <2>1. st \in [Docs -> Seq(StateObjects)]
    BY <1>2 DEF Init
  <2>2. req \in [Requests -> RequestStates]
    BY DEF Init, RequestStates
  <2>3. QED
    BY <2>1, <2>2 DEF Init, TypeOK
<1>5. MapOK
  BY <1>1, <1>2 DEF MapOK
<1>6. PlacesDiffer
  BY <1>1 DEF PlacesDiffer
<1>7. RunsAreCurrent(st, states, compiler)
  BY <1>1, <1>2 DEF RunsAreCurrent
<1>8. RequestsOK
  <2>1. [phase |-> "unsent"] \notin OneDocRequests \cup SymbolRequests
    BY DEF OneDocRequests, SymbolRequests, Active
  <2>2. QED
    BY <1>3, <2>1 DEF RequestsOK, WaitsForRun
<1>9. QED
  BY <1>4, <1>5, <1>6, <1>7, <1>8 DEF IInv

LEMMA HoverFreshIsFresh ==
  ASSUME NEW q, HoverIsFresh(q)
  PROVE  IsFresh(q)
  BY DEF HoverIsFresh, IsFresh

(* Every step keeps the invariant, publishes nothing that is out of date    *)
(* and answers nothing that is.                                             *)
LEMMA StepKeeps ==
  ASSUME IInv, [Next]_vars
  PROVE  /\ IInv'
         /\ \A d \in Docs :
               published'[d] # published[d] /\ published'[d] # NoDiag =>
                  doc[d].open /\ published'[d].text = Text(d) /\ published'[d].by = compiler
         /\ \A q \in Requests : Answered(q) => IsFresh(q)
<1> DEFINE Goal ==
      /\ IInv'
      /\ \A d \in Docs :
            published'[d] # published[d] /\ published'[d] # NoDiag =>
               doc[d].open /\ published'[d].text = Text(d) /\ published'[d].by = compiler
      /\ \A q \in Requests : Answered(q) => IsFresh(q)
<1>1. ASSUME NEW d \in Docs, DidOpen(d) PROVE Goal
  BY <1>1, DidOpenKeeps, HoverFreshIsFresh
<1>2. ASSUME NEW d \in Docs, DidChange(d) PROVE Goal
  BY <1>2, DidChangeKeeps, HoverFreshIsFresh
<1>3. ASSUME NEW d \in Docs, DidClose(d) PROVE Goal
  BY <1>3, DidCloseKeeps, HoverFreshIsFresh
<1>4. ASSUME NEW d \in Docs, TimerFires(d) PROVE Goal
  BY <1>4, TimerFiresKeeps DEF Answered
<1>5. ASSUME NEW c \in Compilers, DidChangeConfiguration(c) PROVE Goal
  BY <1>5, ConfigurationKeeps, HoverFreshIsFresh
<1>6. ASSUME NEW d \in Docs, NEW n \in DOMAIN st[d], NEW ok \in BOOLEAN, CompileEnds(d, n, ok)
      PROVE  Goal
  BY <1>6, CompileEndsKeeps, HoverFreshIsFresh
<1>7. ASSUME NEW q \in Requests, NEW kind \in Kinds[q], NEW d \in Docs, Request(q, kind, d)
      PROVE  Goal
  BY <1>7, RequestKeeps, HoverFreshIsFresh
<1>8. ASSUME NEW q \in Requests, Cancel(q) PROVE Goal
  BY <1>8, CancelKeeps
<1>9. ASSUME NEW q \in Requests, SecondEnds(q) PROVE Goal
  BY <1>9, SecondEndsKeeps
<1>10. ASSUME UNCHANGED vars PROVE Goal
  <2>1. /\ compiler' = compiler /\ doc' = doc /\ st' = st /\ states' = states /\ place' = place
        /\ published' = published /\ req' = req
    BY <1>10 DEF vars
  <2>2. TypeOK' /\ MapOK' /\ PlacesDiffer' /\ RunsAreCurrent(st', states', compiler')
    BY <2>1 DEF IInv, TypeOK, MapOK, PlacesDiffer, Text
  <2>3. RequestsOK'
    BY <2>1 DEF IInv, RequestsOK
  <2>4. IInv'
    BY <2>2, <2>3 DEF IInv
  <2>5. QED
    BY <2>1, <2>4 DEF Answered
<1> HIDE DEF Goal
<1>11. ASSUME Next PROVE Goal
  <2>1. CASE \E d \in Docs : DidOpen(d) \/ DidChange(d) \/ DidClose(d) \/ TimerFires(d)
    BY <1>1, <1>2, <1>3, <1>4, <2>1
  <2>2. CASE \E c \in Compilers : DidChangeConfiguration(c)
    BY <1>5, <2>2
  <2>3. CASE \E d \in Docs : \E n \in DOMAIN st[d], ok \in BOOLEAN : CompileEnds(d, n, ok)
    BY <1>6, <2>3
  <2>4. CASE \E q \in Requests : \E kind \in Kinds[q], d \in Docs : Request(q, kind, d)
    BY <1>7, <2>4
  <2>5. CASE \E q \in Requests : Cancel(q) \/ SecondEnds(q)
    BY <1>8, <1>9, <2>5
  <2>6. QED
    BY <1>11, <2>1, <2>2, <2>3, <2>4, <2>5 DEF Next
<1>12. Goal
  BY <1>10, <1>11
<1>13. QED
  BY <1>12 DEF Goal

(* Theorem: the invariant holds in every state the server comes to.         *)
THEOREM Invariance == Spec => []IInv
<1>1. IInv /\ [Next]_vars => IInv'
  BY StepKeeps
<1>2. QED
  BY InitKeeps, <1>1, PTL DEF Spec

(* Theorem: whatever the client does, a compiler that analyses a document   *)
(* works on the text the document has, and is the one that is configured:   *)
(* server.mjs:71-83 aborts the others, and 45-50 restarts them all.         *)
THEOREM AnalysesAreCurrent == Spec => []AnalysisIsOfCurrentText
<1>1. IInv => AnalysisIsOfCurrentText
  BY DEF IInv, RunsAreCurrent, AnalysisIsOfCurrentText
<1>2. QED
  BY Invariance, <1>1, PTL

(* Theorem: diagnostics are never published for a text the document no      *)
(* longer has, nor by a compiler that is no longer configured, although     *)
(* compilers end in any order (server.mjs:60-73).                           *)
THEOREM NothingStaleIsPublished == Spec => DiagnosticsAreCurrent
<1>1. IInv /\ [Next]_vars =>
        [\A d \in Docs :
            published'[d] # published[d] /\ published'[d] # NoDiag =>
               /\ doc[d].open /\ published'[d].text = Text(d)
               /\ published'[d].by = compiler]_vars
  BY StepKeeps
<1>2. QED
  BY Invariance, <1>1, PTL DEF Spec, DiagnosticsAreCurrent

(* Theorem: answers from the analysis a handler awaited are of the text the *)
(* document has when they are sent, a rename is of its version, and the     *)
(* symbols of the workspace are all of those that stayed, and each once,    *)
(* however requests, edits and compilers interleave (server.mjs:88-107,     *)
(* 240-262, 284-300).                                                       *)
THEOREM FreshAnswers == Spec => AnswersAreFresh
<1>1. IInv /\ [Next]_vars => \A q \in Requests : Answered(q) => IsFresh(q)
  BY StepKeeps
<1>2. (\A q \in Requests : Answered(q) => IsFresh(q)) =>
         [\A q \in Requests : Answered(q) =>
            CASE req'[q].kind = "hover"  -> doc[req'[q].doc].open /\ Text(req'[q].doc) = req'[q].text
              [] req'[q].kind = "rename" -> /\ doc[req'[q].doc].open
                                           /\ doc[req'[q].doc].version = req'[q].text.version
              [] req'[q].kind = "symbols" -> Listed(req'[q].found, req'[q].since)
              [] OTHER                   -> TRUE]_vars
  BY DEF IsFresh
<1>3. QED
  BY Invariance, <1>1, <1>2, PTL DEF Spec, AnswersAreFresh
=============================================================================
