--------------------------- MODULE WatchHandlerProofs ---------------------------
(***************************************************************************)
(* Theorems about WatchHandler, for every value of the constants.  What is   *)
(* about the contents of the cache is proved for as long as no two watchers  *)
(* run at once: two of them, which Provider can start, can put an older      *)
(* definition back.  One that follows another that is done cannot.           *)
(***************************************************************************)
EXTENDS WatchHandler, TLAPS

(* A watcher that has not been started, or is done, has nothing.             *)
Idle(w) == wpc[w] \in {"none", "done"} /\ w \notin open /\ feed[w] = <<>> /\ doc[w] = NoDoc

OneActive == \A v, w \in Watchers :
    wpc[v] \notin {"none", "done"} /\ wpc[w] \notin {"none", "done"} => v = w

-------------------------------------------------------------------------------
(* Where a watcher is tells which of Watch's loops it is in.                 *)
InLoop(w) ==
    /\ wpc[w] \in {"none", "open", "next"} => Streaming(w)
    /\ wpc[w] = "poll" => ~Streaming(w) /\ try[w] <= 2 * MaxTries
    /\ wpc[w] \in {"publish", "handle", "fill"} => try[w] <= 2 * MaxTries
    /\ wpc[w] \notin {"publish", "handle", "fill"} => doc[w] = NoDoc
    /\ wpc[w] = "fill" => single /\ doc[w] \in Docs /\ todo[w] \subseteq DOMAIN doc[w]

ClosedIsEmpty == \A w \in Watchers : w \notin open => feed[w] = <<>>

(* d is a document, and has flag f.                                          *)
Has(d, f) == d \in Docs /\ f \in DOMAIN d

(* The shape of a stream's events: in multi-document mode an event has the   *)
(* document of its flag, in the other mode it never waits for a lookup.      *)
EventShape(mode, e) ==
    /\ mode => e.doc # Unread
    /\ ~mode => \A f \in Flags : Has(e.doc, f) => f = e.flag
    /\ e.doc = Unread => e.flag \in Flags
    /\ e.op = "invalidate" => e.doc = NoDoc

FeedShape == \A w \in Watchers : \A i \in DOMAIN feed[w] : EventShape(single, feed[w][i])

LoopInv ==
    /\ TypeOK /\ FeedShape /\ ClosedIsEmpty
    /\ \A w \in Watchers : InLoop(w)
    /\ NoStreamLeaks

-------------------------------------------------------------------------------
(* Nothing anywhere is newer than what is stored, nor than the last write.   *)
BoundedBy(v, f) ==
    /\ newest[f] <= v
    /\ \A w \in Watchers :
        /\ Has(doc[w], f) => doc[w][f] <= v
        /\ \A i \in DOMAIN feed[w] : Has(feed[w][i].doc, f) => feed[w][i].doc[f] <= v

StoreIsNewest == \A f \in Flags :
    /\ BoundedBy(writes, f) /\ store[f] <= writes
    /\ store[f] # 0 => BoundedBy(store[f], f)

(* The attempt ends at an event without a document: what comes after it is   *)
(* never handled.                                                            *)
Ending(w) == wpc[w] \in {"publish", "handle"} /\ doc[w] = NoDoc
Cut(w, i) == \E j \in 1..i - 1 : feed[w][j].doc = NoDoc
Reached(w, i) == ~Ending(w) /\ ~Cut(w, i)

Exempt(f) == ~single /\ f \in replaced

(* The definitions of a flag come in the order they were stored, up to the   *)
(* event the attempt ends at.                                                *)
InOrder(w, f) ==
    /\ Has(doc[w], f) => newest[f] <= doc[w][f]
    /\ \A i \in DOMAIN feed[w] : Has(feed[w][i].doc, f) /\ Reached(w, i) =>
        /\ newest[f] <= feed[w][i].doc[f]
        /\ Has(doc[w], f) => doc[w][f] <= feed[w][i].doc[f]
        /\ \A j \in 1..i - 1 : Has(feed[w][j].doc, f) => feed[w][j].doc[f] <= feed[w][i].doc[f]

(* A document that came with its event follows no update whose lookup is     *)
(* still to come, unless the flag was deleted in between: the lookup could   *)
(* be ahead of it.                                                           *)
Between(w, i, j) == \E k \in i + 1..j - 1 : feed[w][k].doc = NoDoc
Waits(w, i, f) == feed[w][i].doc = Unread /\ feed[w][i].flag = f

LookupsLast(w, f) ==
    \A i \in DOMAIN feed[w] : Waits(w, i, f) =>
        /\ \A j \in DOMAIN feed[w] : j > i /\ Has(feed[w][j].doc, f) => Between(w, i, j)
        /\ store[f] = 0 => \E k \in DOMAIN feed[w] : k > i /\ feed[w][k].doc = NoDoc

Ordered == \A w \in Watchers, f \in Flags :
    Exempt(f) \/ (InOrder(w, f) /\ LookupsLast(w, f))

OrderInv == LoopInv /\ StoreIsNewest /\ Ordered /\ CacheNeverRegresses

-------------------------------------------------------------------------------
(* The last event of a flag that a stream has still to hand out.             *)
LastOf(w, f, i) ==
    /\ i \in DOMAIN feed[w] /\ feed[w][i].flag = f
    /\ \A j \in DOMAIN feed[w] : j > i => feed[w][j].flag # f

(* The newest definition is what the last event has or will have, or else    *)
(* what is in hand, or else what is cached.                                  *)
Carried(w, f) ==
    \/ \E i \in DOMAIN feed[w] : LastOf(w, f, i) /\ feed[w][i].doc \in {Unread, DocumentOf(f, store)}
    \/ /\ \A i \in DOMAIN feed[w] : feed[w][i].flag # f
       /\ IF wpc[w] \in {"publish", "handle"} /\ Has(doc[w], f)
          THEN doc[w] = DocumentOf(f, store) ELSE cache[f] = store[f]

OneFlag == ~single => \A w \in Watchers, f, g \in Flags : Has(doc[w], f) /\ Has(doc[w], g) => f = g

MissInv ==
    /\ OrderInv /\ OneFlag
    /\ \A w \in open, f \in Flags : ~single /\ store[f] > since[w] => Carried(w, f)

-------------------------------------------------------------------------------
(* Single-document mode: whatever is in hand or to come is a content the     *)
(* document has had.                                                         *)
SeenBefore == single =>
    /\ Document(store) \in images
    /\ \A w \in Watchers :
        /\ doc[w] \in Docs => doc[w] \in images
        /\ \A i \in DOMAIN feed[w] : feed[w][i].doc \in Docs => feed[w][i].doc \in images

(* The cache is a part of the content d; where it is being filled with d,    *)
(* the flags still to be set are the ones that are missing.                  *)
Holds(d) ==
    /\ \A f \in Flags : cache[f] # 0 => f \in DOMAIN d /\ cache[f] = d[f]
    /\ \A w \in Watchers : wpc[w] = "fill" =>
        d = doc[w] /\ \A f \in DOMAIN d : f \in todo[w] \/ cache[f] = d[f]
    /\ (\A w \in Watchers : wpc[w] # "fill") =>
        Document(cache) = d \/ \E f \in DOMAIN d : d[f] \in BadWrites

ContentInv == LoopInv /\ SeenBefore /\ (single => \E d \in images : Holds(d))
-------------------------------------------------------------------------------
(* The documents that the store makes.                                       *)
LEMMA DocumentHasAll ==
  ASSUME NEW s \in [Flags -> Versions]
  PROVE  /\ Document(s) \in Docs
         /\ DOMAIN Document(s) = {g \in Flags : s[g] # 0}
         /\ \A g \in Flags : s[g] # 0 => Document(s)[g] = s[g]
<1> DEFINE F == {g \in Flags : s[g] # 0}
<1>1. Document(s) \in [F -> 1..MaxWrites]
  BY StoreAssumption DEF Document, Versions
<1>2. F \in SUBSET Flags
  OBVIOUS
<1>3. Document(s) \in Docs
  BY <1>1, <1>2 DEF Docs
<1> QED
  BY <1>3 DEF Document

LEMMA DocumentOfOne ==
  ASSUME NEW s \in [Flags -> Versions], NEW f \in Flags
  PROVE  /\ s[f] = 0 => DocumentOf(f, s) = NoDoc
         /\ s[f] # 0 => /\ DocumentOf(f, s) \in Docs
                        /\ DOMAIN DocumentOf(f, s) = {f}
                        /\ DocumentOf(f, s)[f] = s[f]
<1>1. CASE s[f] = 0
  BY <1>1 DEF DocumentOf
<1>2. CASE s[f] # 0
  <2>1. DocumentOf(f, s) \in [{f} -> 1..MaxWrites]
    BY <1>2, StoreAssumption DEF DocumentOf, Versions
  <2>2. DocumentOf(f, s) \in Docs
    BY <2>1 DEF Docs
  <2> QED
    BY <1>2, <2>2 DEF DocumentOf
<1> QED
  BY <1>1, <1>2

LEMMA ImageIsDoc ==
  ASSUME NEW s \in [Flags -> Versions], NEW f \in Flags
  PROVE  Image(f, s) \in Docs \cup {NoDoc}
BY DocumentHasAll, DocumentOfOne DEF Image

LEMMA DocIsTyped ==
  ASSUME NEW d \in Docs
  PROVE  /\ DOMAIN d \subseteq Flags
         /\ \A f \in DOMAIN d : d[f] \in 1..MaxWrites
         /\ d # NoDoc /\ d # Unread
BY NoDocAssumption DEF Docs

-------------------------------------------------------------------------------
(* What happens to the feeds: an event more in those of the open streams     *)
(* that let it through, or for each of them.                                 *)
Grown(e) == \A w \in Watchers :
    \/ feed'[w] = feed[w]
    \/ w \in open /\ feed'[w] = Append(feed[w], e) /\ EventShape(single, e)

StoreStep(e) ==
    /\ e \in Events /\ Grown(e)
    /\ feed' \in [Watchers -> Seq(Events)]
    /\ store' \in [Flags -> Versions] /\ writes' \in Versions
    /\ live' \in BOOLEAN /\ dropped' \in BOOLEAN
    /\ UNCHANGED <<single, open>>

LEMMA EmitGrows ==
  ASSUME TypeOK, NEW e \in Events, Emit(e), Matches(e) => EventShape(single, e)
  PROVE  Grown(e) /\ feed' \in [Watchers -> Seq(Events)]
BY DEF TypeOK, StoreTypeOK, Emit, Grown

LEMMA EventIsTyped ==
  ASSUME NEW op \in {"insert", "update", "replace", "delete", "invalidate"},
         NEW f \in Flags \cup {NoDoc}, NEW d \in Docs \cup {NoDoc, Unread}
  PROVE  /\ Event(op, f, d) \in Events
         /\ Event(op, f, d).op = op /\ Event(op, f, d).flag = f /\ Event(op, f, d).doc = d
BY DEF Event, Events

LEMMA ShapesOfEnds ==
  ASSUME NEW f \in Flags \cup {NoDoc}, NEW op
  PROVE  EventShape(single, Event(op, f, NoDoc))
BY NoDocAssumption DEF EventShape, Event, Has

LEMMA ShapeOfUpdate ==
  ASSUME NEW f \in Flags, Matches(Event("update", f, Unread))
  PROVE  EventShape(single, Event("update", f, Unread))
BY NoDocAssumption DEF EventShape, Event, Has, Matches

LEMMA ShapeOfImage ==
  ASSUME NEW s \in [Flags -> Versions], NEW f \in Flags, NEW op \in {"insert", "replace"}
  PROVE  EventShape(single, Event(op, f, Image(f, s)))
<1>1. Image(f, s) \in Docs \cup {NoDoc}
  BY ImageIsDoc
<1>2. ~single => \A g \in Flags : Has(Image(f, s), g) => g = f
  BY DocumentOfOne, NoDocAssumption DEF Image, Has
<1> QED
  BY <1>1, <1>2, NoDocAssumption DEF EventShape, Event

LEMMA SetFlagSteps ==
  ASSUME TypeOK, NEW f \in Flags, SetFlag(f)
  PROVE  \E e \in {Event("update", f, Unread), Event("insert", f, Image(f, store'))} :
            /\ StoreStep(e) /\ Emit(e)
            /\ e = Event("insert", f, Image(f, store')) => ~Exists(f)
            /\ e.doc = Unread => Exists(f)
<1>1. store' \in [Flags -> Versions] /\ writes' \in Versions /\ live' \in BOOLEAN
  BY StoreAssumption DEF TypeOK, StoreTypeOK, SetFlag, Versions
<1>2. Event("update", f, Unread) \in Events /\ Event("update", f, Unread).doc = Unread
      /\ Event("update", f, Unread).op = "update"
  BY EventIsTyped
<1>3. Image(f, store') \in Docs \cup {NoDoc}
  BY <1>1, ImageIsDoc
<1>4. Event("insert", f, Image(f, store')) \in Events
      /\ Event("insert", f, Image(f, store')).doc = Image(f, store')
      /\ Event("insert", f, Image(f, store')).op = "insert"
  BY <1>3, EventIsTyped
<1>5. Image(f, store') # Unread
  BY <1>3, NoDocAssumption
<1>6. CASE Exists(f)
  <2>1. Emit(Event("update", f, Unread))
    BY <1>6 DEF SetFlag
  <2> QED
    BY <1>1, <1>2, <1>4, <1>6, <2>1, EmitGrows, ShapeOfUpdate, ShapeOfImage DEF SetFlag, StoreStep, TypeOK, StoreTypeOK
<1>7. CASE ~Exists(f)
  <2>1. Emit(Event("insert", f, Image(f, store')))
    BY <1>7 DEF SetFlag
  <2> QED
    BY <1>1, <1>4, <1>5, <1>7, <2>1, EmitGrows, ShapeOfUpdate, ShapeOfImage DEF SetFlag, StoreStep, TypeOK, StoreTypeOK
<1> QED
  BY <1>6, <1>7

LEMMA DeleteFlagSteps ==
  ASSUME TypeOK, NEW f \in Flags, DeleteFlag(f)
  PROVE  \E e \in {Event("update", f, Unread), Event("delete", f, NoDoc)} :
            /\ StoreStep(e) /\ Emit(e)
            /\ ~single => e.doc = NoDoc
<1>1. store' \in [Flags -> Versions]
  BY StoreAssumption DEF TypeOK, StoreTypeOK, DeleteFlag, Versions
<1>2. Event("update", f, Unread) \in Events /\ Event("delete", f, NoDoc) \in Events
      /\ Event("delete", f, NoDoc).doc = NoDoc
  BY EventIsTyped
<1>3. \E e \in {Event("update", f, Unread), Event("delete", f, NoDoc)} :
        Emit(e) /\ (~single => e.doc = NoDoc)
  BY <1>2 DEF DeleteFlag
<1>4. PICK e \in {Event("update", f, Unread), Event("delete", f, NoDoc)} :
        Emit(e) /\ (~single => e.doc = NoDoc)
  BY <1>3
<1>5. Grown(e) /\ feed' \in [Watchers -> Seq(Events)]
  BY <1>2, <1>4, EmitGrows, ShapeOfUpdate, ShapesOfEnds
<1> QED
  BY <1>1, <1>2, <1>4, <1>5 DEF DeleteFlag, StoreStep, TypeOK, StoreTypeOK

LEMMA ReplaceDocumentSteps ==
  ASSUME TypeOK, NEW f \in Flags, ReplaceDocument(f)
  PROVE  /\ StoreStep(Event("replace", f, Image(f, store')))
         /\ Emit(Event("replace", f, Image(f, store')))
<1>1. store' \in [Flags -> Versions] /\ writes' \in Versions
  BY StoreAssumption DEF TypeOK, StoreTypeOK, ReplaceDocument, Versions
<1>2. Event("replace", f, Image(f, store')) \in Events
  BY <1>1, ImageIsDoc, EventIsTyped
<1>3. Emit(Event("replace", f, Image(f, store')))
  BY DEF ReplaceDocument
<1> QED
  BY <1>1, <1>2, <1>3, EmitGrows, ShapeOfImage DEF ReplaceDocument, StoreStep, TypeOK, StoreTypeOK

LEMMA DeleteDocumentSteps ==
  ASSUME TypeOK, NEW f \in Flags, DeleteDocument(f)
  PROVE  StoreStep(Event("delete", f, NoDoc)) /\ UNCHANGED feed /\ single
<1>1. Event("delete", f, NoDoc) \in Events /\ Event("delete", f, NoDoc).doc = NoDoc
  BY EventIsTyped
<1>2. Emit(Event("delete", f, NoDoc)) /\ single
  BY DEF DeleteDocument
<1>3. ~Matches(Event("delete", f, NoDoc))
  BY <1>1, <1>2 DEF Matches
<1>4. feed' = [w \in Watchers |-> feed[w]]
  BY <1>2, <1>3 DEF Emit
<1>5. UNCHANGED feed
  BY <1>4 DEF TypeOK, StoreTypeOK
<1>6. store' \in [Flags -> Versions] /\ live' = FALSE
  BY StoreAssumption DEF DeleteDocument, Versions
<1> QED
  BY <1>1, <1>2, <1>5, <1>6 DEF DeleteDocument, StoreStep, Grown, TypeOK, StoreTypeOK

LEMMA DropCollectionSteps ==
  ASSUME TypeOK, DropCollection
  PROVE  StoreStep(Event("invalidate", NoDoc, NoDoc))
<1> DEFINE e == Event("invalidate", NoDoc, NoDoc)
<1>1. e \in Events
  BY EventIsTyped
<1>2. EventShape(single, e)
  BY ShapesOfEnds
<1>3. store' \in [Flags -> Versions] /\ live' = FALSE /\ dropped' = TRUE
  BY StoreAssumption DEF DropCollection, Versions
<1>4. feed' = [w \in Watchers |-> IF w \in open THEN Append(feed[w], e) ELSE feed[w]]
  BY DEF DropCollection
<1> HIDE DEF e
<1>5. Grown(e) /\ feed' \in [Watchers -> Seq(Events)]
  BY <1>1, <1>2, <1>4 DEF Grown, TypeOK, StoreTypeOK
<1>6. StoreStep(e)
  BY <1>1, <1>3, <1>5 DEF DropCollection, StoreStep, TypeOK, StoreTypeOK
<1> QED
  BY <1>6 DEF e

LEMMA StoreSteps ==
  ASSUME TypeOK, StoreNext
  PROVE  \E e \in Events : StoreStep(e)
<1>1. ASSUME NEW f \in Flags, SetFlag(f) PROVE \E e \in Events : StoreStep(e)
  BY <1>1, SetFlagSteps DEF StoreStep
<1>2. ASSUME NEW f \in Flags, DeleteFlag(f) PROVE \E e \in Events : StoreStep(e)
  BY <1>2, DeleteFlagSteps DEF StoreStep
<1>3. ASSUME NEW f \in Flags, ReplaceDocument(f) PROVE \E e \in Events : StoreStep(e)
  BY <1>3, ReplaceDocumentSteps DEF StoreStep
<1>4. ASSUME NEW f \in Flags, DeleteDocument(f) PROVE \E e \in Events : StoreStep(e)
  BY <1>4, DeleteDocumentSteps DEF StoreStep
<1>5. CASE DropCollection
  BY <1>5, DropCollectionSteps DEF StoreStep
<1> QED
  BY <1>1, <1>2, <1>3, <1>4, <1>5 DEF StoreNext

(* What the server looks up: the first update that waits for its document.   *)
LookedUp(w, i) ==
    /\ i \in DOMAIN feed[w] /\ feed[w][i].doc = Unread
    /\ \A j \in 1..i - 1 : feed[w][j].doc # Unread
    /\ feed' \in [Watchers -> Seq(Events)]
    /\ \A v \in Watchers : v # w => feed'[v] = feed[v]
    /\ DOMAIN feed'[w] = DOMAIN feed[w]
    /\ \A j \in DOMAIN feed[w] : j # i => feed'[w][j] = feed[w][j]
    /\ feed'[w][i].op = feed[w][i].op /\ feed'[w][i].flag = feed[w][i].flag
    /\ feed'[w][i].doc = Image(feed[w][i].flag, store)

LEMMA LookUpSteps ==
  ASSUME TypeOK, FeedShape, NEW w \in Watchers, LookUp(w)
  PROVE  \E i \in DOMAIN feed[w] : LookedUp(w, i)
<1>1. PICK i \in DOMAIN feed[w] :
        /\ feed[w][i].doc = Unread
        /\ \A j \in 1..i - 1 : feed[w][j].doc # Unread
        /\ feed' = [feed EXCEPT ![w][i].doc = Image(feed[w][i].flag, store)]
  BY DEF LookUp
<1>2. feed \in [Watchers -> Seq(Events)] /\ feed[w] \in Seq(Events)
  BY DEF TypeOK, StoreTypeOK
<1>3. feed[w][i] \in Events
  BY <1>2
<1>4. feed[w][i].flag \in Flags
  BY <1>1 DEF FeedShape, EventShape
<1>5. Image(feed[w][i].flag, store) \in Docs \cup {NoDoc, Unread}
  BY <1>4, ImageIsDoc DEF TypeOK, StoreTypeOK
<1> DEFINE e == [feed[w][i] EXCEPT !.doc = Image(feed[w][i].flag, store)]
<1>6. e \in Events /\ e.op = feed[w][i].op /\ e.flag = feed[w][i].flag
      /\ e.doc = Image(feed[w][i].flag, store)
  BY <1>3, <1>5 DEF Events
<1>7. feed' = [feed EXCEPT ![w] = [feed[w] EXCEPT ![i] = e]]
  BY <1>1
<1>8. [feed[w] EXCEPT ![i] = e] \in Seq(Events)
  BY <1>2, <1>6
<1>9. feed'[w] = [feed[w] EXCEPT ![i] = e] /\ \A v \in Watchers : v # w => feed'[v] = feed[v]
  BY <1>2, <1>7
<1>10. feed' \in [Watchers -> Seq(Events)]
  BY <1>2, <1>7, <1>8
<1> HIDE DEF e
<1> QED
  BY <1>1, <1>2, <1>6, <1>9, <1>10 DEF LookedUp

-------------------------------------------------------------------------------
(* The loops and the streams *)

(* A step of watcher w that leaves the others alone, with its effect on the  *)
(* stream: nothing, opened, one event taken, or closed.                      *)
LoopStep(w) ==
    /\ \A v \in Watchers : v # w => wpc'[v] = wpc[v] /\ try'[v] = try[v] /\ doc'[v] = doc[v]
                                    /\ feed'[v] = feed[v] /\ (v \in open <=> v \in open')
    /\ \/ UNCHANGED <<open, feed>>
       \/ wpc[w] = "open" /\ open' = open \cup {w} /\ UNCHANGED feed
       \/ feed[w] # <<>> /\ feed'[w] = Tail(feed[w]) /\ UNCHANGED open
       \/ w \notin open' /\ feed'[w] = <<>>
    /\ feed' \in [Watchers -> Seq(Events)]
    /\ UNCHANGED single

LEMMA TailFacts ==
  ASSUME NEW S, NEW s \in Seq(S), s # <<>>
  PROVE  /\ Tail(s) \in Seq(S) /\ Len(Tail(s)) = Len(s) - 1 /\ Len(s) \in Nat \ {0}
         /\ DOMAIN Tail(s) = 1..Len(s) - 1 /\ DOMAIN s = 1..Len(s)
         /\ \A i \in 1..Len(s) - 1 : Tail(s)[i] = s[i + 1]
         /\ Head(s) = s[1] /\ Head(s) \in S
OBVIOUS

LEMMA StreamsKept ==
  ASSUME LoopInv, NEW w \in Watchers, LoopStep(w)
  PROVE  FeedShape' /\ ClosedIsEmpty'
<1>1. feed[w] \in Seq(Events)
  BY DEF LoopInv, TypeOK, StoreTypeOK
<1>2. ASSUME NEW v \in Watchers, NEW i \in DOMAIN feed'[v] PROVE EventShape(single', feed'[v][i])
  <2>1. CASE v # w \/ feed'[w] = feed[w]
    BY <1>2, <2>1 DEF LoopInv, FeedShape, LoopStep
  <2>2. CASE v = w /\ feed[w] # <<>> /\ feed'[w] = Tail(feed[w])
    <3>1. i + 1 \in DOMAIN feed[w] /\ feed'[w][i] = feed[w][i + 1]
      BY <1>1, <1>2, <2>2, TailFacts
    <3> QED
      BY <2>2, <3>1 DEF LoopInv, FeedShape, LoopStep
  <2>3. CASE v = w /\ feed'[w] = <<>>
    BY <1>2, <2>3
  <2> QED
    BY <2>1, <2>2, <2>3 DEF LoopStep
<1>3. ASSUME NEW v \in Watchers, v \notin open' PROVE feed'[v] = <<>>
  <2>1. CASE v # w
    BY <1>3, <2>1 DEF LoopInv, ClosedIsEmpty, LoopStep
  <2>2. CASE v = w
    BY <1>3, <2>2 DEF LoopInv, ClosedIsEmpty, LoopStep
  <2> QED
    BY <2>1, <2>2
<1> QED
  BY <1>2, <1>3 DEF FeedShape, ClosedIsEmpty

LEMMA AttemptsGoOn ==
  ASSUME LoopInv, NEW w \in Watchers, NextTry(w), try[w] <= 2 * MaxTries
  PROVE  /\ wpc' \in [Watchers -> WPC] /\ try' \in [Watchers -> 1..2 * MaxTries + 1]
         /\ wpc'[w] \in {"open", "poll", "giveup"}
         /\ wpc'[w] = "open" => try'[w] <= MaxTries
         /\ wpc'[w] = "poll" => ~(try'[w] <= MaxTries) /\ try'[w] <= 2 * MaxTries
         /\ wpc'[w] = "giveup" => ~(try'[w] <= MaxTries)
         /\ \A v \in Watchers : v # w => wpc'[v] = wpc[v] /\ try'[v] = try[v]
BY WatchAssumption DEF LoopInv, TypeOK, NextTry, Goto, WPC

(* What the proofs of the actions have to show.                              *)
Loops(w) ==
    /\ LoopStep(w) /\ TypeOK' /\ NoStreamLeaks'
    /\ \A v \in Watchers : InLoop(v)'

LEMMA ChannelKept ==
  ASSUME EventTypeOK, NEW e \in EventTypes, Send(e) \/ Drop \/ Panic
  PROVE  EventTypeOK'
<1>1. CASE Send(e)
  <2>1. Append(channel, e) \in Seq(EventTypes) /\ Len(Append(channel, e)) = Len(channel) + 1
    BY DEF EventTypeOK
  <2> QED
    BY <1>1, <2>1, CapAssumption DEF EventTypeOK, Send
<1> QED
  BY <1>1 DEF EventTypeOK, Drop, Panic, eventVars

LEMMA FoundIsDoc ==
  ASSUME TypeOK
  PROVE  FindOne \subseteq Docs \cup {NoDoc}
<1>1. store \in [Flags -> Versions]
  BY DEF TypeOK, StoreTypeOK
<1>2. Document(store) \in Docs /\ \A f \in Flags : DocumentOf(f, store) \in Docs \cup {NoDoc}
  BY <1>1, DocumentHasAll, DocumentOfOne
<1> QED
  BY <1>2 DEF FindOne

LEMMA CacheKept ==
  ASSUME TypeOK, NEW d \in Docs, NEW f \in DOMAIN d, CacheSet(f, d[f])
  PROVE  cache' \in [Flags -> Versions] /\ newest' \in [Flags -> Versions]
<1>1. d[f] \in Versions
  BY DocIsTyped, StoreAssumption DEF Versions
<1> QED
  BY <1>1 DEF TypeOK, CacheSet

LEMMA StartLoops ==
  ASSUME LoopInv, NEW w \in Watchers, Start(w)
  PROVE  Loops(w)
<1>1. LoopStep(w)
  BY DEF LoopInv, TypeOK, StoreTypeOK, EventTypeOK, LoopStep, Start, Goto, storeVars, dbVars, eventVars, watchVars, history
<1>2. TypeOK'
  BY DEF LoopInv, TypeOK, StoreTypeOK, EventTypeOK, Start, WPC, Goto, storeVars, dbVars, eventVars, watchVars, history
<1>3. NoStreamLeaks' /\ \A v \in Watchers : InLoop(v)'
  BY DEF LoopInv, TypeOK, StoreTypeOK, Start, At, NoStreamLeaks, InLoop, Streaming, Goto, storeVars, dbVars, eventVars, watchVars, history
<1> QED
  BY <1>1, <1>2, <1>3 DEF Loops

LEMMA OpenStreamLoops ==
  ASSUME LoopInv, NEW w \in Watchers, OpenStream(w)
  PROVE  Loops(w)
<1>1. LoopStep(w)
  BY DEF LoopInv, TypeOK, StoreTypeOK, EventTypeOK, LoopStep, OpenStream, Goto, At, storeVars, dbVars, eventVars, watchVars, history
<1>2. TypeOK'
  BY DEF LoopInv, TypeOK, StoreTypeOK, EventTypeOK, OpenStream, WPC, Goto, storeVars, dbVars, eventVars, watchVars, history
<1>3. NoStreamLeaks' /\ \A v \in Watchers : InLoop(v)'
  BY DEF LoopInv, TypeOK, StoreTypeOK, OpenStream, At, NoStreamLeaks, InLoop, Streaming, Goto, storeVars, dbVars, eventVars, watchVars, history
<1> QED
  BY <1>1, <1>2, <1>3 DEF Loops

LEMMA NextLoops ==
  ASSUME LoopInv, NEW w \in Watchers, Next_(w)
  PROVE  Loops(w)
<1>1. feed[w] \in Seq(Events)
  BY DEF LoopInv, TypeOK, StoreTypeOK
<1>2. LoopStep(w)
  BY TailFacts DEF LoopInv, TypeOK, StoreTypeOK, EventTypeOK, LoopStep, Next_, Goto, storeVars, dbVars, eventVars, watchVars, history
<1>3. TypeOK'
  <2>1. Head(feed[w]) \in Events /\ Tail(feed[w]) \in Seq(Events)
    BY <1>1, TailFacts DEF Next_
  <2>2. Head(feed[w]).doc \in Docs \cup {NoDoc}
    BY <2>1 DEF Next_, Events
  <2>3. feed' \in [Watchers -> Seq(Events)] /\ doc' \in [Watchers -> Docs \cup {NoDoc}]
    BY <2>1, <2>2 DEF LoopInv, TypeOK, StoreTypeOK, Next_
  <2> QED
    BY <2>3 DEF LoopInv, TypeOK, StoreTypeOK, EventTypeOK, Next_, WPC, Goto, dbVars, eventVars, history
<1>4. NoStreamLeaks' /\ \A v \in Watchers : InLoop(v)'
  <2>1. wpc[w] = "next" /\ wpc' = [wpc EXCEPT ![w] = "publish"] /\ UNCHANGED <<open, try, todo, single>>
        /\ \A v \in Watchers : v # w => doc'[v] = doc[v]
    BY DEF LoopInv, TypeOK, Next_, At, Goto, dbVars
  <2> QED
    BY <2>1, WatchAssumption DEF LoopInv, TypeOK, NoStreamLeaks, InLoop, Streaming
<1> QED
  BY <1>2, <1>3, <1>4 DEF Loops

LEMMA StreamEndsLoops ==
  ASSUME LoopInv, NEW w \in Watchers, StreamEnds(w)
  PROVE  Loops(w)
<1>1. LoopStep(w)
  BY DEF LoopInv, TypeOK, StoreTypeOK, EventTypeOK, LoopStep, StreamEnds, Goto, Closed, storeVars, dbVars, eventVars, watchVars, history
<1>2. TypeOK'
  BY DEF LoopInv, TypeOK, StoreTypeOK, EventTypeOK, StreamEnds, WPC, Goto, Closed, storeVars, dbVars, eventVars, watchVars, history
<1>3. NoStreamLeaks' /\ \A v \in Watchers : InLoop(v)'
  BY DEF LoopInv, TypeOK, StoreTypeOK, StreamEnds, At, NoStreamLeaks, InLoop, Streaming, Goto, Closed, storeVars, dbVars, eventVars, watchVars, history
<1> QED
  BY <1>1, <1>2, <1>3 DEF Loops

LEMMA PollLoops ==
  ASSUME LoopInv, NEW w \in Watchers, Poll(w)
  PROVE  Loops(w)
<1>1. LoopStep(w)
  BY DEF LoopInv, TypeOK, StoreTypeOK, EventTypeOK, LoopStep, Poll, Goto, storeVars, dbVars, eventVars, watchVars, history
<1>2. TypeOK'
  BY FoundIsDoc DEF LoopInv, TypeOK, StoreTypeOK, EventTypeOK, Poll, WPC, Goto, storeVars, dbVars,
     eventVars, history
<1>3. NoStreamLeaks' /\ \A v \in Watchers : InLoop(v)'
  BY DEF LoopInv, TypeOK, StoreTypeOK, Poll, At, NoStreamLeaks, InLoop, Streaming, Goto, storeVars, dbVars, eventVars, watchVars, history
<1> QED
  BY <1>1, <1>2, <1>3 DEF Loops

LEMMA PollCancelledLoops ==
  ASSUME LoopInv, NEW w \in Watchers, PollCancelled(w)
  PROVE  Loops(w)
<1>1. LoopStep(w)
  BY DEF LoopInv, TypeOK, StoreTypeOK, EventTypeOK, LoopStep, PollCancelled, Goto, storeVars, dbVars, eventVars, watchVars, history
<1>2. TypeOK'
  BY DEF LoopInv, TypeOK, StoreTypeOK, EventTypeOK, PollCancelled, WPC, Goto, storeVars, dbVars, eventVars, watchVars, history
<1>3. NoStreamLeaks' /\ \A v \in Watchers : InLoop(v)'
  BY DEF LoopInv, TypeOK, StoreTypeOK, PollCancelled, At, NoStreamLeaks, InLoop, Streaming, Goto, storeVars, dbVars, eventVars, watchVars, history
<1> QED
  BY <1>1, <1>2, <1>3 DEF Loops

LEMMA PublishChangeLoops ==
  ASSUME LoopInv, NEW w \in Watchers, PublishChange(w)
  PROVE  Loops(w)
<1>1. LoopStep(w)
  BY DEF LoopInv, TypeOK, StoreTypeOK, EventTypeOK, LoopStep, PublishChange, Goto, storeVars, dbVars, eventVars, watchVars, history
<1>2. TypeOK'
  <2>1. EventTypeOK'
    BY ChannelKept DEF LoopInv, TypeOK, PublishChange, Publish, EventTypes
  <2> QED
    BY <2>1 DEF LoopInv, TypeOK, StoreTypeOK, PublishChange, WPC, Goto, storeVars, dbVars, history
<1>3. NoStreamLeaks' /\ \A v \in Watchers : InLoop(v)'
  BY DEF LoopInv, TypeOK, StoreTypeOK, PublishChange, At, NoStreamLeaks, InLoop, Streaming, Goto, storeVars, dbVars, eventVars, watchVars, history
<1> QED
  BY <1>1, <1>2, <1>3 DEF Loops

LEMMA HandleClearLoops ==
  ASSUME LoopInv, NEW w \in Watchers, HandleClear(w)
  PROVE  Loops(w)
<1>1. LoopStep(w)
  BY DEF LoopInv, TypeOK, StoreTypeOK, EventTypeOK, LoopStep, HandleClear, Goto, storeVars, dbVars, eventVars, watchVars, history
<1>2. TypeOK'
  <2>1. DOMAIN doc[w] \subseteq Flags
    BY DocIsTyped DEF LoopInv, TypeOK, HandleClear
  <2>2. cache' \in [Flags -> Versions] /\ todo' \in [Watchers -> SUBSET Flags]
    BY <2>1, StoreAssumption DEF LoopInv, TypeOK, HandleClear, Empty, Versions
  <2> QED
    BY <2>2 DEF LoopInv, TypeOK, StoreTypeOK, EventTypeOK, HandleClear, WPC, Goto,
       storeVars, dbVars, eventVars, history
<1>3. NoStreamLeaks' /\ \A v \in Watchers : InLoop(v)'
  BY DEF LoopInv, TypeOK, StoreTypeOK, HandleClear, At, NoStreamLeaks, InLoop, Streaming, Goto, storeVars, dbVars, eventVars, watchVars, history
<1> QED
  BY <1>1, <1>2, <1>3 DEF Loops

LEMMA HandleSetLoops ==
  ASSUME LoopInv, NEW w \in Watchers, HandleSet(w)
  PROVE  Loops(w)
<1>1. LoopStep(w)
  BY DEF LoopInv, TypeOK, StoreTypeOK, EventTypeOK, LoopStep, HandleSet, Goto, CacheSet, storeVars, dbVars, eventVars, watchVars, history
<1>2. TypeOK'
  <2>1. cache' \in [Flags -> Versions] /\ newest' \in [Flags -> Versions]
    BY CacheKept DEF LoopInv, TypeOK, HandleSet, InLoop, At
  <2> QED
    BY <2>1 DEF LoopInv, TypeOK, StoreTypeOK, EventTypeOK, HandleSet, WPC, Goto, storeVars, dbVars, eventVars
<1>3. NoStreamLeaks' /\ \A v \in Watchers : InLoop(v)'
  BY DEF LoopInv, TypeOK, StoreTypeOK, HandleSet, At, NoStreamLeaks, InLoop, Streaming, Goto, CacheSet, storeVars, dbVars, eventVars, watchVars, history
<1> QED
  BY <1>1, <1>2, <1>3 DEF Loops

LEMMA HandledLoops ==
  ASSUME LoopInv, NEW w \in Watchers, Handled(w)
  PROVE  Loops(w)
<1>1. LoopStep(w)
  BY DEF LoopInv, TypeOK, StoreTypeOK, EventTypeOK, LoopStep, Handled, Goto, Resume, storeVars, dbVars, eventVars, watchVars, history
<1>2. TypeOK'
  BY DEF LoopInv, TypeOK, StoreTypeOK, EventTypeOK, Handled, WPC, Goto, Resume, storeVars, dbVars, eventVars, watchVars, history
<1>3. NoStreamLeaks' /\ \A v \in Watchers : InLoop(v)'
  BY DEF LoopInv, TypeOK, StoreTypeOK, Handled, At, NoStreamLeaks, InLoop, Streaming, Goto, Resume, storeVars, dbVars, eventVars, watchVars, history
<1> QED
  BY <1>1, <1>2, <1>3 DEF Loops

LEMMA HandleAllLoops ==
  ASSUME LoopInv, NEW w \in Watchers, HandleAll(w)
  PROVE  Loops(w)
<1>1. LoopStep(w)
  BY DEF LoopInv, TypeOK, StoreTypeOK, EventTypeOK, LoopStep, HandleAll, Goto, Resume, CacheSet, storeVars, dbVars, eventVars, watchVars, history
<1>2. TypeOK'
  <2>1. cache' \in [Flags -> Versions] /\ newest' \in [Flags -> Versions]
    BY CacheKept DEF LoopInv, TypeOK, HandleAll
  <2> QED
    BY <2>1 DEF LoopInv, TypeOK, StoreTypeOK, EventTypeOK, HandleAll, WPC, Goto, Resume, storeVars, dbVars, eventVars
<1>3. NoStreamLeaks' /\ \A v \in Watchers : InLoop(v)'
  BY DEF LoopInv, TypeOK, StoreTypeOK, HandleAll, At, NoStreamLeaks, InLoop, Streaming, Goto, Resume, CacheSet, storeVars, dbVars, eventVars, watchVars, history
<1> QED
  BY <1>1, <1>2, <1>3 DEF Loops

LEMMA GiveUpLoops ==
  ASSUME LoopInv, NEW w \in Watchers, GiveUp(w)
  PROVE  Loops(w)
<1>1. LoopStep(w)
  BY DEF LoopInv, TypeOK, StoreTypeOK, EventTypeOK, LoopStep, GiveUp, Goto, storeVars, dbVars, eventVars, watchVars, history
<1>2. TypeOK'
  <2>1. EventTypeOK'
    BY ChannelKept DEF LoopInv, TypeOK, GiveUp, BPublish, EventTypes
  <2> QED
    BY <2>1 DEF LoopInv, TypeOK, StoreTypeOK, GiveUp, WPC, Goto, storeVars, dbVars
<1>3. NoStreamLeaks' /\ \A v \in Watchers : InLoop(v)'
  BY DEF LoopInv, TypeOK, StoreTypeOK, GiveUp, At, NoStreamLeaks, InLoop, Streaming, Goto, storeVars, dbVars, eventVars, watchVars, history
<1> QED
  BY <1>1, <1>2, <1>3 DEF Loops

LEMMA OpenFailsLoops ==
  ASSUME LoopInv, NEW w \in Watchers, OpenFails(w)
  PROVE  Loops(w)
<1>1. NextTry(w) /\ try[w] <= 2 * MaxTries
  BY WatchAssumption DEF LoopInv, TypeOK, OpenFails, At, InLoop, Streaming
<1>2. LoopStep(w)
  BY DEF LoopInv, TypeOK, StoreTypeOK, EventTypeOK, LoopStep, OpenFails, NextTry, Goto, Closed, storeVars, dbVars, eventVars, watchVars, history
<1>3. TypeOK'
  BY <1>1, AttemptsGoOn, WatchAssumption DEF LoopInv, TypeOK, StoreTypeOK, EventTypeOK, OpenFails, WPC, Closed, Fault, storeVars, dbVars, eventVars, watchVars, history
<1>4. NoStreamLeaks' /\ \A v \in Watchers : InLoop(v)'
  BY <1>1, AttemptsGoOn, WatchAssumption DEF LoopInv, TypeOK, StoreTypeOK, OpenFails, At, NoStreamLeaks, InLoop, Streaming, Closed, storeVars, dbVars, eventVars, watchVars, history
<1> QED
  BY <1>2, <1>3, <1>4 DEF Loops

LEMMA StreamFailsLoops ==
  ASSUME LoopInv, NEW w \in Watchers, StreamFails(w)
  PROVE  Loops(w)
<1>1. NextTry(w) /\ try[w] <= 2 * MaxTries
  BY WatchAssumption DEF LoopInv, TypeOK, StreamFails, At, InLoop, Streaming
<1>2. LoopStep(w)
  BY DEF LoopInv, TypeOK, StoreTypeOK, EventTypeOK, LoopStep, StreamFails, NextTry, Goto, Closed, storeVars, dbVars, eventVars, watchVars, history
<1>3. TypeOK'
  BY SMTT(30), <1>1, AttemptsGoOn, WatchAssumption DEF LoopInv, TypeOK, StoreTypeOK, EventTypeOK, StreamFails, WPC, Closed, Fault, storeVars, dbVars, eventVars, watchVars, history
<1>4. NoStreamLeaks' /\ \A v \in Watchers : InLoop(v)'
  BY <1>1, AttemptsGoOn, WatchAssumption DEF LoopInv, TypeOK, StoreTypeOK, StreamFails, At, NoStreamLeaks, InLoop, Streaming, Closed, storeVars, dbVars, eventVars, watchVars, history
<1> QED
  BY <1>2, <1>3, <1>4 DEF Loops

LEMMA PollFailsLoops ==
  ASSUME LoopInv, NEW w \in Watchers, PollFails(w)
  PROVE  Loops(w)
<1>1. NextTry(w) /\ try[w] <= 2 * MaxTries
  BY WatchAssumption DEF LoopInv, TypeOK, PollFails, At, InLoop, Streaming
<1>2. LoopStep(w)
  BY DEF LoopInv, TypeOK, StoreTypeOK, EventTypeOK, LoopStep, PollFails, NextTry, Goto, Closed, storeVars, dbVars, eventVars, watchVars, history
<1>3. TypeOK'
  BY <1>1, AttemptsGoOn, WatchAssumption DEF LoopInv, TypeOK, StoreTypeOK, EventTypeOK, PollFails, WPC, Closed, Fault, storeVars, dbVars, eventVars, watchVars, history
<1>4. NoStreamLeaks' /\ \A v \in Watchers : InLoop(v)'
  BY <1>1, AttemptsGoOn, WatchAssumption DEF LoopInv, TypeOK, StoreTypeOK, PollFails, At, NoStreamLeaks, InLoop, Streaming, Closed, storeVars, dbVars, eventVars, watchVars, history
<1> QED
  BY <1>2, <1>3, <1>4 DEF Loops

LEMMA FailuresLoop ==
  ASSUME LoopInv, NEW w \in Watchers, At(w, "handle") \/ At(w, "fill"), HandlingFails(w)
  PROVE  Loops(w)
<1>1. CASE Streaming(w)
  <2>1. NextTry(w) /\ Closed(w) /\ try[w] <= 2 * MaxTries
    BY <1>1 DEF LoopInv, TypeOK, HandlingFails, Fail, At, InLoop
  <2>2. LoopStep(w)
    BY <2>1, AttemptsGoOn DEF LoopInv, TypeOK, StoreTypeOK, LoopStep, HandlingFails, Closed, dbVars
  <2>3. TypeOK'
    BY <2>1, AttemptsGoOn DEF LoopInv, TypeOK, StoreTypeOK, EventTypeOK, HandlingFails, Closed,
       dbVars, eventVars, history
  <2>4. NoStreamLeaks' /\ \A v \in Watchers : InLoop(v)'
    BY <2>1, AttemptsGoOn DEF LoopInv, TypeOK, StoreTypeOK, HandlingFails, Closed, NoStreamLeaks,
       InLoop, Streaming, dbVars
  <2> QED
    BY <2>2, <2>3, <2>4 DEF Loops
<1>2. CASE ~Streaming(w)
  <2>1. wpc' = [wpc EXCEPT ![w] = "poll"] /\ UNCHANGED <<try, open, feed>>
    BY <1>2 DEF HandlingFails, Fail, Goto
  <2>2. LoopStep(w)
    BY <2>1 DEF LoopInv, TypeOK, StoreTypeOK, LoopStep, HandlingFails, dbVars
  <2>3. TypeOK'
    BY <2>1 DEF LoopInv, TypeOK, StoreTypeOK, EventTypeOK, HandlingFails, WPC,
       dbVars, eventVars, history
  <2>4. NoStreamLeaks' /\ \A v \in Watchers : InLoop(v)'
    BY <1>2, <2>1 DEF LoopInv, TypeOK, StoreTypeOK, HandlingFails, NoStreamLeaks, At,
       InLoop, Streaming, dbVars
  <2> QED
    BY <2>2, <2>3, <2>4 DEF Loops
<1> QED
  BY <1>1, <1>2

LEMMA WatchersLoop ==
  ASSUME LoopInv, NEW w \in Watchers, Start(w) \/ Watch(w)
  PROVE  Loops(w)
<1>1. HandleMissing(w) \/ HandleSetFails(w) \/ HandleAllFails(w) => Loops(w)
  BY FailuresLoop DEF HandleMissing, HandleSetFails, HandleAllFails
<1> QED
  BY <1>1, StartLoops, OpenStreamLoops, OpenFailsLoops, NextLoops, StreamFailsLoops, StreamEndsLoops,
     PollLoops, PollFailsLoops, PollCancelledLoops, PublishChangeLoops, HandleClearLoops,
     HandleSetLoops, HandledLoops, HandleAllLoops, GiveUpLoops DEF Watch

(* The store's steps: an event more, or one looked up.                       *)
LEMMA GrowthLoops ==
  ASSUME LoopInv, NEW e \in Events, StoreStep(e),
         UNCHANGED <<eventVars, watchVars, cache, locked, newest, since, reported>>,
         images' \subseteq Docs, replaced' \subseteq Flags
  PROVE  LoopInv'
<1>1. TypeOK'
  BY DEF LoopInv, TypeOK, StoreTypeOK, EventTypeOK, StoreStep, eventVars, watchVars
<1>2. ASSUME NEW w \in Watchers, NEW i \in DOMAIN feed'[w] PROVE EventShape(single', feed'[w][i])
  <2>1. feed[w] \in Seq(Events)
    BY DEF LoopInv, TypeOK, StoreTypeOK
  <2>2. CASE feed'[w] = feed[w]
    BY <1>2, <2>2 DEF LoopInv, FeedShape, StoreStep
  <2>3. CASE feed'[w] = Append(feed[w], e) /\ EventShape(single, e)
    <3>1. (i \in DOMAIN feed[w] /\ feed'[w][i] = feed[w][i]) \/ feed'[w][i] = e
      BY <1>2, <2>1, <2>3
    <3> QED
      BY <2>3, <3>1 DEF LoopInv, FeedShape, StoreStep
  <2> QED
    BY <2>2, <2>3 DEF StoreStep, Grown
<1>3. ClosedIsEmpty'
  BY DEF LoopInv, ClosedIsEmpty, StoreStep, Grown
<1>4. NoStreamLeaks' /\ \A v \in Watchers : InLoop(v)'
  BY DEF LoopInv, NoStreamLeaks, InLoop, Streaming, StoreStep, watchVars
<1> QED
  BY <1>1, <1>2, <1>3, <1>4 DEF LoopInv, FeedShape

LEMMA LookUpLoops ==
  ASSUME LoopInv, NEW w \in Watchers, ServerLooksUp(w)
  PROVE  LoopInv'
<1>1. PICK i \in DOMAIN feed[w] : LookedUp(w, i)
  BY LookUpSteps DEF LoopInv, ServerLooksUp
<1>2. UNCHANGED <<dbVars, open, eventVars, watchVars, cache, locked, history>>
  BY DEF ServerLooksUp, LookUp
<1>3. TypeOK'
  BY <1>1, <1>2 DEF LoopInv, TypeOK, StoreTypeOK, EventTypeOK, LookedUp, dbVars, eventVars, watchVars, history
<1>4. feed[w][i].flag \in Flags /\ EventShape(single, feed[w][i])
  BY <1>1 DEF LoopInv, FeedShape, EventShape, LookedUp
<1>5. EventShape(single, feed'[w][i])
  <2>1. store \in [Flags -> Versions]
    BY DEF LoopInv, TypeOK, StoreTypeOK
  <2>2. Image(feed[w][i].flag, store) \in Docs \cup {NoDoc}
    BY <1>4, <2>1, ImageIsDoc
  <2>3. ~single => \A g \in Flags : Has(Image(feed[w][i].flag, store), g) => g = feed[w][i].flag
    BY <1>4, <2>1, DocumentOfOne, NoDocAssumption DEF Image, Has
  <2> QED
    BY <1>1, <1>4, <2>2, <2>3, NoDocAssumption DEF EventShape, LookedUp
<1>6. FeedShape'
  BY <1>1, <1>2, <1>5 DEF LoopInv, FeedShape, LookedUp, dbVars
<1>7. ClosedIsEmpty'
  BY <1>1, <1>2 DEF LoopInv, ClosedIsEmpty, LookedUp, TypeOK, StoreTypeOK
<1>8. NoStreamLeaks' /\ \A v \in Watchers : InLoop(v)'
  BY <1>2 DEF LoopInv, NoStreamLeaks, InLoop, Streaming, watchVars, dbVars
<1> QED
  BY <1>3, <1>6, <1>7, <1>8 DEF LoopInv

LEMMA LoopsKept ==
  ASSUME LoopInv, NEW w \in Watchers, Loops(w)
  PROVE  LoopInv'
BY StreamsKept DEF Loops, LoopInv

LEMMA EnvironmentLoops ==
  ASSUME LoopInv, Environment
  PROVE  LoopInv'
<1>1. CASE /\ StoreNext
           /\ images' = IF single THEN images \cup {Document(store')} ELSE images
           /\ replaced' = replaced \cup Replaced'
           /\ UNCHANGED <<eventVars, watchVars, cache, locked, newest, since, reported>>
  <2>1. PICK e \in Events : StoreStep(e)
    BY <1>1, StoreSteps DEF LoopInv
  <2>2. images' \subseteq Docs
    BY <1>1, <2>1, DocumentHasAll DEF StoreStep, LoopInv, TypeOK
  <2>3. replaced' \subseteq Flags
    BY <1>1 DEF Replaced, LoopInv, TypeOK
  <2> QED
    BY <1>1, <2>1, <2>2, <2>3, GrowthLoops
<1>2. CASE Receive /\ ~crashed /\ UNCHANGED <<storeVars, watchVars, cache, locked, history>>
  <2>1. Tail(channel) \in Seq(EventTypes) /\ Len(Tail(channel)) <= Cap
    BY <1>2, TailFacts, CapAssumption DEF LoopInv, TypeOK, EventTypeOK, Receive
  <2>2. TypeOK'
    BY <1>2, <2>1 DEF LoopInv, TypeOK, StoreTypeOK, EventTypeOK, Receive, storeVars, dbVars, watchVars, history
  <2> QED
    BY <1>2, <2>2 DEF LoopInv, FeedShape, ClosedIsEmpty, NoStreamLeaks, InLoop, Streaming,
       storeVars, dbVars, watchVars
<1> QED
  BY <1>1, <1>2 DEF Environment

LEMMA StillLoops ==
  ASSUME LoopInv, Cancel \/ UNCHANGED vars
  PROVE  LoopInv'
<1>1. UNCHANGED <<storeVars, eventVars, wpc, try, doc, todo, faults, cache, locked, history>>
      /\ cancelled' \in BOOLEAN
  BY DEF Cancel, vars, watchVars, LoopInv, TypeOK
<1> QED
  BY <1>1 DEF LoopInv, TypeOK, StoreTypeOK, EventTypeOK, FeedShape, ClosedIsEmpty, NoStreamLeaks,
     InLoop, Streaming, storeVars, dbVars, eventVars, history

LEMMA LoopStart == WatchInit => LoopInv
<1> SUFFICES ASSUME WatchInit PROVE LoopInv
  OBVIOUS
<1>1. Empty \in [Flags -> Versions]
  BY StoreAssumption DEF Empty, Versions
<1>2. Document(Empty) \in Docs
  BY <1>1, DocumentHasAll
<1>3. StoreTypeOK
  <2>1. feed \in [Watchers -> Seq(Events)]
    BY DEF WatchInit, StoreInit
  <2>2. store \in [Flags -> Versions] /\ writes \in Versions
    BY StoreAssumption DEF WatchInit, StoreInit, Versions
  <2> QED
    BY <2>1, <2>2 DEF WatchInit, StoreInit, StoreTypeOK
<1>4. EventTypeOK
  <2>1. channel = <<>> /\ closed = FALSE /\ crashed = FALSE
    BY DEF WatchInit, EventInit
  <2>2. channel \in Seq(EventTypes) /\ Len(channel) = 0
    BY <2>1
  <2>3. Len(channel) <= Cap
    BY <2>2, CapAssumption
  <2>4. closed \in BOOLEAN /\ crashed \in BOOLEAN
    BY <2>1
  <2> QED
    BY <2>2, <2>3, <2>4 DEF EventTypeOK
<1>5. since \in [Watchers -> Versions] /\ try \in [Watchers -> 1..2 * MaxTries + 1]
  BY StoreAssumption, WatchAssumption DEF WatchInit, Versions
<1>6. locked \in BOOLEAN /\ cancelled \in BOOLEAN
  BY DEF WatchInit
<1>7. cache \in [Flags -> Versions] /\ newest \in [Flags -> Versions] /\ images \subseteq Docs
  BY <1>1, <1>2 DEF WatchInit
<1>8. /\ wpc \in [Watchers -> WPC] /\ doc \in [Watchers -> Docs \cup {NoDoc}]
      /\ todo \in [Watchers -> SUBSET Flags] /\ faults \in 0..MaxFaults
      /\ reported \subseteq Watchers /\ replaced \subseteq Flags
  BY WatchAssumption DEF WatchInit, WPC
<1>9. TypeOK
  BY <1>3, <1>4, <1>5, <1>6, <1>7, <1>8 DEF TypeOK
<1> QED
  BY <1>9, WatchAssumption DEF LoopInv, WatchInit, StoreInit, FeedShape, ClosedIsEmpty,
     NoStreamLeaks, InLoop, Streaming

LEMMA LoopNext == LoopInv /\ [Next]_vars => LoopInv'
<1> SUFFICES ASSUME LoopInv, [Next]_vars PROVE LoopInv'
  OBVIOUS
<1> QED
  BY EnvironmentLoops, WatchersLoop, LoopsKept, LookUpLoops, StillLoops DEF Next

LEMMA LoopInvariant == Spec => []LoopInv
BY LoopStart, LoopNext, PTL DEF Spec

(* Every variable of the watcher, of the channel and of the collection has   *)
(* its type, for any number of watchers and whatever fails; no watcher makes *)
(* more than 2 * MaxTries attempts (watchhandler.go:52-91).                  *)
THEOREM TypeCorrect == Spec => []TypeOK
<1>1. LoopInv => TypeOK
  BY DEF LoopInv
<1> QED
  BY <1>1, LoopInvariant, PTL

(* A change stream is open exactly while its attempt runs, for any number of *)
(* watchers, however the attempt ends (changestream.go:37).                  *)
THEOREM StreamsAreClosed == Spec => []NoStreamLeaks
<1>1. LoopInv => NoStreamLeaks
  BY DEF LoopInv
<1> QED
  BY <1>1, LoopInvariant, PTL

-------------------------------------------------------------------------------
(* The order of the definitions *)

(* What a write does to the store, and the event it makes of it.             *)
Contents(e) ==
    /\ writes <= writes'
    /\ \A g \in Flags : store'[g] \in {0, store[g], writes'}
    /\ \A g \in Flags : store'[g] # 0 => store'[g] = store[g] \/ (store'[g] = writes' /\ writes < writes')
    /\ \A g \in Flags : Has(e.doc, g) => e.doc[g] = store'[g]
    /\ ~single =>
        /\ e.doc = Unread => store'[e.flag] # 0
        /\ \A g \in Flags : Has(e.doc, g) => e.op = "replace" \/ store[g] = 0
        /\ \A g \in Flags : store'[g] = 0 /\ store[g] # 0 =>
              e.doc = NoDoc /\ \A w \in open : feed'[w] = Append(feed[w], e)

(* The event tells the streams of the flag that was written.                 *)
Tells(e) ==
    /\ single => (e.doc \in Docs => e.doc = Document(store'))
    /\ ~single =>
        /\ \A g \in Flags : store'[g] # 0 /\ store'[g] # store[g] => e.flag = g
        /\ \A g \in Flags : e.flag = g /\ store'[g] # 0 =>
              /\ e.doc \in {Unread, DocumentOf(g, store')}
              /\ \A w \in open : feed'[w] = Append(feed[w], e)

LEMMA EventTells ==
  ASSUME TypeOK, NEW f \in Flags, NEW op \in {"insert", "update", "replace", "delete"},
         NEW d \in {NoDoc, Unread, Image(f, store')}, NEW e, e = Event(op, f, d), Emit(e),
         d = NoDoc => store'[f] = 0, UNCHANGED single,
         \A g \in Flags : g # f => store'[g] = store[g]
  PROVE  Tells(e)
<1>1. e.op = op /\ e.flag = f /\ e.doc = d
  BY DEF Event
<1>2. ~single => \A w \in open : feed'[w] = Append(feed[w], e)
  BY <1>1 DEF Emit, Matches, TypeOK, StoreTypeOK
<1>3. single => (e.doc \in Docs => e.doc = Document(store'))
  BY <1>1, NoDocAssumption DEF Image
<1>4. ~single => e.doc \in {NoDoc, Unread, DocumentOf(f, store')}
  BY <1>1 DEF Image
<1> QED
  BY <1>1, <1>2, <1>3, <1>4 DEF Tells

LEMMA ImageShowsStore ==
  ASSUME NEW s \in [Flags -> Versions], NEW f \in Flags, NEW d, d = Image(f, s)
  PROVE  /\ \A g \in Flags : Has(d, g) => d[g] = s[g]
         /\ \A g \in Flags : Has(d, g) => s[g] # 0
         /\ ~single => \A g \in Flags : Has(d, g) => g = f
<1>1. CASE single
  BY <1>1, DocumentHasAll DEF Image, Has
<1>2. CASE ~single
  <2>1. CASE s[f] = 0
    BY <1>2, <2>1, DocumentOfOne, NoDocAssumption DEF Image, Has
  <2>2. CASE s[f] # 0
    <3>1. d = DocumentOf(f, s) /\ DOMAIN DocumentOf(f, s) = {f} /\ DocumentOf(f, s)[f] = s[f]
      BY <1>2, <2>2, DocumentOfOne DEF Image
    <3> QED
      BY <2>2, <3>1 DEF Has
  <2> QED
    BY <2>1, <2>2
<1> QED
  BY <1>1, <1>2

LEMMA EndsHaveNothing ==
  ASSUME NEW d \in {NoDoc, Unread}, NEW f
  PROVE  ~Has(d, f)
BY NoDocAssumption DEF Has

LEMMA SetFlagContents ==
  ASSUME TypeOK, NEW f \in Flags, SetFlag(f)
  PROVE  \E e \in Events : StoreStep(e) /\ Contents(e) /\ Tells(e)
<1>1. PICK e \in {Event("update", f, Unread), Event("insert", f, Image(f, store'))} :
        /\ StoreStep(e) /\ Emit(e)
        /\ e = Event("insert", f, Image(f, store')) => ~Exists(f)
  BY SetFlagSteps
<1>2. /\ writes' = writes + 1 /\ store' = [store EXCEPT ![f] = writes']
      /\ writes \in Nat /\ store \in [Flags -> Versions] /\ store' \in [Flags -> Versions]
  BY <1>1, StoreAssumption DEF SetFlag, TypeOK, StoreTypeOK, Versions, StoreStep
<1>3. /\ writes <= writes' /\ store'[f] = writes' /\ writes' # 0 /\ writes < writes'
      /\ \A g \in Flags : g # f => store'[g] = store[g]
  BY <1>2
<1>6. \A g \in Flags : g # f => store'[g] = store[g]
  BY <1>3
<1>7. Image(f, store') # NoDoc
  BY <1>2, <1>3, DocumentHasAll, DocumentOfOne, NoDocAssumption DEF Image
<1>8. UNCHANGED single
  BY DEF SetFlag
<1>4. CASE e = Event("update", f, Unread)
  <2>1. e.doc = Unread /\ e.flag = f
    BY <1>4, EventIsTyped
  <2>2. Contents(e)
    BY <1>3, <2>1, EndsHaveNothing DEF Contents
  <2>3. Tells(e)
    BY <1>1, <1>4, <1>6, <1>8, EventTells, NoDocAssumption
  <2> QED
    BY <1>1, <2>2, <2>3 DEF StoreStep
<1>5. CASE e = Event("insert", f, Image(f, store'))
  <2>1. e.doc = Image(f, store') /\ e.doc # Unread
    BY <1>2, <1>5, ImageIsDoc, NoDocAssumption DEF Event
  <2>2. store' \in [Flags -> Versions]
    BY <1>2
  <2>3. \A g \in Flags : Has(e.doc, g) => e.doc[g] = store'[g]
    BY <2>1, <2>2, ImageShowsStore
  <2>4. ~single => \A g \in Flags : Has(e.doc, g) => g = f
    BY <2>1, <2>2, ImageShowsStore
  <2>5. ~single => store[f] = 0
    BY <1>1, <1>5 DEF Exists
  <2>6. Contents(e)
    BY <1>3, <2>1, <2>3, <2>4, <2>5 DEF Contents
  <2>7. Tells(e)
    BY <1>1, <1>5, <1>6, <1>7, <1>8, EventTells
  <2> QED
    BY <1>1, <2>6, <2>7 DEF StoreStep
<1> QED
  BY <1>1, <1>4, <1>5

LEMMA DeleteFlagContents ==
  ASSUME TypeOK, NEW f \in Flags, DeleteFlag(f)
  PROVE  \E e \in Events : StoreStep(e) /\ Contents(e) /\ Tells(e)
<1>1. PICK e \in {Event("update", f, Unread), Event("delete", f, NoDoc)} :
        StoreStep(e) /\ Emit(e) /\ (~single => e.doc = NoDoc)
  BY DeleteFlagSteps
<1>2. /\ writes' = writes /\ store' = [store EXCEPT ![f] = 0] /\ writes \in Nat
      /\ store \in [Flags -> Versions]
  BY StoreAssumption DEF DeleteFlag, TypeOK, StoreTypeOK, Versions
<1>3. e.doc \in {NoDoc, Unread}
  BY <1>1, EventIsTyped DEF Event
<1>4. ~single => Matches(e)
  BY <1>1, NoDocAssumption DEF Matches, Event
<1>5. ~single => \A w \in open : feed'[w] = Append(feed[w], e)
  BY <1>1, <1>4 DEF Emit, TypeOK, StoreTypeOK
<1>6. Contents(e)
  BY <1>1, <1>2, <1>3, <1>5, EndsHaveNothing, NoDocAssumption DEF Contents
<1>7. Tells(e)
  BY <1>1, <1>2, EventTells DEF DeleteFlag
<1> QED
  BY <1>1, <1>6, <1>7 DEF StoreStep

LEMMA ReplaceDocumentContents ==
  ASSUME TypeOK, NEW f \in Flags, ReplaceDocument(f)
  PROVE  \E e \in Events : StoreStep(e) /\ Contents(e) /\ Tells(e)
<1> DEFINE e == Event("replace", f, Image(f, store'))
<1>1. StoreStep(e) /\ Emit(e)
  BY ReplaceDocumentSteps
<1>2. /\ writes' = writes + 1 /\ store' = [store EXCEPT ![f] = writes']
      /\ writes \in Nat /\ store \in [Flags -> Versions] /\ store' \in [Flags -> Versions]
  BY <1>1, StoreAssumption DEF ReplaceDocument, TypeOK, StoreTypeOK, Versions, StoreStep
<1>3. /\ writes <= writes' /\ store'[f] = writes' /\ writes' # 0 /\ writes < writes'
      /\ \A g \in Flags : g # f => store'[g] = store[g]
  BY <1>2
<1>4. e.doc = Image(f, store') /\ e.doc # Unread /\ e.op = "replace"
  BY <1>2, ImageIsDoc, NoDocAssumption DEF Event
<1>5. store' \in [Flags -> Versions]
  BY <1>2
<1>8. Image(f, store') # NoDoc
  BY <1>3, <1>5, DocumentHasAll, DocumentOfOne, NoDocAssumption DEF Image
<1>9. UNCHANGED single /\ e = Event("replace", f, Image(f, store'))
  BY DEF ReplaceDocument
<1> HIDE DEF e
<1>6. \A g \in Flags : Has(e.doc, g) => e.doc[g] = store'[g]
  BY <1>4, <1>5, ImageShowsStore
<1>7. Contents(e)
  BY <1>3, <1>4, <1>6 DEF Contents
<1>10. Tells(e)
  BY <1>1, <1>3, <1>8, <1>9, EventTells
<1> QED
  BY <1>1, <1>7, <1>10 DEF StoreStep

LEMMA DeleteDocumentContents ==
  ASSUME TypeOK, NEW f \in Flags, DeleteDocument(f)
  PROVE  \E e \in Events : StoreStep(e) /\ Contents(e) /\ Tells(e)
<1> DEFINE e == Event("delete", f, NoDoc)
<1>1. StoreStep(e) /\ single
  BY DeleteDocumentSteps
<1>2. e.doc = NoDoc
  BY EventIsTyped
<1> HIDE DEF e
<1>3. writes' = writes /\ writes \in Nat /\ \A g \in Flags : store'[g] = 0
  BY StoreAssumption DEF DeleteDocument, TypeOK, StoreTypeOK, Versions
<1>4. Contents(e)
  BY <1>1, <1>2, <1>3, EndsHaveNothing DEF Contents
<1>5. Tells(e)
  BY <1>1, <1>2, NoDocAssumption DEF Tells
<1> QED
  BY <1>1, <1>4, <1>5 DEF StoreStep

LEMMA DropCollectionContents ==
  ASSUME TypeOK, DropCollection
  PROVE  \E e \in Events : StoreStep(e) /\ Contents(e) /\ Tells(e)
<1> DEFINE e == Event("invalidate", NoDoc, NoDoc)
<1>1. StoreStep(e)
  BY DropCollectionSteps
<1>2. e.doc = NoDoc
  BY EventIsTyped
<1>3. \A w \in open : feed'[w] = Append(feed[w], e)
  BY DEF DropCollection, TypeOK, StoreTypeOK
<1> HIDE DEF e
<1>4. writes' = writes /\ writes \in Nat /\ \A g \in Flags : store'[g] = 0
  BY StoreAssumption DEF DropCollection, TypeOK, StoreTypeOK, Versions
<1>5. Contents(e)
  BY <1>1, <1>2, <1>3, <1>4, EndsHaveNothing, NoDocAssumption DEF Contents
<1>6. Tells(e)
  BY <1>2, <1>4, NoDocAssumption DEF Tells
<1> QED
  BY <1>1, <1>5, <1>6 DEF StoreStep

LEMMA StoreContents ==
  ASSUME TypeOK, StoreNext
  PROVE  \E e \in Events : StoreStep(e) /\ Contents(e) /\ Tells(e)
BY SetFlagContents, DeleteFlagContents, ReplaceDocumentContents, DeleteDocumentContents,
   DropCollectionContents DEF StoreNext

(* What the proofs use of the types.                                         *)
LEMMA Typed ==
  ASSUME TypeOK
  PROVE  /\ writes \in Nat
         /\ \A f \in Flags : newest[f] \in Nat /\ store[f] \in Nat
         /\ \A w \in Watchers : feed[w] \in Seq(Events)
         /\ \A w \in Watchers : DOMAIN feed[w] = 1..Len(feed[w]) /\ Len(feed[w]) \in Nat
BY StoreAssumption DEF TypeOK, StoreTypeOK, Versions

LEMMA HasTyped ==
  ASSUME NEW d, NEW f, Has(d, f)
  PROVE  d[f] \in Nat \ {0} /\ f \in Flags /\ d # NoDoc /\ d # Unread
BY DocIsTyped, StoreAssumption DEF Has

(* A step that adds nothing: what was in hand or to come may be let go.      *)
Quiet ==
    /\ UNCHANGED <<single, store, writes, newest, replaced>>
    /\ \A f \in Flags : cache'[f] \in {0, cache[f]}
    /\ \A w \in Watchers :
        /\ doc'[w] \in {doc[w], NoDoc}
        /\ feed'[w] = <<>> \/ (feed'[w] = feed[w] /\ (Ending(w) => Ending(w)'))

LEMMA QuietOrder ==
  ASSUME OrderInv, LoopInv', Quiet
  PROVE  OrderInv'
<1>1. ASSUME NEW w \in Watchers, NEW f PROVE Has(doc'[w], f) => Has(doc[w], f) /\ doc'[w] = doc[w]
  BY HasTyped DEF Quiet
<1>2. ASSUME NEW w \in Watchers, NEW i \in DOMAIN feed'[w]
      PROVE  feed'[w] = feed[w] /\ (Ending(w) => Ending(w)')
  BY <1>2 DEF Quiet
<1>3. StoreIsNewest'
  <2>1. ASSUME NEW v, NEW f \in Flags, BoundedBy(v, f) PROVE BoundedBy(v, f)'
    BY <1>1, <1>2, <2>1 DEF BoundedBy, Quiet
  <2> QED
    BY <2>1 DEF StoreIsNewest, OrderInv, Quiet
<1>4. ASSUME NEW w \in Watchers, NEW f \in Flags, InOrder(w, f), LookupsLast(w, f)
      PROVE  (InOrder(w, f) /\ LookupsLast(w, f))'
  <2>1. InOrder(w, f)'
    BY <1>1, <1>2, <1>4 DEF InOrder, Reached, Cut, Quiet
  <2>2. LookupsLast(w, f)'
    BY <1>2, <1>4 DEF LookupsLast, Waits, Between, Quiet
  <2> QED
    BY <2>1, <2>2
<1>5. Ordered'
  BY <1>4 DEF Ordered, Exempt, OrderInv, Quiet
<1>6. CacheNeverRegresses'
  BY DEF CacheNeverRegresses, OrderInv, Quiet
<1> QED
  BY <1>3, <1>5, <1>6 DEF OrderInv

(* A step of a watcher while the others have nothing.                        *)
Alone(w) == \A u \in Watchers : u = w \/ (Idle(u) /\ Idle(u)')

LEMMA OthersHaveNothing ==
  ASSUME NEW w \in Watchers, Alone(w)
  PROVE  \A u \in Watchers : u = w \/
           /\ wpc[u] \in {"none", "done"} /\ wpc'[u] \in {"none", "done"}
           /\ u \notin open /\ u \notin open' /\ doc[u] \notin Docs /\ doc'[u] \notin Docs
           /\ feed[u] = <<>> /\ feed'[u] = <<>> /\ \A f : ~Has(doc[u], f) /\ ~Has(doc'[u], f)
<1>1. NoDoc \notin Docs /\ \A f : ~Has(NoDoc, f)
  BY NoDocAssumption DEF Has
<1> QED
  BY <1>1 DEF Alone, Idle

LEMMA OneActs ==
  ASSUME LoopInv, LoopInv', OneActive, OneActive', NEW w \in Watchers,
         Start(w) \/ Watch(w) \/ ServerLooksUp(w)
  PROVE  Alone(w)
<1>1. \A u \in Watchers : u # w => wpc'[u] = wpc[u]
  BY WatchersLoop DEF Loops, LoopStep, ServerLooksUp, watchVars
<1>2. wpc[w] \notin {"none", "done"} \/ wpc'[w] \notin {"none", "done"}
  <2>1. CASE Start(w)
    BY <2>1 DEF Start, Goto, LoopInv, TypeOK
  <2>2. CASE Watch(w)
    BY <2>2 DEF Watch, OpenStream, OpenFails, Next_, StreamFails, StreamEnds, Poll, PollFails, PollCancelled,
       PublishChange, HandleMissing, HandleClear, HandleSet, HandleSetFails, Handled, HandleAll,
       HandleAllFails, GiveUp, At
  <2>3. CASE ServerLooksUp(w)
    <3>1. w \in open
      BY <2>3 DEF ServerLooksUp, LookUp, LoopInv, ClosedIsEmpty
    <3> QED
      BY <3>1 DEF LoopInv, NoStreamLeaks
  <2> QED
    BY <2>1, <2>2, <2>3
<1>3. ASSUME NEW u \in Watchers, u # w
      PROVE  wpc[u] \in {"none", "done"} /\ wpc'[u] \in {"none", "done"}
  BY <1>1, <1>2, <1>3 DEF OneActive
<1>4. ASSUME NEW u \in Watchers, wpc[u] \in {"none", "done"} PROVE Idle(u)
  BY <1>4 DEF Idle, LoopInv, NoStreamLeaks, ClosedIsEmpty, InLoop
<1>5. ASSUME NEW u \in Watchers, wpc'[u] \in {"none", "done"} PROVE Idle(u)'
  BY <1>5 DEF Idle, LoopInv, NoStreamLeaks, ClosedIsEmpty, InLoop
<1> QED
  BY <1>3, <1>4, <1>5 DEF Alone

LEMMA NothingIsInOrder ==
  ASSUME NEW u \in Watchers, NEW f \in Flags, feed'[u] = <<>>, ~Has(doc'[u], f)
  PROVE  InOrder(u, f)' /\ LookupsLast(u, f)'
<1>1. DOMAIN feed'[u] = {}
  OBVIOUS
<1> QED
  BY <1>1 DEF InOrder, LookupsLast

(* A definition gets from the watcher's hands into the cache.                *)
Puts(w, f) ==
    /\ UNCHANGED <<single, store, writes, replaced>>
    /\ Has(doc[w], f) /\ CacheSet(f, doc[w][f])
    /\ doc'[w] \in {doc[w], NoDoc}
    /\ feed'[w] = feed[w] /\ ~Ending(w)

LEMMA PutsOrder ==
  ASSUME OrderInv, LoopInv', NEW w \in Watchers, Alone(w), NEW f \in Flags, Puts(w, f)
  PROVE  OrderInv'
<1> DEFINE v == doc[w][f]
<1>1. v \in Nat /\ newest[f] \in Nat
  BY HasTyped, Typed DEF OrderInv, LoopInv, Puts
<1>2. /\ newest' = [newest EXCEPT ![f] = IF v > newest[f] THEN v ELSE newest[f]]
      /\ cache' = [cache EXCEPT ![f] = v]
      /\ newest \in [Flags -> Versions] /\ cache \in [Flags -> Versions]
  BY DEF Puts, CacheSet, OrderInv, LoopInv, TypeOK
<1>3. /\ \A g \in Flags : g # f => newest'[g] = newest[g] /\ cache'[g] = cache[g]
      /\ newest'[f] = (IF v > newest[f] THEN v ELSE newest[f]) /\ cache'[f] = v
  BY <1>2
<1> HIDE DEF v
<1>4. \A g : Has(doc'[w], g) => Has(doc[w], g) /\ doc'[w] = doc[w]
  BY HasTyped DEF Puts
<1>5. \A u \in Watchers : u = w \/
         /\ wpc[u] \in {"none", "done"} /\ wpc'[u] \in {"none", "done"}
         /\ u \notin open /\ u \notin open' /\ doc[u] \notin Docs /\ doc'[u] \notin Docs
         /\ feed[u] = <<>> /\ feed'[u] = <<>> /\ \A h : ~Has(doc[u], h) /\ ~Has(doc'[u], h)
  BY OthersHaveNothing
<1>6. Has(doc[w], f) /\ v = doc[w][f]
  BY DEF Puts, v
<1>7. StoreIsNewest'
  <2>1. ASSUME NEW x, NEW g \in Flags, BoundedBy(x, g) PROVE BoundedBy(x, g)'
    <3>1. newest'[g] <= x
      BY <1>1, <1>3, <1>6, <2>1 DEF BoundedBy
    <3> QED
      BY <1>4, <1>5, <2>1, <3>1 DEF BoundedBy, Puts
  <2> QED
    BY <2>1 DEF StoreIsNewest, OrderInv, Puts
<1>8. ASSUME NEW g \in Flags, ~Exempt(g) PROVE (InOrder(w, g) /\ LookupsLast(w, g))'
  <2>1. InOrder(w, g) /\ LookupsLast(w, g)
    BY <1>8 DEF OrderInv, Ordered
  <2>2. LookupsLast(w, g)'
    BY <2>1 DEF LookupsLast, Waits, Between, Puts
  <2>3. Has(doc[w], g) => newest[g] <= doc[w][g]
    BY <2>1 DEF InOrder
  <2>4. g = f => newest'[g] = v
    BY <1>1, <1>3, <1>6, <2>3
  <2>5. ASSUME NEW i \in DOMAIN feed[w], Reached(w, i), Has(feed[w][i].doc, g)
        PROVE  newest'[g] <= feed[w][i].doc[g]
    BY <1>3, <1>6, <2>1, <2>4, <2>5 DEF InOrder
  <2>6. Has(doc'[w], g) => newest'[g] <= doc'[w][g]
    BY <1>1, <1>3, <1>4, <1>6, <2>3, <2>4
  <2>7. ASSUME NEW i \in DOMAIN feed[w], Reached(w, i)' PROVE Reached(w, i)
    BY <2>7 DEF Reached, Cut, Puts
  <2>8. InOrder(w, g)'
    BY <1>4, <2>1, <2>5, <2>6, <2>7 DEF InOrder, Puts
  <2> QED
    BY <2>2, <2>8
<1>9. Ordered'
  BY <1>5, <1>8, NothingIsInOrder DEF Ordered, Exempt, Puts
<1>10. CacheNeverRegresses'
  <2>1. ~Exempt(f) => newest'[f] = v
    <3>1. ~Exempt(f) => newest[f] <= v
      BY <1>6 DEF OrderInv, Ordered, InOrder
    <3> QED
      BY <1>1, <1>3, <3>1
  <2> QED
    BY <1>3, <2>1 DEF CacheNeverRegresses, OrderInv, Exempt, Puts
<1> QED
  BY <1>7, <1>9, <1>10 DEF OrderInv

(* The next event of the stream comes into the watcher's hands.              *)
Takes(w) ==
    /\ UNCHANGED <<single, store, writes, newest, replaced, cache>>
    /\ feed[w] # <<>> /\ feed'[w] = Tail(feed[w])
    /\ doc'[w] = feed[w][1].doc /\ feed[w][1].doc # Unread
    /\ ~Ending(w) /\ wpc'[w] = "publish"

LEMMA TakesOrder ==
  ASSUME OrderInv, LoopInv', NEW w \in Watchers, Alone(w), Takes(w)
  PROVE  OrderInv'
<1> DEFINE n == Len(feed[w])
<1>1. /\ n \in Nat \ {0} /\ DOMAIN feed[w] = 1..n /\ DOMAIN feed'[w] = 1..n - 1
      /\ \A i \in 1..n - 1 : feed'[w][i] = feed[w][i + 1]
  <2>1. feed[w] \in Seq(Events)
    BY Typed DEF OrderInv, LoopInv
  <2> QED
    BY <2>1, TailFacts DEF Takes
<1>2. \A u \in Watchers : u = w \/
         /\ wpc[u] \in {"none", "done"} /\ wpc'[u] \in {"none", "done"}
         /\ u \notin open /\ u \notin open' /\ doc[u] \notin Docs /\ doc'[u] \notin Docs
         /\ feed[u] = <<>> /\ feed'[u] = <<>> /\ \A h : ~Has(doc[u], h) /\ ~Has(doc'[u], h)
  BY OthersHaveNothing
<1> HIDE DEF n
<1>3. StoreIsNewest'
  <2>1. ASSUME NEW x, NEW g \in Flags, BoundedBy(x, g) PROVE BoundedBy(x, g)'
    <3>1. Has(doc'[w], g) => doc'[w][g] <= x
      BY <1>1, <2>1 DEF BoundedBy, Takes
    <3>2. ASSUME NEW i \in 1..n - 1, Has(feed'[w][i].doc, g) PROVE feed'[w][i].doc[g] <= x
      <4>1. i + 1 \in 1..n /\ feed'[w][i] = feed[w][i + 1]
        BY <1>1
      <4> QED
        BY <1>1, <2>1, <3>2, <4>1 DEF BoundedBy
    <3> QED
      BY <1>1, <1>2, <2>1, <3>1, <3>2 DEF BoundedBy, Takes
  <2> QED
    BY <2>1 DEF StoreIsNewest, OrderInv, Takes
<1>4. Reached(w, 1)
  BY DEF Reached, Cut, Takes
<1>5. ASSUME NEW i \in 1..n - 1, Reached(w, i)'
      PROVE  i + 1 \in 1..n /\ Reached(w, i + 1)
  <2>1. feed[w][1].doc # NoDoc
    BY <1>5 DEF Reached, Ending, Takes
  <2>2. ASSUME NEW j \in 1..i, feed[w][j].doc = NoDoc PROVE FALSE
    <3>1. j # 1 /\ j - 1 \in 1..i - 1 /\ j - 1 \in 1..n - 1
      <4>1. j # 1
        BY <2>1, <2>2
      <4> QED
        BY <1>1, <4>1
    <3>2. feed'[w][j - 1] = feed[w][j]
      BY <1>1, <3>1
    <3> QED
      BY <1>5, <2>2, <3>1, <3>2 DEF Reached, Cut
  <2>3. i + 1 \in 1..n /\ i + 1 - 1 = i
    BY <1>1
  <2> QED
    BY <2>2, <2>3 DEF Reached, Cut, Takes
<1>6. ASSUME NEW g \in Flags, ~Exempt(g) PROVE (InOrder(w, g) /\ LookupsLast(w, g))'
  <2>1. InOrder(w, g) /\ LookupsLast(w, g)
    BY <1>6 DEF OrderInv, Ordered
  <2>2. Has(doc'[w], g) => newest'[g] <= doc'[w][g]
    BY <1>1, <1>4, <2>1 DEF InOrder, Takes
  <2>3. ASSUME NEW i \in 1..n - 1, Has(feed'[w][i].doc, g), Reached(w, i)'
        PROVE  /\ newest'[g] <= feed'[w][i].doc[g]
               /\ Has(doc'[w], g) => doc'[w][g] <= feed'[w][i].doc[g]
               /\ \A j \in 1..i - 1 : Has(feed'[w][j].doc, g) => feed'[w][j].doc[g] <= feed'[w][i].doc[g]
    <3>1. i + 1 \in 1..n /\ Reached(w, i + 1) /\ feed'[w][i] = feed[w][i + 1]
      BY <1>1, <1>5, <2>3
    <3>2. /\ newest[g] <= feed[w][i + 1].doc[g]
          /\ \A j \in 1..i : Has(feed[w][j].doc, g) => feed[w][j].doc[g] <= feed[w][i + 1].doc[g]
      BY <1>1, <2>1, <2>3, <3>1 DEF InOrder
    <3>3. ASSUME NEW j \in 1..i - 1 PROVE j + 1 \in 1..i /\ feed'[w][j] = feed[w][j + 1]
      <4>1. i \in Nat /\ j \in 1..n - 1 /\ j + 1 \in 1..i
        BY <1>1
      <4> QED
        BY <1>1, <4>1
    <3>4. 1 \in 1..i
      OBVIOUS
    <3> QED
      BY <3>1, <3>2, <3>3, <3>4 DEF Takes
  <2>4. InOrder(w, g)'
    BY <1>1, <2>2, <2>3 DEF InOrder
  <2>5. ASSUME NEW i \in 1..n - 1, Waits(w, i, g)'
        PROVE  /\ \A j \in 1..n - 1 : j > i /\ Has(feed'[w][j].doc, g) => Between(w, i, j)'
               /\ store'[g] = 0 => \E k \in 1..n - 1 : k > i /\ feed'[w][k].doc = NoDoc
    <3>1. i + 1 \in 1..n /\ Waits(w, i + 1, g)
      BY <1>1, <2>5 DEF Waits
    <3>2. ASSUME NEW j \in 1..n - 1, j > i, Has(feed'[w][j].doc, g) PROVE Between(w, i, j)'
      <4>1. j + 1 \in 1..n /\ j + 1 > i + 1 /\ feed'[w][j] = feed[w][j + 1]
        BY <1>1, <3>2
      <4>2. Between(w, i + 1, j + 1)
        BY <1>1, <2>1, <3>1, <3>2, <4>1 DEF LookupsLast
      <4>3. PICK k \in i + 2..j : feed[w][k].doc = NoDoc
        BY <4>2 DEF Between
      <4>4. k - 1 \in i + 1..j - 1 /\ k - 1 \in 1..n - 1
        BY <1>1
      <4>5. feed'[w][k - 1] = feed[w][k]
        BY <1>1, <4>4
      <4> QED
        BY <4>3, <4>4, <4>5 DEF Between
    <3>3. ASSUME store'[g] = 0 PROVE \E k \in 1..n - 1 : k > i /\ feed'[w][k].doc = NoDoc
      <4>1. PICK k \in 1..n : k > i + 1 /\ feed[w][k].doc = NoDoc
        BY <1>1, <2>1, <3>1, <3>3 DEF LookupsLast, Takes
      <4>2. k - 1 \in 1..n - 1 /\ k - 1 > i
        BY <1>1, <4>1
      <4>3. feed'[w][k - 1] = feed[w][k]
        BY <1>1, <4>2
      <4> QED
        BY <4>1, <4>2, <4>3
    <3> QED
      BY <3>2, <3>3
  <2>6. LookupsLast(w, g)'
    BY <1>1, <2>5 DEF LookupsLast
  <2> QED
    BY <2>4, <2>6
<1>7. Ordered'
  BY <1>2, <1>6, NothingIsInOrder DEF Ordered, Exempt, Takes
<1>8. CacheNeverRegresses'
  BY DEF CacheNeverRegresses, OrderInv, Takes
<1> QED
  BY <1>3, <1>7, <1>8 DEF OrderInv

(* What polling finds is what is stored.                                     *)
LEMMA PollOrder ==
  ASSUME OrderInv, LoopInv', NEW w \in Watchers, Alone(w), Poll(w)
  PROVE  OrderInv'
<1>1. \A u \in Watchers : u = w \/
         /\ wpc[u] \in {"none", "done"} /\ wpc'[u] \in {"none", "done"}
         /\ u \notin open /\ u \notin open' /\ doc[u] \notin Docs /\ doc'[u] \notin Docs
         /\ feed[u] = <<>> /\ feed'[u] = <<>> /\ \A h : ~Has(doc[u], h) /\ ~Has(doc'[u], h)
  BY OthersHaveNothing
<1>2. UNCHANGED <<single, store, writes, newest, replaced, cache, feed>>
  BY DEF Poll, storeVars, dbVars, history
<1>3. feed[w] = <<>>
  BY DEF Poll, At, OrderInv, LoopInv, ClosedIsEmpty, NoStreamLeaks
<1>4. store \in [Flags -> Versions]
  BY DEF OrderInv, LoopInv, TypeOK, StoreTypeOK
<1>5. doc'[w] \in FindOne
  BY DEF Poll, OrderInv, LoopInv, TypeOK
<1>6. ASSUME NEW g \in Flags, Has(doc'[w], g) PROVE doc'[w][g] = store[g] /\ store[g] # 0
  <2>1. doc'[w] # NoDoc
    BY <1>6, HasTyped
  <2>2. CASE single
    BY <1>4, <1>5, <1>6, <2>1, <2>2, DocumentHasAll DEF FindOne, Has
  <2>3. CASE ~single
    <3>1. PICK f \in Flags : store[f] # 0 /\ doc'[w] = DocumentOf(f, store)
      BY <1>5, <2>1, <2>3 DEF FindOne
    <3> QED
      BY ZenonT(30), <1>4, <1>6, <3>1, DocumentOfOne DEF Has
  <2> QED
    BY <2>2, <2>3
<1>7. StoreIsNewest'
  <2>1. ASSUME NEW x, NEW g \in Flags, BoundedBy(x, g), Has(doc'[w], g) => store[g] <= x
        PROVE  BoundedBy(x, g)'
    BY <1>1, <1>2, <1>6, <2>1 DEF BoundedBy
  <2> QED
    BY <1>2, <2>1, Typed DEF StoreIsNewest, OrderInv, LoopInv
<1>8. ASSUME NEW g \in Flags PROVE (InOrder(w, g) /\ LookupsLast(w, g))'
  <2>1. Has(doc'[w], g) => newest'[g] <= doc'[w][g]
    BY <1>2, <1>6 DEF OrderInv, StoreIsNewest, BoundedBy
  <2> QED
    BY <1>2, <1>3, <2>1 DEF InOrder, LookupsLast
<1>9. Ordered' /\ CacheNeverRegresses'
  BY <1>1, <1>2, <1>8, NothingIsInOrder DEF Ordered, OrderInv, CacheNeverRegresses
<1> QED
  BY <1>7, <1>9 DEF OrderInv

(* So is what the server looks up; of what comes after it for the same flag  *)
(* nothing is ever handled.                                                  *)
LEMMA LookUpOrder ==
  ASSUME OrderInv, LoopInv', NEW w \in Watchers, Alone(w), NEW i \in DOMAIN feed[w], LookedUp(w, i),
         UNCHANGED <<dbVars, watchVars, cache, history>>
  PROVE  OrderInv'
<1> DEFINE n == Len(feed[w])
           f == feed[w][i].flag
           d == feed'[w][i].doc
<1>1. /\ n \in Nat /\ DOMAIN feed[w] = 1..n /\ DOMAIN feed'[w] = 1..n /\ i \in 1..n
      /\ \A j \in 1..n : j # i => feed'[w][j] = feed[w][j]
  BY Typed DEF LookedUp, OrderInv, LoopInv
<1>2. \A u \in Watchers : u = w \/
         /\ wpc[u] \in {"none", "done"} /\ wpc'[u] \in {"none", "done"}
         /\ u \notin open /\ u \notin open' /\ doc[u] \notin Docs /\ doc'[u] \notin Docs
         /\ feed[u] = <<>> /\ feed'[u] = <<>> /\ \A h : ~Has(doc[u], h) /\ ~Has(doc'[u], h)
  BY OthersHaveNothing
<1>3. UNCHANGED <<single, store, writes, newest, replaced, cache, doc, wpc>>
  BY DEF dbVars, watchVars, history
<1>4. ~single /\ f \in Flags
  BY <1>1 DEF LookedUp, OrderInv, LoopInv, FeedShape, EventShape
<1>5. store \in [Flags -> Versions] /\ d = DocumentOf(f, store)
  BY <1>4 DEF LookedUp, OrderInv, LoopInv, TypeOK, StoreTypeOK, Image
<1>6. ASSUME NEW g, Has(d, g) PROVE g = f /\ d[g] = store[g] /\ store[g] # 0
  <2>1. d # NoDoc
    BY <1>6, HasTyped
  <2>2. store[f] # 0 /\ DOMAIN d = {f} /\ d[f] = store[f]
    BY SMTT(30), <1>4, <1>5, <2>1, DocumentOfOne
  <2> QED
    BY <1>6, <2>2 DEF Has
<1>7. store[f] = 0 => d = NoDoc
  BY <1>4, <1>5, DocumentOfOne
<1>8. /\ feed[w][i].doc = Unread /\ \A j \in 1..i - 1 : feed[w][j].doc # Unread
      /\ feed[w][i].doc # NoDoc /\ Waits(w, i, f)
  BY NoDocAssumption DEF LookedUp, Waits
<1> HIDE DEF n, f, d
<1>9. StoreIsNewest'
  <2>1. ASSUME NEW x, NEW g \in Flags, BoundedBy(x, g), Has(d, g) => store[g] <= x
        PROVE  BoundedBy(x, g)'
    <3>1. ASSUME NEW j \in 1..n, Has(feed'[w][j].doc, g) PROVE feed'[w][j].doc[g] <= x
      BY <1>1, <1>6, <2>1, <3>1 DEF BoundedBy, d
    <3> QED
      BY <1>1, <1>2, <1>3, <2>1, <3>1 DEF BoundedBy
  <2> QED
    BY <1>3, <2>1, Typed DEF StoreIsNewest, OrderInv, LoopInv
<1>10. ASSUME NEW j \in 1..n, Reached(w, j)' PROVE Reached(w, j)
  <2>1. ASSUME NEW k \in 1..j - 1, feed[w][k].doc = NoDoc PROVE feed'[w][k].doc = NoDoc
    BY <1>1, <1>8, <2>1
  <2> QED
    BY <1>3, <1>10, <2>1 DEF Reached, Cut, Ending
<1>11. ASSUME NEW g \in Flags, ~Exempt(g) PROVE (InOrder(w, g) /\ LookupsLast(w, g))'
  <2>1. InOrder(w, g) /\ LookupsLast(w, g)
    BY <1>11 DEF OrderInv, Ordered
  <2>2. ASSUME NEW j \in 1..n, Has(feed'[w][j].doc, g), Reached(w, j)'
        PROVE  /\ newest[g] <= feed'[w][j].doc[g]
               /\ Has(doc[w], g) => doc[w][g] <= feed'[w][j].doc[g]
               /\ \A k \in 1..j - 1 : Has(feed'[w][k].doc, g) => feed'[w][k].doc[g] <= feed'[w][j].doc[g]
    <3>1. CASE j = i
      <4>1. g = f /\ feed'[w][j].doc[g] = store[g] /\ store[g] # 0
        BY <1>6, <2>2, <3>1 DEF d
      <4>2. BoundedBy(store[g], g)
        BY <4>1 DEF OrderInv, StoreIsNewest
      <4>3. \A k \in 1..j - 1 : k \in 1..n /\ feed'[w][k] = feed[w][k]
        BY <1>1, <3>1
      <4> QED
        BY <1>1, <4>1, <4>2, <4>3 DEF BoundedBy
    <3>2. CASE j # i
      <4>1. feed'[w][j] = feed[w][j] /\ Reached(w, j)
        BY <1>1, <1>10, <2>2, <3>2
      <4>2. ASSUME NEW k \in 1..j - 1, Has(feed'[w][k].doc, g), k = i PROVE FALSE
        <5>1. g = f
          BY <1>6, <4>2 DEF d
        <5>2. Between(w, i, j)
          BY <1>1, <1>8, <2>1, <2>2, <4>1, <4>2, <5>1 DEF LookupsLast
        <5>3. Cut(w, j)
          BY <1>1, <5>2 DEF Between, Cut
        <5> QED
          BY <4>1, <5>3 DEF Reached
      <4>3. \A k \in 1..j - 1 : k # i => feed'[w][k] = feed[w][k]
        BY <1>1
      <4> QED
        BY <1>1, <2>1, <2>2, <4>1, <4>2, <4>3 DEF InOrder
    <3> QED
      BY <3>1, <3>2
  <2>3. InOrder(w, g)'
    BY <1>1, <1>3, <2>1, <2>2 DEF InOrder
  <2>4. ASSUME NEW j \in 1..n, Waits(w, j, g)'
        PROVE  /\ \A m \in 1..n : m > j /\ Has(feed'[w][m].doc, g) => Between(w, j, m)'
               /\ store[g] = 0 => \E k \in 1..n : k > j /\ feed'[w][k].doc = NoDoc
    <3>1. j # i
      <4>1. d # Unread
        BY <1>4, <1>5, DocumentOfOne, DocIsTyped, NoDocAssumption
      <4> QED
        BY <2>4, <4>1 DEF Waits, d
    <3>2. Waits(w, j, g) /\ j > i
      <4>1. Waits(w, j, g)
        BY <1>1, <2>4, <3>1 DEF Waits
      <4>2. ~(j < i)
        BY <1>1, <1>8, <4>1 DEF Waits
      <4> QED
        BY <1>1, <3>1, <4>1, <4>2
    <3>3. \A k \in 1..n : k > j => feed'[w][k] = feed[w][k]
      BY <1>1, <3>2
    <3>4. ASSUME NEW m \in 1..n, m > j, Has(feed'[w][m].doc, g) PROVE Between(w, j, m)'
      <4>1. Between(w, j, m)
        BY <1>1, <2>1, <3>2, <3>3, <3>4 DEF LookupsLast
      <4> QED
        BY <1>1, <3>3, <4>1 DEF Between
    <3> QED
      BY <1>1, <2>1, <3>2, <3>3, <3>4 DEF LookupsLast
  <2>5. LookupsLast(w, g)'
    BY <1>1, <1>3, <2>4 DEF LookupsLast
  <2> QED
    BY <2>3, <2>5
<1>12. Ordered'
  BY <1>2, <1>3, <1>11, NothingIsInOrder DEF Ordered, Exempt
<1>13. CacheNeverRegresses'
  BY <1>3 DEF CacheNeverRegresses, OrderInv
<1> QED
  BY <1>9, <1>12, <1>13 DEF OrderInv

(* A write gives the streams an event that is newer than all there was.      *)
LEMMA GrowthOrder ==
  ASSUME OrderInv, LoopInv', NEW e \in Events, StoreStep(e), Contents(e),
         UNCHANGED <<watchVars, cache, newest>>, replaced' = replaced \cup Replaced'
  PROVE  OrderInv'
<1>1. UNCHANGED <<doc, wpc, cache, newest, single, open>> /\ \A f \in Flags : Exempt(f) => Exempt(f)'
  BY DEF watchVars, StoreStep, Exempt
<1>2. /\ writes \in Nat /\ writes' \in Nat /\ writes <= writes'
      /\ \A f \in Flags : newest[f] \in Nat /\ store[f] \in Nat /\ store'[f] \in {0, store[f], writes'}
  BY Typed, StoreAssumption DEF OrderInv, LoopInv, StoreStep, Contents, Versions
<1>3. ASSUME NEW w \in Watchers, feed'[w] # feed[w]
      PROVE  /\ w \in open /\ DOMAIN feed'[w] = 1..Len(feed[w]) + 1 /\ feed'[w][Len(feed[w]) + 1] = e
             /\ \A i \in 1..Len(feed[w]) : feed'[w][i] = feed[w][i]
             /\ EventShape(single, e)
  <2>1. feed[w] \in Seq(Events) /\ w \in open /\ feed'[w] = Append(feed[w], e) /\ EventShape(single, e)
    BY <1>3, Typed DEF StoreStep, Grown, OrderInv, LoopInv
  <2> QED
    BY <2>1
<1>4. \A w \in Watchers : DOMAIN feed[w] = 1..Len(feed[w]) /\ Len(feed[w]) \in Nat
  BY Typed DEF OrderInv, LoopInv
<1>5. ASSUME NEW f \in Flags, Has(e.doc, f) PROVE e.doc[f] = store'[f] /\ store'[f] # 0
  BY <1>5, HasTyped DEF Contents
<1>6. ASSUME NEW f \in Flags, NEW x, store'[f] <= x, BoundedBy(x, f) PROVE BoundedBy(x, f)'
  <2>1. ASSUME NEW w \in Watchers, NEW i \in DOMAIN feed'[w], Has(feed'[w][i].doc, f)
        PROVE  feed'[w][i].doc[f] <= x
    BY SMTT(30), <1>3, <1>4, <1>5, <1>6, <2>1 DEF BoundedBy
  <2> QED
    BY <1>1, <1>6, <2>1 DEF BoundedBy
<1>7. ASSUME NEW f \in Flags, BoundedBy(writes, f) PROVE BoundedBy(writes', f)
  <2>1. ASSUME NEW d, Has(d, f), d[f] <= writes PROVE d[f] <= writes'
    BY <1>2, <2>1, HasTyped
  <2> QED
    BY <1>2, <1>7, <2>1 DEF BoundedBy
<1>8. StoreIsNewest'
  <2>1. ASSUME NEW f \in Flags PROVE BoundedBy(writes', f) /\ store'[f] <= writes'
    BY <1>2, <1>7 DEF OrderInv, StoreIsNewest
  <2>2. ASSUME NEW f \in Flags, store'[f] # 0 PROVE BoundedBy(store'[f], f)
    BY <2>1, <2>2 DEF OrderInv, StoreIsNewest, Contents
  <2>3. ASSUME NEW f \in Flags, NEW x, x = writes' PROVE BoundedBy(x, f)'
    BY <1>6, <2>1, <2>3
  <2>4. ASSUME NEW f \in Flags, store'[f] # 0, NEW x, x = store'[f] PROVE BoundedBy(x, f)'
    <3>1. store'[f] <= x /\ BoundedBy(x, f)
      BY <1>2, <2>2, <2>4
    <3> QED
      BY <1>6, <3>1
  <2> QED
    BY <2>1, <2>3, <2>4 DEF StoreIsNewest, BoundedBy
<1>9. ASSUME NEW w \in Watchers, NEW f \in Flags, ~Exempt(f)'
      PROVE  (InOrder(w, f) /\ LookupsLast(w, f))'
  <2> DEFINE n == Len(feed[w]) + 1
  <2>1. InOrder(w, f) /\ LookupsLast(w, f)
    BY <1>1, <1>9 DEF OrderInv, Ordered
  <2>2. CASE feed'[w] = feed[w]
    <3>1. InOrder(w, f)'
      BY <1>1, <2>1, <2>2 DEF InOrder, Reached, Cut, Ending
    <3>2. store'[f] = 0 => store[f] = 0 \/ DOMAIN feed[w] = {} \/ single
      <4>1. CASE store[f] # 0 /\ store'[f] = 0 /\ w \in open
        <5>1. ~single => feed'[w] = Append(feed[w], e)
          BY <4>1 DEF Contents
        <5>2. feed[w] \in Seq(Events)
          BY Typed DEF OrderInv, LoopInv
        <5>3. Len(Append(feed[w], e)) # Len(feed[w])
          BY <5>2
        <5>4. single
          BY <2>2, <5>1, <5>3
        <5> QED
          BY <4>1, <5>4
      <4>2. CASE w \notin open
        BY <1>4, <4>2 DEF OrderInv, LoopInv, ClosedIsEmpty
      <4> QED
        BY <4>1, <4>2
    <3>3. \A i \in DOMAIN feed[w] : Waits(w, i, f) => ~single
      BY DEF Waits, OrderInv, LoopInv, FeedShape, EventShape
    <3> QED
      BY <1>1, <2>1, <2>2, <3>1, <3>2, <3>3 DEF LookupsLast, Waits, Between
  <2>3. CASE feed'[w] # feed[w]
    <3>1. /\ w \in open /\ DOMAIN feed'[w] = 1..n /\ feed'[w][n] = e /\ EventShape(single, e)
          /\ n \in Nat \ {0} /\ DOMAIN feed[w] = 1..n - 1
          /\ \A i \in 1..n - 1 : feed'[w][i] = feed[w][i]
      BY <1>3, <1>4, <2>3
    <3> HIDE DEF n
    <3>2. ASSUME NEW i \in 1..n - 1, Reached(w, i)' PROVE Reached(w, i)
      <4>1. \A j \in 1..i - 1 : j \in 1..n - 1 /\ feed'[w][j] = feed[w][j]
        BY <3>1
      <4>2. Cut(w, i) => Cut(w, i)'
        BY <4>1 DEF Cut
      <4> QED
        BY <1>1, <3>2, <4>2 DEF Reached, Ending
    <3>3. ASSUME Has(e.doc, f) PROVE BoundedBy(e.doc[f], f)'
      BY <1>5, <1>8, <3>3 DEF StoreIsNewest
    <3>4. InOrder(w, f)'
      <4>1. ASSUME NEW i \in 1..n, Has(feed'[w][i].doc, f), Reached(w, i)'
            PROVE  /\ newest[f] <= feed'[w][i].doc[f]
                   /\ Has(doc[w], f) => doc[w][f] <= feed'[w][i].doc[f]
                   /\ \A j \in 1..i - 1 : Has(feed'[w][j].doc, f) => feed'[w][j].doc[f] <= feed'[w][i].doc[f]
        <5>1. CASE i = n
          BY <1>1, <3>1, <3>3, <4>1, <5>1 DEF BoundedBy
        <5>2. CASE i # n
          <6>1. i \in 1..n - 1 /\ \A j \in 1..i - 1 : feed'[w][j] = feed[w][j]
            BY <3>1, <5>2
          <6>2. Has(feed[w][i].doc, f) /\ Reached(w, i)
            BY <3>1, <3>2, <4>1, <6>1
          <6>3. /\ newest[f] <= feed[w][i].doc[f]
                /\ Has(doc[w], f) => doc[w][f] <= feed[w][i].doc[f]
                /\ \A j \in 1..i - 1 : Has(feed[w][j].doc, f) => feed[w][j].doc[f] <= feed[w][i].doc[f]
            BY <2>1, <3>1, <6>1, <6>2 DEF InOrder
          <6> QED
            BY <3>1, <6>1, <6>3
        <5> QED
          BY <5>1, <5>2
      <4> QED
        BY <1>1, <2>1, <3>1, <4>1 DEF InOrder
    <3>5. LookupsLast(w, f)'
      <4>1. ASSUME NEW i \in 1..n - 1, Waits(w, i, f)' PROVE Waits(w, i, f) /\ ~single
        <5>1. Waits(w, i, f)
          BY <3>1, <4>1 DEF Waits
        <5> QED
          BY <3>1, <5>1 DEF Waits, OrderInv, LoopInv, FeedShape, EventShape
      <4>2. ASSUME NEW i \in 1..n - 1, Waits(w, i, f)', NEW j \in 1..n, j > i, Has(feed'[w][j].doc, f)
            PROVE  Between(w, i, j)'
        <5>1. CASE j # n
          <6>1. /\ i \in DOMAIN feed[w] /\ j \in DOMAIN feed[w] /\ j \in 1..n - 1
                /\ Waits(w, i, f) /\ Has(feed[w][j].doc, f)
            BY <3>1, <4>1, <4>2, <5>1
          <6>2. Between(w, i, j)
            BY <2>1, <4>2, <6>1 DEF LookupsLast
          <6>3. \A k \in i + 1..j - 1 : k \in 1..n - 1
            BY <3>1, <6>1
          <6> QED
            BY <3>1, <6>2, <6>3 DEF Between
        <5>2. CASE j = n
          <6>1. ~single /\ Waits(w, i, f) /\ Has(e.doc, f)
            BY <3>1, <4>1, <4>2, <5>2
          <6>2. e.op # "replace"
            <7>1. ASSUME e.op = "replace" PROVE FALSE
              <8>1. e.flag = f
                BY <3>1, <6>1 DEF EventShape
              <8>2. f \in Replaced'
                BY <1>1, <3>1, <7>1, <8>1 DEF Replaced
              <8> QED
                BY <1>1, <1>9, <6>1, <8>2 DEF Exempt
            <7> QED
              BY <7>1
          <6>3. store[f] = 0
            BY <6>1, <6>2 DEF Contents
          <6>4. PICK k \in 1..n - 1 : k > i /\ feed[w][k].doc = NoDoc
            BY <2>1, <3>1, <6>1, <6>3 DEF LookupsLast
          <6>5. k \in i + 1..n - 1 /\ feed'[w][k] = feed[w][k]
            BY <3>1, <6>4
          <6> QED
            BY <5>2, <6>4, <6>5 DEF Between
        <5> QED
          BY <5>1, <5>2
      <4>3. ASSUME NEW i \in 1..n - 1, Waits(w, i, f)', store'[f] = 0
            PROVE  \E k \in 1..n : k > i /\ feed'[w][k].doc = NoDoc
        <5>1. CASE store[f] = 0
          <6>1. PICK k \in 1..n - 1 : k > i /\ feed[w][k].doc = NoDoc
            BY <2>1, <3>1, <4>1, <4>3, <5>1 DEF LookupsLast
          <6> QED
            BY <3>1, <6>1
        <5>2. CASE store[f] # 0
          <6>1. e.doc = NoDoc
            BY <4>1, <4>3, <5>2 DEF Contents
          <6> QED
            BY <3>1, <6>1
        <5> QED
          BY <5>1, <5>2
      <4>4. ASSUME NEW i \in 1..n, i = n, Waits(w, i, f)' PROVE store'[f] # 0
        <5>1. e.doc = Unread /\ e.flag = f
          BY <3>1, <4>4 DEF Waits
        <5>2. ~single
          BY <3>1, <5>1 DEF EventShape
        <5> QED
          BY <5>1, <5>2 DEF Contents
      <4> QED
        BY <3>1, <4>2, <4>3, <4>4 DEF LookupsLast
    <3> QED
      BY <3>4, <3>5
  <2> QED
    BY <2>2, <2>3
<1>10. Ordered'
  BY <1>9 DEF Ordered
<1>11. CacheNeverRegresses'
  BY <1>1 DEF CacheNeverRegresses, OrderInv, Exempt
<1> QED
  BY <1>8, <1>10, <1>11 DEF OrderInv

LEMMA EnvironmentOrder ==
  ASSUME OrderInv, LoopInv', Environment
  PROVE  OrderInv'
<1>1. CASE /\ StoreNext
           /\ images' = IF single THEN images \cup {Document(store')} ELSE images
           /\ replaced' = replaced \cup Replaced'
           /\ UNCHANGED <<eventVars, watchVars, cache, locked, newest, since, reported>>
  <2>1. PICK e \in Events : StoreStep(e) /\ Contents(e) /\ Tells(e)
    BY <1>1, StoreContents DEF OrderInv, LoopInv
  <2> QED
    BY <1>1, <2>1, GrowthOrder
<1>2. CASE Receive /\ ~crashed /\ UNCHANGED <<storeVars, watchVars, cache, locked, history>>
  <2>1. Quiet
    BY <1>2 DEF Quiet, Ending, storeVars, dbVars, watchVars, history
  <2> QED
    BY <2>1, QuietOrder
<1> QED
  BY <1>1, <1>2 DEF Environment

(* An attempt or the handling of an event that fails.                        *)
LEMMA FailingIsQuiet ==
  ASSUME LoopInv, NEW w \in Watchers, HandlingFails(w), wpc[w] \in {"handle", "fill"}
  PROVE  Quiet
<1>1. UNCHANGED <<single, store, writes, newest, replaced, cache>>
  BY DEF HandlingFails, dbVars, history
<1>2. doc' = [doc EXCEPT ![w] = NoDoc] /\ doc \in [Watchers -> Docs \cup {NoDoc}]
      /\ feed \in [Watchers -> Seq(Events)] /\ wpc \in [Watchers -> WPC]
  BY DEF HandlingFails, LoopInv, TypeOK, StoreTypeOK
<1>3. \A v \in Watchers : v # w => wpc'[v] = wpc[v] /\ feed'[v] = feed[v] /\ doc'[v] = doc[v]
  BY <1>2 DEF HandlingFails, Fail, Closed, NextTry, Goto
<1>4. feed'[w] = <<>>
  <2>1. CASE Streaming(w)
    BY <1>2, <2>1 DEF HandlingFails, Fail, Closed
  <2>2. CASE ~Streaming(w)
    BY <2>2 DEF HandlingFails, Fail, LoopInv, ClosedIsEmpty, NoStreamLeaks
  <2> QED
    BY <2>1, <2>2
<1> QED
  BY <1>1, <1>2, <1>3, <1>4 DEF Quiet, Ending

(* The steps of a watcher that add nothing.                                  *)
QuietSteps(w) ==
    \/ Start(w) \/ OpenStream(w) \/ OpenFails(w) \/ StreamFails(w) \/ StreamEnds(w)
    \/ PollFails(w) \/ PollCancelled(w) \/ PublishChange(w) \/ HandleMissing(w)
    \/ HandleClear(w) \/ HandleSetFails(w) \/ Handled(w) \/ HandleAllFails(w) \/ GiveUp(w)

LEMMA QuietWatcher ==
  ASSUME LoopInv, NEW w \in Watchers, QuietSteps(w)
  PROVE  Quiet
<1> USE DEF LoopInv, TypeOK, StoreTypeOK
<1>1. CASE Start(w)
  BY <1>1 DEF Start, At, Goto, Quiet, Ending, storeVars, dbVars, history
<1>2. CASE OpenStream(w)
  BY <1>2 DEF OpenStream, At, Goto, Quiet, Ending, dbVars
<1>3. CASE OpenFails(w)
  BY <1>3 DEF OpenFails, At, NextTry, Goto, Quiet, Ending, storeVars, dbVars, history
<1>4. CASE StreamFails(w)
  BY <1>4 DEF StreamFails, At, NextTry, Goto, Closed, Quiet, Ending, dbVars, history
<1>5. CASE StreamEnds(w)
  BY <1>5 DEF StreamEnds, At, Goto, Closed, Quiet, Ending, dbVars, history
<1>6. CASE PollFails(w)
  BY <1>6 DEF PollFails, At, NextTry, Goto, Quiet, Ending, storeVars, dbVars, history
<1>7. CASE PollCancelled(w)
  BY <1>7 DEF PollCancelled, At, Goto, Quiet, Ending, storeVars, dbVars, history
<1>8. CASE PublishChange(w)
  BY <1>8 DEF PublishChange, At, Goto, Quiet, Ending, storeVars, dbVars, history
<1>9. CASE HandleMissing(w)
  BY <1>9, FailingIsQuiet DEF HandleMissing, At
<1>10. CASE HandleClear(w)
  BY <1>10 DEF HandleClear, At, Goto, Quiet, Ending, Empty, storeVars, dbVars, history
<1>11. CASE HandleSetFails(w)
  BY <1>11, FailingIsQuiet DEF HandleSetFails, At
<1>12. CASE Handled(w)
  BY <1>12 DEF Handled, At, Resume, Goto, Quiet, Ending, storeVars, dbVars, history
<1>13. CASE HandleAllFails(w)
  BY <1>13, FailingIsQuiet DEF HandleAllFails, At
<1>14. CASE GiveUp(w)
  BY <1>14 DEF GiveUp, At, Goto, Quiet, Ending, storeVars, dbVars
<1> QED
  BY <1>1, <1>2, <1>3, <1>4, <1>5, <1>6, <1>7, <1>8, <1>9, <1>10, <1>11, <1>12, <1>13, <1>14
  DEF QuietSteps

LEMMA HandlingPuts ==
  ASSUME LoopInv, NEW w \in Watchers, HandleSet(w) \/ HandleAll(w)
  PROVE  \E f \in Flags : Puts(w, f)
<1>1. CASE HandleSet(w)
  <2>1. PICK f \in todo[w] : CacheSet(f, doc[w][f])
    BY <1>1 DEF HandleSet
  <2>2. f \in Flags /\ Has(doc[w], f) /\ ~Ending(w)
    BY <1>1, DocIsTyped DEF HandleSet, At, LoopInv, InLoop, Has, Ending
  <2> QED
    BY <1>1, <2>1, <2>2 DEF HandleSet, Puts, storeVars, dbVars
<1>2. CASE HandleAll(w)
  <2>1. PICK f \in DOMAIN doc[w] : CacheSet(f, doc[w][f])
    BY <1>2 DEF HandleAll
  <2>2. f \in Flags /\ Has(doc[w], f) /\ ~Ending(w)
    BY <1>2, DocIsTyped DEF HandleAll, At, LoopInv, TypeOK, Has, Ending
  <2>3. doc'[w] = NoDoc
    BY <1>2 DEF HandleAll, LoopInv, TypeOK
  <2> QED
    BY <1>2, <2>1, <2>2, <2>3 DEF HandleAll, Puts, storeVars, dbVars
<1> QED
  BY <1>1, <1>2

LEMMA NextTakes ==
  ASSUME LoopInv, NEW w \in Watchers, Next_(w)
  PROVE  Takes(w)
<1>1. feed[w] \in Seq(Events) /\ feed[w] # <<>> /\ Head(feed[w]) = feed[w][1]
  BY Typed, TailFacts DEF Next_, LoopInv
<1> QED
  BY <1>1 DEF Next_, At, Goto, Ending, Takes, LoopInv, TypeOK, StoreTypeOK, dbVars, history

LEMMA OrderStart == WatchInit => OrderInv
<1> SUFFICES ASSUME WatchInit PROVE OrderInv
  OBVIOUS
<1>1. LoopInv
  BY LoopStart
<1>2. /\ \A w \in Watchers : feed[w] = <<>> /\ doc[w] = NoDoc
      /\ \A f \in Flags : cache[f] = 0 /\ newest[f] = 0 /\ store[f] = 0
      /\ writes = 0
  BY DEF WatchInit, StoreInit, Empty
<1>3. \A f \in Flags : ~Has(NoDoc, f)
  BY EndsHaveNothing
<1> QED
  BY <1>1, <1>2, <1>3 DEF OrderInv, StoreIsNewest, BoundedBy, Ordered, InOrder, LookupsLast, CacheNeverRegresses

LEMMA OrderNext ==
  ASSUME OneActive, OneActive', OrderInv, [Next]_vars
  PROVE  OrderInv'
<1>1. LoopInv /\ LoopInv'
  BY LoopNext DEF OrderInv
<1>0. ASSUME NEW w \in Watchers, Start(w) \/ Watch(w) \/ ServerLooksUp(w) PROVE Alone(w)
  BY <1>1, <1>0, OneActs
<1>2. CASE Environment
  BY <1>1, <1>2, EnvironmentOrder
<1>3. CASE Cancel \/ UNCHANGED vars
  <2>1. Quiet
    BY <1>3 DEF Cancel, vars, watchVars, history, Quiet, Ending, storeVars, dbVars
  <2> QED
    BY <1>1, <2>1, QuietOrder
<1>4. ASSUME NEW w \in Watchers, QuietSteps(w) PROVE OrderInv'
  BY <1>1, <1>4, QuietWatcher, QuietOrder
<1>5. ASSUME NEW w \in Watchers, HandleSet(w) \/ HandleAll(w) PROVE OrderInv'
  BY <1>0, <1>1, <1>5, HandlingPuts, PutsOrder DEF Watch
<1>6. ASSUME NEW w \in Watchers, Next_(w) PROVE OrderInv'
  BY <1>0, <1>1, <1>6, NextTakes, TakesOrder DEF Watch
<1>7. ASSUME NEW w \in Watchers, Poll(w) PROVE OrderInv'
  BY <1>0, <1>1, <1>7, PollOrder DEF Watch
<1>8. ASSUME NEW w \in Watchers, ServerLooksUp(w) PROVE OrderInv'
  <2>1. PICK i \in DOMAIN feed[w] : LookedUp(w, i)
    BY <1>1, <1>8, LookUpSteps DEF ServerLooksUp, LoopInv
  <2>2. UNCHANGED <<dbVars, watchVars, cache, history>>
    BY <1>8 DEF ServerLooksUp, LookUp
  <2> QED
    BY <1>0, <1>1, <1>8, <2>1, <2>2, LookUpOrder
<1> QED
  BY <1>2, <1>3, <1>4, <1>5, <1>6, <1>7, <1>8 DEF Next, Watch, QuietSteps

(* As long as no two watchers run at once, none puts an older definition     *)
(* into the cache in place of a newer one, whatever is written, looked up    *)
(* late, lost or retried, unless another program replaces the flag's         *)
(* document (changestream.go:28, polling.go:43).                             *)
THEOREM CacheGoesForward == Spec /\ []OneActive => []CacheNeverRegresses
<1>1. OneActive /\ OneActive' /\ OrderInv /\ [Next]_vars => OrderInv'
  BY OrderNext
<1>2. OrderInv => CacheNeverRegresses
  BY DEF OrderInv
<1> QED
  BY <1>1, <1>2, OrderStart, PTL DEF Spec

-------------------------------------------------------------------------------
(* Nothing is missed *)

(* A step that leaves a stream, the event in hand and the cache alone, or    *)
(* leaves no stream, or one that has just been opened.                       *)
Leaves ==
    /\ UNCHANGED <<single, store, writes>>
    /\ \A w \in Watchers : doc'[w] \in {doc[w], NoDoc}
    /\ \A w \in open' :
        \/ since'[w] = writes
        \/ /\ w \in open /\ since'[w] = since[w] /\ feed'[w] = feed[w] /\ doc'[w] = doc[w]
           /\ UNCHANGED cache
           /\ wpc'[w] \in {"publish", "handle"} <=> wpc[w] \in {"publish", "handle"}

LEMMA LeavesAll ==
  ASSUME MissInv, OrderInv', Leaves
  PROVE  MissInv'
<1>1. OneFlag'
  BY EndsHaveNothing DEF MissInv, OneFlag, Leaves
<1>2. ASSUME NEW w \in open', NEW f \in Flags, ~single, store[f] > since'[w]
      PROVE  Carried(w, f)'
  <2>1. ~(store[f] > writes)
    BY Typed DEF MissInv, OrderInv, LoopInv, StoreIsNewest
  <2>2. /\ w \in open /\ since'[w] = since[w] /\ feed'[w] = feed[w] /\ doc'[w] = doc[w]
        /\ UNCHANGED cache
        /\ wpc'[w] \in {"publish", "handle"} <=> wpc[w] \in {"publish", "handle"}
    BY <1>2, <2>1 DEF Leaves
  <2>3. Carried(w, f)
    BY <1>2, <2>2 DEF MissInv
  <2>4. CASE \E i \in DOMAIN feed[w] : LastOf(w, f, i) /\ feed[w][i].doc \in {Unread, DocumentOf(f, store)}
    BY <2>2, <2>4 DEF Carried, LastOf, Leaves
  <2>5. CASE /\ \A i \in DOMAIN feed[w] : feed[w][i].flag # f
             /\ IF wpc[w] \in {"publish", "handle"} /\ Has(doc[w], f)
                THEN doc[w] = DocumentOf(f, store) ELSE cache[f] = store[f]
    BY <2>2, <2>5 DEF Carried, Leaves
  <2> QED
    BY <2>3, <2>4, <2>5 DEF Carried
<1> QED
  BY <1>1, <1>2 DEF MissInv, Leaves

(* One document holds every flag: nothing is promised.                       *)
LEMMA SingleMissesNothing ==
  ASSUME MissInv, OrderInv', single, UNCHANGED single
  PROVE  MissInv'
BY DEF MissInv, OneFlag

LEMMA TakesAll ==
  ASSUME MissInv, OrderInv', ~single, NEW w \in Watchers, Alone(w), Next_(w)
  PROVE  MissInv'
<1> DEFINE n == Len(feed[w])
           e == feed[w][1]
<1>1. /\ n \in Nat \ {0} /\ DOMAIN feed[w] = 1..n /\ DOMAIN feed'[w] = 1..n - 1
      /\ \A i \in 1..n - 1 : feed'[w][i] = feed[w][i + 1]
  <2>1. feed[w] \in Seq(Events) /\ feed[w] # <<>> /\ feed'[w] = Tail(feed[w])
    BY Typed DEF MissInv, OrderInv, LoopInv, TypeOK, StoreTypeOK, Next_
  <2> QED
    BY <2>1, TailFacts
<1>2. /\ doc'[w] = e.doc /\ e.doc # Unread /\ wpc[w] = "next" /\ wpc'[w] = "publish"
      /\ UNCHANGED <<single, store, cache, since, open>>
  BY NextTakes DEF Takes, Next_, At, MissInv, OrderInv, dbVars, history
<1>3. \A u \in Watchers : u = w \/
         /\ wpc[u] \in {"none", "done"} /\ wpc'[u] \in {"none", "done"}
         /\ u \notin open /\ u \notin open' /\ doc[u] \notin Docs /\ doc'[u] \notin Docs
         /\ feed[u] = <<>> /\ feed'[u] = <<>> /\ \A f : ~Has(doc[u], f) /\ ~Has(doc'[u], f)
  BY OthersHaveNothing
<1>4. \A f \in Flags : Has(e.doc, f) => f = e.flag
  BY <1>1 DEF MissInv, OrderInv, LoopInv, FeedShape, EventShape
<1>5. store \in [Flags -> Versions] /\ \A f \in Flags : store[f] \in Nat
  BY Typed DEF MissInv, OrderInv, LoopInv, TypeOK, StoreTypeOK
<1> HIDE DEF n, e
<1>6. OneFlag'
  BY <1>2, <1>3, <1>4 DEF OneFlag
<1>7. ASSUME NEW f \in Flags, w \in open, store[f] > since[w]
      PROVE  Carried(w, f)'
  <2>1. Carried(w, f)
    BY <1>7 DEF MissInv
  <2>2. store[f] # 0
    BY <1>5, <1>7, StoreAssumption DEF MissInv, OrderInv, LoopInv, TypeOK, Versions
  <2>3. ASSUME NEW i \in 1..n, LastOf(w, f, i), feed[w][i].doc \in {Unread, DocumentOf(f, store)}
        PROVE  Carried(w, f)'
    <3>1. CASE i = 1
      <4>1. e.doc = DocumentOf(f, store) /\ Has(e.doc, f)
        BY <1>2, <1>5, <2>2, <2>3, <3>1, DocumentOfOne DEF Has, e
      <4>2. ASSUME NEW j \in 1..n - 1 PROVE feed'[w][j].flag # f
        <5>1. j + 1 \in 1..n /\ j + 1 > 1
          BY <1>1
        <5> QED
          BY <1>1, <2>3, <3>1, <5>1 DEF LastOf
      <4> QED
        BY <1>1, <1>2, <4>1, <4>2 DEF Carried
    <3>2. CASE i # 1
      <4>1. i - 1 \in 1..n - 1 /\ feed'[w][i - 1] = feed[w][i]
        <5>1. i - 1 \in 1..n - 1 /\ i - 1 + 1 = i
          BY <1>1, <3>2
        <5> QED
          BY <1>1, <5>1
      <4>2. ASSUME NEW j \in 1..n - 1, j > i - 1 PROVE feed'[w][j].flag # f
        <5>1. j + 1 \in 1..n /\ j + 1 > i
          BY <1>1, <4>2
        <5> QED
          BY <1>1, <2>3, <5>1 DEF LastOf
      <4>3. feed[w][i].flag = f
        BY <2>3 DEF LastOf
      <4>4. ASSUME NEW m, m = i - 1 PROVE LastOf(w, f, m)'
        BY <1>1, <4>1, <4>2, <4>3, <4>4 DEF LastOf
      <4> QED
        BY <1>1, <1>2, <2>3, <4>1, <4>4 DEF Carried
    <3> QED
      BY <3>1, <3>2
  <2>4. ASSUME \A i \in 1..n : feed[w][i].flag # f, cache[f] = store[f]
        PROVE  Carried(w, f)'
    <3>1. ~Has(e.doc, f)
      BY <1>1, <1>4, <2>4 DEF e
    <3>2. \A j \in 1..n - 1 : j + 1 \in 1..n
      BY <1>1
    <3>3. \A j \in 1..n - 1 : feed'[w][j].flag # f
      BY <1>1, <2>4, <3>2
    <3> QED
      BY <1>1, <1>2, <2>4, <3>1, <3>3 DEF Carried
  <2> QED
    BY <1>1, <1>2, <2>1, <2>3, <2>4 DEF Carried
<1> QED
  BY <1>2, <1>3, <1>6, <1>7 DEF MissInv, OrderInv, LoopInv, TypeOK, StoreTypeOK

LEMMA HandlesAll ==
  ASSUME MissInv, OrderInv', NEW w \in Watchers, Alone(w), HandleAll(w)
  PROVE  MissInv'
<1>1. PICK g \in DOMAIN doc[w] : CacheSet(g, doc[w][g])
  BY DEF HandleAll
<1>2. /\ ~single /\ wpc[w] = "handle" /\ wpc'[w] \in {"next", "poll"} /\ doc'[w] = NoDoc
      /\ UNCHANGED <<single, store, feed, since, open>> /\ doc[w] \in Docs
      /\ cache' = [cache EXCEPT ![g] = doc[w][g]] /\ cache \in [Flags -> Versions]
  BY <1>1 DEF HandleAll, At, Resume, Goto, CacheSet, MissInv, OrderInv, LoopInv, TypeOK, storeVars, dbVars
<1>3. \A u \in Watchers : u = w \/
         /\ wpc[u] \in {"none", "done"} /\ wpc'[u] \in {"none", "done"}
         /\ u \notin open /\ u \notin open' /\ doc[u] \notin Docs /\ doc'[u] \notin Docs
         /\ feed[u] = <<>> /\ feed'[u] = <<>> /\ \A f : ~Has(doc[u], f) /\ ~Has(doc'[u], f)
  BY OthersHaveNothing
<1>4. g \in Flags /\ Has(doc[w], g)
  BY <1>1, <1>2, DocIsTyped DEF Has
<1>5. OneFlag'
  BY <1>2, <1>3, EndsHaveNothing DEF OneFlag
<1>6. store \in [Flags -> Versions]
  BY DEF MissInv, OrderInv, LoopInv, TypeOK, StoreTypeOK
<1>7. ASSUME NEW f \in Flags, Carried(w, f) PROVE Carried(w, f)'
  <2>1. CASE \E i \in DOMAIN feed[w] : LastOf(w, f, i) /\ feed[w][i].doc \in {Unread, DocumentOf(f, store)}
    BY <1>2, <2>1 DEF Carried, LastOf
  <2>2. CASE /\ \A i \in DOMAIN feed[w] : feed[w][i].flag # f
             /\ IF wpc[w] \in {"publish", "handle"} /\ Has(doc[w], f)
                THEN doc[w] = DocumentOf(f, store) ELSE cache[f] = store[f]
    <3>1. cache'[f] = store[f]
      <4>1. CASE f = g
        <5>1. doc[w] = DocumentOf(f, store) /\ cache'[f] = doc[w][f]
          BY <1>2, <1>4, <2>2, <4>1
        <5> QED
          BY ZenonT(30), <1>4, <1>6, <4>1, <5>1, DocumentOfOne, HasTyped
      <4>2. CASE f # g
        <5>1. ~Has(doc[w], f)
          BY <1>2, <1>4, <4>2 DEF MissInv, OneFlag
        <5> QED
          BY <1>2, <2>2, <4>2, <5>1
      <4> QED
        BY <4>1, <4>2
    <3> QED
      BY <1>2, <2>2, <3>1 DEF Carried
  <2> QED
    BY <1>7, <2>1, <2>2 DEF Carried
<1> QED
  BY <1>2, <1>3, <1>5, <1>7 DEF MissInv, OrderInv, LoopInv, TypeOK, StoreTypeOK

LEMMA LooksUpAll ==
  ASSUME MissInv, OrderInv', NEW w \in Watchers, Alone(w), NEW i \in DOMAIN feed[w], LookedUp(w, i),
         UNCHANGED <<dbVars, open, watchVars, cache, history>>
  PROVE  MissInv'
<1>1. UNCHANGED <<single, store, cache, doc, wpc, since, open>>
  BY DEF dbVars, watchVars, history
<1>2. \A u \in Watchers : u = w \/
         /\ wpc[u] \in {"none", "done"} /\ wpc'[u] \in {"none", "done"}
         /\ u \notin open /\ u \notin open' /\ doc[u] \notin Docs /\ doc'[u] \notin Docs
         /\ feed[u] = <<>> /\ feed'[u] = <<>> /\ \A f : ~Has(doc[u], f) /\ ~Has(doc'[u], f)
  BY OthersHaveNothing
<1>3. DOMAIN feed'[w] = DOMAIN feed[w] /\ \A j \in DOMAIN feed[w] : feed'[w][j].flag = feed[w][j].flag
  BY DEF LookedUp
<1>4. ~single /\ feed'[w][i].doc = DocumentOf(feed[w][i].flag, store)
  <2>1. ~single
    BY DEF LookedUp, MissInv, OrderInv, LoopInv, FeedShape, EventShape
  <2> QED
    BY <2>1 DEF LookedUp, Image
<1>5. ASSUME NEW f \in Flags, Carried(w, f) PROVE Carried(w, f)'
  <2>1. CASE \E j \in DOMAIN feed[w] : LastOf(w, f, j) /\ feed[w][j].doc \in {Unread, DocumentOf(f, store)}
    <3>1. PICK j \in DOMAIN feed[w] : LastOf(w, f, j) /\ feed[w][j].doc \in {Unread, DocumentOf(f, store)}
      BY <2>1
    <3>2. LastOf(w, f, j)'
      BY <1>3, <3>1 DEF LastOf
    <3>3. feed'[w][j].doc \in {Unread, DocumentOf(f, store)}
      BY <1>4, <3>1 DEF LookedUp, LastOf
    <3> QED
      BY <1>1, <1>3, <3>2, <3>3 DEF Carried
  <2>2. CASE /\ \A j \in DOMAIN feed[w] : feed[w][j].flag # f
             /\ IF wpc[w] \in {"publish", "handle"} /\ Has(doc[w], f)
                THEN doc[w] = DocumentOf(f, store) ELSE cache[f] = store[f]
    BY <1>1, <1>3, <2>2 DEF Carried
  <2> QED
    BY <1>5, <2>1, <2>2 DEF Carried
<1>6. OneFlag'
  BY <1>1 DEF MissInv, OneFlag
<1> QED
  BY <1>1, <1>2, <1>5, <1>6 DEF MissInv, OrderInv, LoopInv, TypeOK, StoreTypeOK

LEMMA WritesAll ==
  ASSUME MissInv, OrderInv', ~single, NEW e \in Events, StoreStep(e), Tells(e),
         UNCHANGED <<watchVars, cache, since>>
  PROVE  MissInv'
<1>1. UNCHANGED <<single, cache, doc, wpc, since, open>>
  BY DEF watchVars, StoreStep
<1>2. OneFlag'
  BY <1>1 DEF MissInv, OneFlag
<1>3. ASSUME NEW w \in open, NEW f \in Flags, store'[f] > since[w]
      PROVE  Carried(w, f)'
  <2> DEFINE n == Len(feed[w]) + 1
  <2>1. /\ w \in Watchers /\ feed[w] \in Seq(Events) /\ n \in Nat \ {0} /\ DOMAIN feed[w] = 1..n - 1
    BY Typed DEF MissInv, OrderInv, LoopInv, TypeOK, StoreTypeOK
  <2>2. Append(feed[w], e) # feed[w] /\ DOMAIN Append(feed[w], e) = 1..n /\ Append(feed[w], e)[n] = e
        /\ \A i \in 1..n - 1 : Append(feed[w], e)[i] = feed[w][i]
    <3>1. Len(Append(feed[w], e)) # Len(feed[w])
      BY <2>1
    <3> QED
      BY <2>1, <3>1
  <2> HIDE DEF n
  <2>3. store'[f] # 0 /\ since[w] \in Nat
    BY <1>3, <2>1, StoreAssumption DEF MissInv, OrderInv, LoopInv, TypeOK, Versions, StoreStep
  <2>4. CASE e.flag = f
    <3>1. feed'[w] = Append(feed[w], e) /\ e.doc \in {Unread, DocumentOf(f, store')}
      BY <2>3, <2>4 DEF Tells
    <3>2. ASSUME NEW m, m = n PROVE LastOf(w, f, m)'
      BY <2>1, <2>2, <2>4, <3>1, <3>2 DEF LastOf
    <3>3. ASSUME NEW m, m = n PROVE m \in DOMAIN feed'[w] /\ feed'[w][m].doc \in {Unread, DocumentOf(f, store')}
      BY <2>1, <2>2, <3>1, <3>3
    <3> QED
      BY <3>2, <3>3 DEF Carried
  <2>5. CASE e.flag # f
    <3>1. store'[f] = store[f]
      BY <2>3, <2>5 DEF Tells
    <3>2. DocumentOf(f, store') = DocumentOf(f, store)
      BY <3>1 DEF DocumentOf
    <3>3. Carried(w, f)
      BY <1>3, <3>1 DEF MissInv
    <3>4. /\ \A i \in DOMAIN feed[w] : i \in DOMAIN feed'[w] /\ feed'[w][i] = feed[w][i]
          /\ \A i \in DOMAIN feed'[w] : i \in DOMAIN feed[w] \/ feed'[w][i].flag # f
      BY <2>1, <2>2, <2>5 DEF StoreStep, Grown
    <3>5. ASSUME NEW i, LastOf(w, f, i) PROVE LastOf(w, f, i)'
      BY <3>4, <3>5 DEF LastOf
    <3>6. CASE \E i \in DOMAIN feed[w] : LastOf(w, f, i) /\ feed[w][i].doc \in {Unread, DocumentOf(f, store)}
      BY <3>2, <3>4, <3>5, <3>6 DEF Carried
    <3>7. CASE /\ \A i \in DOMAIN feed[w] : feed[w][i].flag # f
               /\ IF wpc[w] \in {"publish", "handle"} /\ Has(doc[w], f)
                  THEN doc[w] = DocumentOf(f, store) ELSE cache[f] = store[f]
      <4>1. \A i \in DOMAIN feed'[w] : feed'[w][i].flag # f
        BY <3>4, <3>7
      <4> QED
        BY <1>1, <3>1, <3>2, <3>7, <4>1 DEF Carried
    <3> QED
      BY <3>3, <3>6, <3>7 DEF Carried
  <2> QED
    BY <2>4, <2>5
<1> QED
  BY <1>1, <1>2, <1>3 DEF MissInv

LEMMA QuietLeaves ==
  ASSUME LoopInv, NEW w \in Watchers, QuietSteps(w), ~single
  PROVE  Leaves
<1> USE DEF LoopInv, TypeOK, StoreTypeOK, NoStreamLeaks
<1>1. CASE Start(w)
  BY <1>1 DEF Start, At, Goto, Leaves, storeVars, dbVars, history
<1>2. CASE OpenStream(w)
  BY <1>2 DEF OpenStream, At, Goto, Leaves, dbVars
<1>3. CASE OpenFails(w)
  BY <1>3 DEF OpenFails, At, NextTry, Goto, Leaves, storeVars, dbVars, history
<1>4. CASE StreamFails(w)
  BY <1>4 DEF StreamFails, At, NextTry, Goto, Closed, Leaves, dbVars, history
<1>5. CASE StreamEnds(w)
  BY <1>5 DEF StreamEnds, At, Goto, Closed, Leaves, dbVars, history
<1>6. CASE PollFails(w)
  BY <1>6 DEF PollFails, At, NextTry, Goto, Leaves, storeVars, dbVars, history
<1>7. CASE PollCancelled(w)
  BY <1>7 DEF PollCancelled, At, Goto, Leaves, storeVars, dbVars, history
<1>8. CASE PublishChange(w)
  BY <1>8 DEF PublishChange, At, Goto, Leaves, storeVars, dbVars, history
<1>9. CASE GiveUp(w)
  BY <1>9 DEF GiveUp, At, Goto, Leaves, storeVars, dbVars
<1>10. CASE HandlingFails(w) /\ wpc[w] = "handle"
  <2>1. CASE Streaming(w)
    BY <1>10, <2>1 DEF HandlingFails, Fail, NextTry, Closed, Goto, Leaves, dbVars, history
  <2>2. CASE ~Streaming(w)
    BY <1>10, <2>2 DEF HandlingFails, Fail, Goto, Leaves, dbVars, history
  <2> QED
    BY <2>1, <2>2
<1>11. wpc[w] # "fill"
  BY DEF InLoop
<1> QED
  BY <1>1, <1>2, <1>3, <1>4, <1>5, <1>6, <1>7, <1>8, <1>9, <1>10, <1>11
  DEF QuietSteps, HandleMissing, HandleClear, HandleSetFails, Handled, HandleAllFails, At

LEMMA PollLeaves ==
  ASSUME MissInv, OrderInv', ~single, NEW w \in Watchers, Alone(w), Poll(w)
  PROVE  MissInv'
<1>1. \A u \in Watchers : u = w \/
         /\ wpc[u] \in {"none", "done"} /\ wpc'[u] \in {"none", "done"}
         /\ u \notin open /\ u \notin open' /\ doc[u] \notin Docs /\ doc'[u] \notin Docs
         /\ feed[u] = <<>> /\ feed'[u] = <<>> /\ \A f : ~Has(doc[u], f) /\ ~Has(doc'[u], f)
  BY OthersHaveNothing
<1>2. UNCHANGED <<single, store, open>> /\ w \notin open
  BY DEF Poll, At, storeVars, dbVars, MissInv, OrderInv, LoopInv, NoStreamLeaks
<1>3. doc'[w] \in FindOne
  BY DEF Poll, MissInv, OrderInv, LoopInv, TypeOK
<1>4. store \in [Flags -> Versions]
  BY DEF MissInv, OrderInv, LoopInv, TypeOK, StoreTypeOK
<1>5. ASSUME NEW f \in Flags, NEW g \in Flags, Has(doc'[w], f), Has(doc'[w], g) PROVE f = g
  <2>1. PICK h \in Flags : store[h] # 0 /\ doc'[w] = DocumentOf(h, store)
    BY <1>3, <1>5, HasTyped DEF FindOne
  <2>2. DOMAIN doc'[w] = {h}
    BY <1>4, <2>1, DocumentOfOne
  <2> QED
    BY <1>5, <2>2 DEF Has
<1>6. OneFlag'
  BY <1>1, <1>5 DEF OneFlag
<1> QED
  BY <1>1, <1>2, <1>6 DEF MissInv, OrderInv, LoopInv, TypeOK, StoreTypeOK

LEMMA MissNext ==
  ASSUME OneActive, OneActive', MissInv, [Next]_vars
  PROVE  MissInv'
<1>1. LoopInv /\ OrderInv /\ OrderInv' /\ TypeOK
  BY OrderNext DEF MissInv, OrderInv, LoopInv
<1>0. ASSUME NEW w \in Watchers, Start(w) \/ Watch(w) \/ ServerLooksUp(w) PROVE Alone(w)
  BY <1>1, <1>0, OneActs DEF OrderInv
<1>2. CASE Environment
  <2>1. CASE /\ StoreNext
             /\ UNCHANGED <<eventVars, watchVars, cache, locked, newest, since, reported>>
    <3>1. PICK e \in Events : StoreStep(e) /\ Contents(e) /\ Tells(e)
      BY <1>1, <2>1, StoreContents
    <3> QED
      BY <1>1, <2>1, <3>1, WritesAll, SingleMissesNothing DEF StoreStep
  <2>2. CASE UNCHANGED <<storeVars, watchVars, cache, locked, history>>
    <3>1. Leaves
      BY <2>2 DEF Leaves, storeVars, dbVars, watchVars, history
    <3> QED
      BY <1>1, <3>1, LeavesAll
  <2> QED
    BY <1>2, <2>1, <2>2 DEF Environment
<1>3. CASE Cancel \/ UNCHANGED vars
  <2>1. Leaves
    BY <1>3 DEF Cancel, vars, watchVars, history, Leaves, storeVars, dbVars
  <2> QED
    BY <1>1, <2>1, LeavesAll
<1>4. ASSUME NEW w \in Watchers, Start(w) \/ Watch(w) \/ ServerLooksUp(w), single PROVE MissInv'
  <2>1. Loops(w) \/ ServerLooksUp(w)
    BY <1>1, <1>4, WatchersLoop
  <2>2. UNCHANGED single
    BY <2>1 DEF Loops, LoopStep, ServerLooksUp, LookUp, dbVars
  <2> QED
    BY <1>1, <1>4, <2>2, SingleMissesNothing
<1>5. ASSUME NEW w \in Watchers, QuietSteps(w), ~single PROVE MissInv'
  BY <1>1, <1>5, QuietLeaves, LeavesAll
<1>6. ASSUME NEW w \in Watchers, HandleAll(w) PROVE MissInv'
  BY <1>0, <1>1, <1>6, HandlesAll DEF Watch
<1>7. ASSUME NEW w \in Watchers, Next_(w), ~single PROVE MissInv'
  BY <1>0, <1>1, <1>7, TakesAll DEF Watch
<1>8. ASSUME NEW w \in Watchers, Poll(w), ~single PROVE MissInv'
  BY <1>0, <1>1, <1>8, PollLeaves DEF Watch
<1>9. ASSUME NEW w \in Watchers, ServerLooksUp(w) PROVE MissInv'
  <2>1. PICK i \in DOMAIN feed[w] : LookedUp(w, i)
    BY <1>1, <1>9, LookUpSteps DEF ServerLooksUp, LoopInv
  <2>2. UNCHANGED <<dbVars, open, watchVars, cache, history>>
    BY <1>9 DEF ServerLooksUp, LookUp
  <2> QED
    BY <1>0, <1>1, <1>9, <2>1, <2>2, LooksUpAll
<1>10. ASSUME NEW w \in Watchers, HandleSet(w) PROVE single
  BY <1>1, <1>10 DEF HandleSet, At, LoopInv, InLoop
<1> QED
  BY <1>2, <1>3, <1>4, <1>5, <1>6, <1>7, <1>8, <1>9, <1>10 DEF Next, Watch, QuietSteps

LEMMA MissStart == WatchInit => MissInv
<1> SUFFICES ASSUME WatchInit PROVE MissInv
  OBVIOUS
<1>1. open = {} /\ \A w \in Watchers : doc[w] = NoDoc
  BY DEF WatchInit, StoreInit
<1> QED
  BY <1>1, OrderStart, EndsHaveNothing DEF MissInv, OneFlag

LEMMA MissIsEnough == MissInv => NothingMissed
<1> SUFFICES ASSUME MissInv PROVE NothingMissed
  OBVIOUS
<1>1. ASSUME NEW w \in open, NEW f \in Flags, Carried(w, f)
      PROVE  \/ cache[f] = store[f]
             \/ wpc[w] \in {"publish", "handle"} /\ doc[w] = DocumentOf(f, store)
             \/ \E i \in DOMAIN feed[w] : feed[w][i].flag = f /\ feed[w][i].doc \in {Unread, DocumentOf(f, store)}
  BY <1>1 DEF Carried, LastOf
<1> QED
  BY <1>1 DEF MissInv, NothingMissed

(* While the one watcher that runs has a stream open, a definition written   *)
(* since is in the cache, in its hands or still to come: none is skipped,    *)
(* whatever was written in between (changestream.go:39-51).                  *)
THEOREM StreamMissesNothing == Spec /\ []OneActive => []NothingMissed
<1>1. OneActive /\ OneActive' /\ MissInv /\ [Next]_vars => MissInv'
  BY MissNext
<1> QED
  BY <1>1, MissStart, MissIsEnough, PTL DEF Spec

-------------------------------------------------------------------------------
(* One content of the document *)

(* A step that brings no new document and leaves the cache alone, with no    *)
(* watcher filling it before or after.                                       *)
Rests ==
    /\ UNCHANGED <<single, store, cache>> /\ images \subseteq images'
    /\ \A w \in Watchers :
        /\ doc'[w] \in {doc[w], NoDoc}
        /\ wpc[w] # "fill" /\ wpc'[w] # "fill"
        /\ feed'[w] \in {feed[w], <<>>}

LEMMA RestsContent ==
  ASSUME ContentInv, LoopInv', Rests
  PROVE  ContentInv'
<1>1. SeenBefore'
  <2>1. ASSUME NEW w \in Watchers, single, doc'[w] \in Docs PROVE doc'[w] \in images'
    BY <2>1, NoDocAssumption DEF ContentInv, SeenBefore, Rests
  <2>2. ASSUME NEW w \in Watchers, single, NEW i \in DOMAIN feed'[w], feed'[w][i].doc \in Docs
        PROVE  feed'[w][i].doc \in images'
    <3>1. feed'[w] = feed[w]
      BY <2>2 DEF Rests
    <3> QED
      BY <2>2, <3>1 DEF ContentInv, SeenBefore, Rests
  <2> QED
    BY <2>1, <2>2 DEF ContentInv, SeenBefore, Rests
<1>2. ASSUME NEW d, Holds(d) PROVE Holds(d)'
  BY <1>2 DEF Holds, Rests
<1> QED
  BY <1>1, <1>2 DEF ContentInv, Rests

(* Many documents: nothing is promised.                                      *)
LEMMA ManyContents ==
  ASSUME ContentInv, LoopInv', ~single, UNCHANGED single
  PROVE  ContentInv'
BY DEF ContentInv, SeenBefore

LEMMA GrowthContent ==
  ASSUME ContentInv, LoopInv', single, NEW e \in Events, StoreStep(e), Tells(e),
         UNCHANGED <<watchVars, cache>>, images' = images \cup {Document(store')}
  PROVE  ContentInv'
<1>1. UNCHANGED <<single, cache, doc, wpc, todo>>
  BY DEF watchVars, StoreStep
<1>2. ASSUME NEW w \in Watchers, NEW i \in DOMAIN feed'[w], feed'[w][i].doc \in Docs
      PROVE  feed'[w][i].doc \in images'
  <2>1. feed[w] \in Seq(Events) /\ (feed'[w] = feed[w] \/ feed'[w] = Append(feed[w], e))
    BY Typed DEF StoreStep, Grown, ContentInv, LoopInv
  <2>2. (i \in DOMAIN feed[w] /\ feed'[w][i] = feed[w][i]) \/ feed'[w][i] = e
    BY <1>2, <2>1
  <2> QED
    BY <1>2, <2>2 DEF ContentInv, SeenBefore, Tells
<1>3. SeenBefore'
  BY <1>1, <1>2 DEF ContentInv, SeenBefore
<1>4. ASSUME NEW d, Holds(d) PROVE Holds(d)'
  BY <1>1, <1>4 DEF Holds
<1> QED
  BY <1>1, <1>3, <1>4 DEF ContentInv

LEMMA NextContent ==
  ASSUME ContentInv, LoopInv', single, NEW w \in Watchers, Alone(w), Next_(w)
  PROVE  ContentInv'
<1>1. \A u \in Watchers : u = w \/
         /\ wpc[u] \in {"none", "done"} /\ wpc'[u] \in {"none", "done"}
         /\ u \notin open /\ u \notin open' /\ doc[u] \notin Docs /\ doc'[u] \notin Docs
         /\ feed[u] = <<>> /\ feed'[u] = <<>> /\ \A f : ~Has(doc[u], f) /\ ~Has(doc'[u], f)
  BY OthersHaveNothing
<1>2. /\ UNCHANGED <<single, store, cache, images>>
      /\ wpc[w] = "next" /\ wpc'[w] = "publish"
  BY DEF Next_, At, Goto, ContentInv, LoopInv, TypeOK, dbVars, history
<1>3. /\ doc'[w] = feed[w][1].doc /\ 1 \in DOMAIN feed[w]
      /\ \A i \in DOMAIN feed'[w] : i + 1 \in DOMAIN feed[w] /\ feed'[w][i] = feed[w][i + 1]
  <2>1. feed[w] \in Seq(Events) /\ feed[w] # <<>> /\ feed'[w] = Tail(feed[w]) /\ doc'[w] = feed[w][1].doc
    BY NextTakes, Typed DEF ContentInv, LoopInv, Takes
  <2> QED
    BY <2>1, TailFacts
<1>4. SeenBefore'
  BY <1>1, <1>2, <1>3 DEF ContentInv, SeenBefore
<1>5. ASSUME NEW d, Holds(d) PROVE Holds(d)'
  BY <1>1, <1>2, <1>5 DEF Holds
<1> QED
  BY <1>2, <1>4, <1>5 DEF ContentInv

LEMMA PollContent ==
  ASSUME ContentInv, LoopInv', single, NEW w \in Watchers, Alone(w), Poll(w)
  PROVE  ContentInv'
<1>1. \A u \in Watchers : u = w \/
         /\ wpc[u] \in {"none", "done"} /\ wpc'[u] \in {"none", "done"}
         /\ u \notin open /\ u \notin open' /\ doc[u] \notin Docs /\ doc'[u] \notin Docs
         /\ feed[u] = <<>> /\ feed'[u] = <<>> /\ \A f : ~Has(doc[u], f) /\ ~Has(doc'[u], f)
  BY OthersHaveNothing
<1>2. /\ UNCHANGED <<single, store, cache, images, feed>>
      /\ wpc[w] = "poll" /\ wpc'[w] = "publish"
  BY DEF Poll, At, Goto, ContentInv, LoopInv, TypeOK, storeVars, dbVars, history
<1>3. doc'[w] \in {Document(store), NoDoc}
  BY DEF Poll, FindOne, ContentInv, LoopInv, TypeOK
<1>4. SeenBefore'
  BY <1>1, <1>2, <1>3, NoDocAssumption DEF ContentInv, SeenBefore
<1>5. ASSUME NEW d, Holds(d) PROVE Holds(d)'
  BY <1>1, <1>2, <1>5 DEF Holds
<1> QED
  BY <1>2, <1>4, <1>5 DEF ContentInv

LEMMA ClearContent ==
  ASSUME ContentInv, LoopInv', NEW w \in Watchers, Alone(w), HandleClear(w)
  PROVE  ContentInv'
<1>1. \A u \in Watchers : u = w \/
         /\ wpc[u] \in {"none", "done"} /\ wpc'[u] \in {"none", "done"}
         /\ u \notin open /\ u \notin open' /\ doc[u] \notin Docs /\ doc'[u] \notin Docs
         /\ feed[u] = <<>> /\ feed'[u] = <<>> /\ \A f : ~Has(doc[u], f) /\ ~Has(doc'[u], f)
  BY OthersHaveNothing
<1>2. /\ single /\ UNCHANGED <<single, store, images, feed, doc>> /\ doc[w] \in Docs
      /\ wpc'[w] = "fill" /\ todo'[w] = DOMAIN doc[w] /\ \A f \in Flags : cache'[f] = 0
  BY DEF HandleClear, At, Goto, Empty, ContentInv, LoopInv, TypeOK, storeVars, dbVars, history
<1>3. SeenBefore'
  BY <1>2 DEF ContentInv, SeenBefore
<1>4. ASSUME NEW d, d = doc[w] PROVE Holds(d)'
  BY <1>1, <1>2, <1>4 DEF Holds
<1>5. doc[w] \in images
  BY <1>2 DEF ContentInv, SeenBefore
<1> QED
  BY <1>2, <1>3, <1>4, <1>5 DEF ContentInv

LEMMA SetContent ==
  ASSUME ContentInv, LoopInv', NEW w \in Watchers, Alone(w), HandleSet(w)
  PROVE  ContentInv'
<1>1. \A u \in Watchers : u = w \/
         /\ wpc[u] \in {"none", "done"} /\ wpc'[u] \in {"none", "done"}
         /\ u \notin open /\ u \notin open' /\ doc[u] \notin Docs /\ doc'[u] \notin Docs
         /\ feed[u] = <<>> /\ feed'[u] = <<>> /\ \A f : ~Has(doc[u], f) /\ ~Has(doc'[u], f)
  BY OthersHaveNothing
<1>2. PICK f \in todo[w] : CacheSet(f, doc[w][f]) /\ todo' = [todo EXCEPT ![w] = @ \ {f}]
  BY DEF HandleSet
<1>3. /\ single /\ UNCHANGED <<single, store, images, feed, doc, wpc>> /\ doc[w] \in Docs
      /\ wpc[w] = "fill" /\ f \in DOMAIN doc[w] /\ f \in Flags
  BY DocIsTyped DEF HandleSet, At, ContentInv, LoopInv, InLoop, storeVars, dbVars
<1>4. /\ cache'[f] = doc[w][f] /\ todo'[w] = todo[w] \ {f}
      /\ \A g \in Flags : g # f => cache'[g] = cache[g]
  BY <1>2, <1>3 DEF CacheSet, ContentInv, LoopInv, TypeOK
<1>5. SeenBefore'
  BY <1>3 DEF ContentInv, SeenBefore
<1>6. ASSUME NEW d, Holds(d) PROVE Holds(d)'
  <2>1. d = doc[w] /\ \A g \in DOMAIN d : g \in todo[w] \/ cache[g] = d[g]
    BY <1>3, <1>6 DEF Holds
  <2>2. DOMAIN d \subseteq Flags
    BY <1>3, <2>1, DocIsTyped
  <2>3. \A g \in DOMAIN d : g \in todo'[w] \/ cache'[g] = d[g]
    BY <1>4, <2>1, <2>2
  <2>4. \A g \in Flags : cache'[g] # 0 => g \in DOMAIN d /\ cache'[g] = d[g]
    BY <1>3, <1>4, <1>6, <2>1 DEF Holds
  <2> QED
    BY <1>1, <1>3, <2>1, <2>3, <2>4 DEF Holds
<1> QED
  BY <1>3, <1>5, <1>6 DEF ContentInv

(* The cache is filled: it is all of the document, or its setting has failed.*)
LEMMA FilledContent ==
  ASSUME ContentInv, LoopInv', NEW w \in Watchers, Alone(w),
         Handled(w) \/ HandleSetFails(w)
  PROVE  ContentInv'
<1>1. \A u \in Watchers : u = w \/
         /\ wpc[u] \in {"none", "done"} /\ wpc'[u] \in {"none", "done"}
         /\ u \notin open /\ u \notin open' /\ doc[u] \notin Docs /\ doc'[u] \notin Docs
         /\ feed[u] = <<>> /\ feed'[u] = <<>> /\ \A f : ~Has(doc[u], f) /\ ~Has(doc'[u], f)
  BY OthersHaveNothing
<1>2. /\ UNCHANGED <<single, store, images, cache>> /\ single /\ doc[w] \in Docs
      /\ wpc[w] = "fill" /\ wpc'[w] # "fill" /\ doc'[w] = NoDoc /\ feed'[w] \in {feed[w], <<>>}
  BY DEF Handled, HandleSetFails, HandlingFails, Fail, Closed, NextTry, At, Resume, Goto,
     ContentInv, LoopInv, InLoop, TypeOK, StoreTypeOK, storeVars, dbVars, history
<1>3. SeenBefore'
  BY <1>1, <1>2, NoDocAssumption DEF ContentInv, SeenBefore
<1>4. PICK d \in images : Holds(d)
  BY <1>2 DEF ContentInv
<1>5. /\ d = doc[w] /\ \A f \in DOMAIN d : f \in todo[w] \/ cache[f] = d[f]
      /\ \A f \in Flags : cache[f] # 0 => f \in DOMAIN d /\ cache[f] = d[f]
  BY <1>2, <1>4 DEF Holds
<1>6. DOMAIN d \subseteq Flags /\ \A f \in DOMAIN d : d[f] # 0
  BY <1>2, <1>5, DocIsTyped, StoreAssumption
<1>7. CASE Handled(w)
  <2>1. \A f \in DOMAIN d : cache[f] = d[f]
    BY <1>5, <1>7 DEF Handled
  <2>2. DOMAIN d = {f \in Flags : cache[f] # 0}
    BY <1>5, <1>6, <2>1
  <2>3. d = [f \in DOMAIN d |-> d[f]]
    BY <1>2, <1>5 DEF Docs
  <2>4. Document(cache) = d
    BY <2>1, <2>2, <2>3 DEF Document
  <2>5. Holds(d)'
    BY <1>1, <1>2, <1>5, <2>4 DEF Holds
  <2> QED
    BY <1>2, <1>3, <2>5 DEF ContentInv
<1>8. CASE HandleSetFails(w)
  <2>1. \E f \in DOMAIN d : d[f] \in BadWrites
    BY <1>2, <1>5, <1>8 DEF HandleSetFails, ContentInv, LoopInv, InLoop
  <2>2. Holds(d)'
    BY <1>1, <1>2, <1>5, <2>1 DEF Holds
  <2> QED
    BY <1>2, <1>3, <2>2 DEF ContentInv
<1> QED
  BY <1>7, <1>8

LEMMA RestingSteps ==
  ASSUME LoopInv, NEW w \in Watchers, Alone(w), QuietSteps(w),
         ~(HandleClear(w) \/ Handled(w) \/ HandleSetFails(w)), single
  PROVE  Rests
<1> USE DEF LoopInv, TypeOK, StoreTypeOK
<1>1. \A u \in Watchers : u = w \/
         /\ wpc[u] \in {"none", "done"} /\ wpc'[u] \in {"none", "done"}
         /\ u \notin open /\ u \notin open' /\ doc[u] \notin Docs /\ doc'[u] \notin Docs
         /\ feed[u] = <<>> /\ feed'[u] = <<>> /\ \A f : ~Has(doc[u], f) /\ ~Has(doc'[u], f)
  BY OthersHaveNothing
<1>2. CASE Start(w)
  BY <1>1, <1>2 DEF Start, At, Goto, Rests, storeVars, dbVars, history
<1>3. CASE OpenStream(w)
  BY <1>1, <1>3 DEF OpenStream, At, Goto, Rests, dbVars
<1>4. CASE OpenFails(w)
  BY <1>1, <1>4 DEF OpenFails, At, NextTry, Goto, Rests, storeVars, dbVars, history
<1>5. CASE StreamFails(w)
  BY <1>1, <1>5 DEF StreamFails, At, NextTry, Goto, Closed, Rests, dbVars, history
<1>6. CASE StreamEnds(w)
  BY <1>1, <1>6 DEF StreamEnds, At, Goto, Closed, Rests, dbVars, history
<1>7. CASE PollFails(w)
  BY <1>1, <1>7 DEF PollFails, At, NextTry, Goto, Rests, storeVars, dbVars, history
<1>8. CASE PollCancelled(w)
  BY <1>1, <1>8 DEF PollCancelled, At, Goto, Rests, storeVars, dbVars, history
<1>9. CASE PublishChange(w)
  BY <1>1, <1>9 DEF PublishChange, At, Goto, Rests, storeVars, dbVars, history
<1>10. CASE GiveUp(w)
  BY <1>1, <1>10 DEF GiveUp, At, Goto, Rests, storeVars, dbVars
<1>11. CASE HandleMissing(w)
  BY <1>1, <1>11 DEF HandleMissing, HandlingFails, Fail, NextTry, Closed, At, Goto, Rests, dbVars, history
<1> QED
  BY <1>2, <1>3, <1>4, <1>5, <1>6, <1>7, <1>8, <1>9, <1>10, <1>11 DEF QuietSteps, HandleAllFails

LEMMA ContentNext ==
  ASSUME OneActive, OneActive', ContentInv, [Next]_vars
  PROVE  ContentInv'
<1>1. LoopInv /\ LoopInv' /\ TypeOK
  BY LoopNext DEF ContentInv, LoopInv
<1>0. ASSUME NEW w \in Watchers, Start(w) \/ Watch(w) \/ ServerLooksUp(w) PROVE Alone(w)
  BY <1>1, <1>0, OneActs
<1>2. CASE Environment
  <2>1. CASE /\ StoreNext
             /\ images' = IF single THEN images \cup {Document(store')} ELSE images
             /\ UNCHANGED <<eventVars, watchVars, cache, locked, newest, since, reported>>
    <3>1. PICK e \in Events : StoreStep(e) /\ Contents(e) /\ Tells(e)
      BY <1>1, <2>1, StoreContents
    <3>2. CASE single
      BY <1>1, <2>1, <3>1, <3>2, GrowthContent
    <3>3. CASE ~single
      BY <1>1, <3>1, <3>3, ManyContents DEF StoreStep
    <3> QED
      BY <3>2, <3>3
  <2>2. CASE UNCHANGED <<storeVars, watchVars, cache, locked, history>>
    BY <1>1, <2>2 DEF ContentInv, SeenBefore, Holds, storeVars, dbVars, watchVars, history
  <2> QED
    BY <1>2, <2>1, <2>2 DEF Environment
<1>3. CASE Cancel \/ UNCHANGED vars
  <2>1. UNCHANGED <<storeVars, wpc, doc, todo, cache, images>>
    BY <1>3 DEF Cancel, vars, watchVars, history
  <2> QED
    BY <1>1, <2>1 DEF ContentInv, SeenBefore, Holds, storeVars, dbVars
<1>4. ASSUME NEW w \in Watchers, Start(w) \/ Watch(w) \/ ServerLooksUp(w), ~single PROVE ContentInv'
  <2>1. Loops(w) \/ ServerLooksUp(w)
    BY <1>1, <1>4, WatchersLoop
  <2>2. UNCHANGED single
    BY <2>1 DEF Loops, LoopStep, ServerLooksUp, LookUp, dbVars
  <2> QED
    BY <1>1, <1>4, <2>2, ManyContents
<1>5. ASSUME NEW w \in Watchers, QuietSteps(w), single,
             ~(HandleClear(w) \/ Handled(w) \/ HandleSetFails(w))
      PROVE  ContentInv'
  BY <1>0, <1>1, <1>5, RestingSteps, RestsContent DEF QuietSteps, Watch
<1>6. ASSUME NEW w \in Watchers, HandleClear(w) \/ Handled(w) \/ HandleSetFails(w) PROVE ContentInv'
  BY <1>0, <1>1, <1>6, ClearContent, FilledContent DEF Watch
<1>7. ASSUME NEW w \in Watchers, HandleSet(w) PROVE ContentInv'
  BY <1>0, <1>1, <1>7, SetContent DEF Watch
<1>8. ASSUME NEW w \in Watchers, Next_(w), single PROVE ContentInv'
  BY <1>0, <1>1, <1>8, NextContent DEF Watch
<1>9. ASSUME NEW w \in Watchers, Poll(w), single PROVE ContentInv'
  BY <1>0, <1>1, <1>9, PollContent DEF Watch
<1>10. ASSUME NEW w \in Watchers, ServerLooksUp(w) PROVE ~single
  <2>1. PICK i \in DOMAIN feed[w] : feed[w][i].doc = Unread
    BY <1>10 DEF ServerLooksUp, LookUp
  <2> QED
    BY <1>1, <2>1 DEF LoopInv, FeedShape, EventShape
<1> QED
  BY <1>2, <1>3, <1>4, <1>5, <1>6, <1>7, <1>8, <1>9, <1>10 DEF Next, Watch, QuietSteps, HandleAll

LEMMA ContentStart == WatchInit => ContentInv
<1> SUFFICES ASSUME WatchInit PROVE ContentInv
  OBVIOUS
<1>1. /\ images = {Document(Empty)} /\ cache = Empty /\ store = Empty
      /\ \A w \in Watchers : feed[w] = <<>> /\ doc[w] = NoDoc /\ wpc[w] = "none"
      /\ \A f \in Flags : cache[f] = 0
  BY DEF WatchInit, StoreInit, Empty
<1>2. Holds(Document(Empty))
  BY <1>1 DEF Holds
<1>3. SeenBefore
  BY <1>1, NoDocAssumption DEF SeenBefore
<1> QED
  BY <1>1, <1>2, <1>3, LoopStart DEF ContentInv

LEMMA ContentIsEnough == ContentInv => CacheIsOneDocument
BY DEF ContentInv, Holds, CacheIsOneDocument, Resting

(* As long as no two watchers run at once, whatever is in the cache comes    *)
(* from one content of the single document, and at rest all of that content  *)
(* is there, unless a field of it is malformed (event.go:30-36).             *)
THEOREM CacheIsAContent == Spec /\ []OneActive => []CacheIsOneDocument
<1>1. OneActive /\ OneActive' /\ ContentInv /\ [Next]_vars => ContentInv'
  BY ContentNext
<1> QED
  BY <1>1, ContentStart, ContentIsEnough, PTL DEF Spec
===============================================================================
