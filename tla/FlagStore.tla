------------------------------ MODULE FlagStore ------------------------------
(***************************************************************************)
(* The MongoDB collection that holds the flags, as the code uses it: the    *)
(* writes of src/client/client.go and of other programs, and the change     *)
(* streams that internal/watchhandler/changestream.go opens on it.          *)
(*                                                                          *)
(* single: every flag is a field of one document (WithDocumentID);          *)
(* otherwise every flag is a document of its own.  A definition is the      *)
(* number of the write that stored it, 0 when there is none; BadWrites are  *)
(* the writes that store something no definition can be decoded from.       *)
(***************************************************************************)
EXTENDS Integers, Sequences

CONSTANTS
    Modes,          \* the modes to start in: whether one document holds every flag
    Flags,          \* flag keys
    Watchers,       \* goroutines that may run WatchHandler.Watch
    MaxWrites,      \* bound on the number of definitions ever written
    BadWrites,      \* the writes that store a malformed definition
    Foreign,        \* other programs replace and delete the document, drop the collection
    NoDoc,          \* an event without fullDocument; no document found
    Unread          \* an update whose fullDocument has not been looked up yet

ASSUME StoreAssumption ==
    /\ Modes \subseteq BOOLEAN /\ Foreign \in BOOLEAN
    /\ MaxWrites \in Nat /\ BadWrites \subseteq 1..MaxWrites

Versions == 0..MaxWrites
Docs == UNION {[F -> 1..MaxWrites] : F \in SUBSET Flags}

ASSUME NoDocAssumption == NoDoc # Unread /\ {NoDoc, Unread} \cap Docs = {}

VARIABLES
    single,   \* single-document mode, for good
    store,    \* the definition stored for each flag
    live,     \* single-document mode: the document exists
    writes,   \* how many definitions have been written
    dropped,  \* the collection has been dropped
    open,     \* the watchers that have a change stream open
    feed      \* the events each open stream has still to hand out

dbVars == <<single, store, live, writes, dropped>>
storeVars == <<dbVars, open, feed>>

Events == [op : {"insert", "update", "replace", "delete", "invalidate"},
           flag : Flags \cup {NoDoc}, doc : Docs \cup {NoDoc, Unread}]

StoreTypeOK ==
    /\ single \in Modes
    /\ store \in [Flags -> Versions]
    /\ live \in BOOLEAN /\ dropped \in BOOLEAN
    /\ writes \in Versions
    /\ open \subseteq Watchers
    /\ feed \in [Watchers -> Seq(Events)]

StoreInit ==
    /\ single \in Modes
    /\ store = [f \in Flags |-> 0]
    /\ live = FALSE /\ dropped = FALSE
    /\ writes = 0
    /\ open = {}
    /\ feed = [w \in Watchers |-> <<>>]

(* The document with the flags of s; the document of flag f alone.          *)
Document(s) == [f \in {g \in Flags : s[g] # 0} |-> s[f]]
DocumentOf(f, s) == IF s[f] = 0 THEN NoDoc ELSE [g \in {f} |-> s[f]]

Image(f, s) == IF single THEN Document(s) ELSE DocumentOf(f, s)

(* Mutant: the other $match has the typo of this one.                       *)
MatchesNoUpdate(e) == e.op \in {"insert", "update ", "replace", "delete"}

(* The $match of the change stream.  In single-document mode it asks for    *)
(* "update " and for a fullDocument with the right _id.                     *)
Matches(e) ==
    IF single
    THEN e.op \in {"insert", "update ", "replace", "delete"} /\ e.doc # NoDoc
    ELSE e.op \in {"insert", "update", "replace", "delete"}

(* Every open stream gets the event if its $match lets it through.          *)
Emit(e) == feed' = [w \in Watchers |->
    IF w \in open /\ Matches(e) THEN Append(feed[w], e) ELSE feed[w]]

Event(op, f, d) == [op |-> op, flag |-> f, doc |-> d]

Exists(f) == IF single THEN live ELSE store[f] # 0

(* client.SetFlag: an upsert of the flag's document, or of its field.       *)
SetFlag(f) ==
    /\ writes < MaxWrites
    /\ writes' = writes + 1
    /\ store' = [store EXCEPT ![f] = writes']
    /\ live' = single
    /\ Emit(IF Exists(f) THEN Event("update", f, Unread)
                         ELSE Event("insert", f, Image(f, store')))
    /\ UNCHANGED <<single, dropped, open>>

(* client.DeleteFlag: deletes the document, or unsets the field.            *)
DeleteFlag(f) ==
    /\ store[f] # 0
    /\ store' = [store EXCEPT ![f] = 0]
    /\ Emit(IF single THEN Event("update", f, Unread) ELSE Event("delete", f, NoDoc))
    /\ UNCHANGED <<single, live, writes, dropped, open>>

(* Another program replaces the document that holds f ...                   *)
ReplaceDocument(f) ==
    /\ Foreign /\ Exists(f) /\ writes < MaxWrites
    /\ writes' = writes + 1
    /\ store' = [store EXCEPT ![f] = writes']
    /\ Emit(Event("replace", f, Image(f, store')))
    /\ UNCHANGED <<single, live, dropped, open>>

(* ... or deletes it ...                                                    *)
DeleteDocument(f) ==
    /\ Foreign /\ single /\ live
    /\ store' = [g \in Flags |-> 0]
    /\ live' = FALSE
    /\ Emit(Event("delete", f, NoDoc))
    /\ UNCHANGED <<single, writes, dropped, open>>

(* ... or drops the collection: the last every stream on it hands out is an *)
(* "invalidate", which no $match stops.                                     *)
DropCollection ==
    /\ Foreign /\ \E f \in Flags : Exists(f)
    /\ store' = [g \in Flags |-> 0]
    /\ live' = FALSE /\ dropped' = TRUE
    /\ feed' = [w \in Watchers |-> IF w \in open
                  THEN Append(feed[w], Event("invalidate", NoDoc, NoDoc))
                  ELSE feed[w]]
    /\ UNCHANGED <<single, writes, open>>

StoreNext ==
    \/ \E f \in Flags : SetFlag(f) \/ DeleteFlag(f) \/ ReplaceDocument(f) \/ DeleteDocument(f)
    \/ DropCollection

(* SetFullDocument(UpdateLookup): the server reads the document of an       *)
(* update some time after the update, ahead of the client's Next.           *)
LookUp(w) ==
    \E i \in DOMAIN feed[w] :
        /\ feed[w][i].doc = Unread
        /\ \A j \in 1..i - 1 : feed[w][j].doc # Unread
        /\ feed' = [feed EXCEPT ![w][i].doc = Image(feed[w][i].flag, store)]
        /\ UNCHANGED <<dbVars, open>>

Closed(w) == open' = open \ {w} /\ feed' = [feed EXCEPT ![w] = <<>>]

(* What a FindOne with the watcher's filter may return: the document, or    *)
(* with no filter any document of the collection.                           *)
FindOne ==
    IF single THEN {IF live THEN Document(store) ELSE NoDoc}
    ELSE LET some == {DocumentOf(f, store) : f \in {g \in Flags : store[g] # 0}}
         IN  IF some = {} THEN {NoDoc} ELSE some
===============================================================================
