-------------------------------- MODULE Book --------------------------------
(***************************************************************************)
(* The client book of an advisor (list_clients of handler.py): the keys    *)
(* under clients/ are listed in pages, and for each key that ends in .json *)
(* the record of the client is loaded and its advisor compared.  Records   *)
(* are created, replaced, handed to another advisor, damaged and deleted   *)
(* by others while a call is under way.                                    *)
(*                                                                         *)
(* The client of a key is its last path segment, but the record is loaded  *)
(* from clients/<id>.json: a copy in a folder below clients/ lists its      *)
(* client again.  S3 (external) lists the keys in order, serves a page of   *)
(* any length, and continues behind the last key of the page before.        *)
(***************************************************************************)
EXTENDS Integers, Sequences, FiniteSets

CONSTANTS
  Clients, Advisors,
  Requests,        \* calls of list_clients
  AdvisorOf,       \* the advisor_id of each call
  LastKey,         \* the keys that may exist are 1 .. LastKey, in listing order
  ClientOf,        \* the client a key names, or NotJson
  KeyOf,           \* clients/<id>.json of each client
  NotJson,         \* the "client" of a key that does not end in .json
  LastChange       \* bound on the changes others make

Keys == 1 .. LastKey

\* What an object holds: the advisor of a record, or nothing load_client reads.
Damaged == "damaged"
Absent == "absent"
Unreadable == {Damaged, Absent}

ASSUME KeysType ==
  /\ LastKey \in Nat /\ LastChange \in Nat
  /\ ClientOf \in [Keys -> Clients \cup {NotJson}]
  /\ KeyOf \in [Clients -> Keys]
  /\ \A i \in Clients : ClientOf[KeyOf[i]] = i
ASSUME NamesDistinct == NotJson \notin Clients /\ Unreadable \cap Advisors = {}
ASSUME AdvisorOfType == AdvisorOf \in [Requests -> Advisors]

VARIABLES
  object,          \* what is stored under each key
  changes,         \* how often others have changed an object
  pc,              \* the step each call is at
  page,            \* the keys of the page each call has still to look at
  last,            \* the last key listed to each call
  more,            \* whether the last page came with a continuation token
  ids,             \* the clients found so far
  steady, ever,    \* history: the clients the advisor had all through the call,
                   \* and at some time of it
  broken           \* history: the .json keys whose client could not be read all
                   \* through the call

store == <<object, changes>>
cursor == <<page, last, more>>
history == <<steady, ever, broken>>
vars == <<store, pc, cursor, ids, history>>

\* The clients of advisor a, and the keys that no load_client gets past.
Owned(o, a) == {i \in Clients : o[KeyOf[i]] = a}
Broken(o) == {k \in Keys : /\ o[k] # Absent /\ ClientOf[k] # NotJson
                           /\ o[KeyOf[ClientOf[k]]] \in Unreadable}

Init ==
  /\ object \in [Keys -> Advisors \cup Unreadable]
  /\ \A k \in Keys \ {KeyOf[i] : i \in Clients} : object[k] \in Unreadable
  /\ changes = 0
  /\ pc = [c \in Requests |-> "idle"]
  /\ page = [c \in Requests |-> {}]
  /\ last = [c \in Requests |-> 0]
  /\ more = [c \in Requests |-> TRUE]
  /\ ids = [c \in Requests |-> << >>]
  /\ steady = [c \in Requests |-> {}]
  /\ ever = [c \in Requests |-> {}]
  /\ broken = [c \in Requests |-> {}]

\* Somebody uploads, damages or deletes an object (external).  The content of
\* an object that is not a client's record is never read.
Change(k, content) ==
  /\ changes < LastChange /\ changes' = changes + 1
  /\ content \in Advisors => \E i \in Clients : k = KeyOf[i]
  /\ object' = [object EXCEPT ![k] = content]
  /\ steady' = [c \in Requests |-> steady[c] \cap Owned(object', AdvisorOf[c])]
  /\ ever' = [c \in Requests |-> ever[c] \cup Owned(object', AdvisorOf[c])]
  /\ broken' = [c \in Requests |-> broken[c] \cap Broken(object')]
  /\ UNCHANGED <<pc, cursor, ids>>

Move(c, from, to) == pc[c] = from /\ pc' = [pc EXCEPT ![c] = to]

\* lambda_handler finds the tool and its arguments.
Begin(c) ==
  /\ Move(c, "idle", "page")
  /\ steady' = [steady EXCEPT ![c] = Owned(object, AdvisorOf[c])]
  /\ ever' = [ever EXCEPT ![c] = Owned(object, AdvisorOf[c])]
  /\ broken' = [broken EXCEPT ![c] = Broken(object)]
  /\ UNCHANGED <<store, cursor, ids>>

\* An unknown tool, or no advisor_id: an error without any effect.
Reject(c) == Move(c, "idle", "error") /\ UNCHANGED <<store, cursor, ids, history>>

\* The keys that are there behind the last one listed.
Remaining(c) == {k \in Keys : k > last[c] /\ object[k] # Absent}

BugSameToken(c, end) ==  \* mutant: every request asks for the first page
  /\ more[c] /\ end \in Remaining(c)
  /\ Move(c, "page", "look")
  /\ page' = [page EXCEPT ![c] = {k \in Remaining(c) : k <= end}]
  /\ more' = [more EXCEPT ![c] = \E k \in Remaining(c) : k > end]
  /\ UNCHANGED <<store, last, ids, history>>

\* The paginator fetches a page, which ends with the key end.
NextPage(c, end) ==
  /\ more[c] /\ end \in Remaining(c)
  /\ Move(c, "page", "look")
  /\ page' = [page EXCEPT ![c] = {k \in Remaining(c) : k <= end}]
  /\ last' = [last EXCEPT ![c] = end]
  /\ more' = [more EXCEPT ![c] = \E k \in Remaining(c) : k > end]
  /\ UNCHANGED <<store, ids, history>>

\* A page without Contents: nothing is left.
EmptyPage(c) ==
  /\ more[c] /\ Remaining(c) = {}
  /\ Move(c, "page", "look")
  /\ more' = [more EXCEPT ![c] = FALSE]
  /\ UNCHANGED <<store, page, last, ids, history>>

BugFirstPageOnly(c) ==  \* mutant: list_objects_v2 without the paginator
  page[c] = {} /\ Move(c, "look", "answered") /\ UNCHANGED <<store, cursor, ids, history>>

\* The end of a page: the next one, or the answer.
EndOfPage(c) ==
  /\ page[c] = {}
  /\ Move(c, "look", IF more[c] THEN "page" ELSE "answered")
  /\ UNCHANGED <<store, cursor, ids, history>>

\* The loop over the keys of the page is at key k, and leaves it behind.
At(c, k) == pc[c] = "look" /\ k \in page[c] /\ \A j \in page[c] : k <= j
Pass(c, k) == page' = [page EXCEPT ![c] = @ \ {k}] /\ UNCHANGED <<last, more>>

\* if not key.endswith(".json"): continue.
Skip(c, k) ==
  /\ At(c, k) /\ ClientOf[k] = NotJson
  /\ Pass(c, k)
  /\ UNCHANGED <<store, pc, ids, history>>

\* What load_client(client_id) finds for the key.
Loaded(k) == object[KeyOf[ClientOf[k]]]

BugKeepsKey(c, k) ==  \* mutant: the key is kept and not the id
  /\ At(c, k) /\ ClientOf[k] # NotJson /\ Loaded(k) \notin Unreadable
  /\ ids' = [ids EXCEPT ![c] = IF Loaded(k) = AdvisorOf[c] THEN Append(@, k) ELSE @]
  /\ Pass(c, k)
  /\ UNCHANGED <<store, pc, history>>

\* load_client as the record is now; the id is kept when the advisor matches.
Load(c, k) ==
  /\ At(c, k) /\ ClientOf[k] # NotJson /\ Loaded(k) \notin Unreadable
  /\ ids' = [ids EXCEPT ![c] = IF Loaded(k) = AdvisorOf[c] THEN Append(@, ClientOf[k]) ELSE @]
  /\ Pass(c, k)
  /\ UNCHANGED <<store, pc, history>>

BugSkipUnreadable(c, k) ==  \* mutant: a record that cannot be read is passed over
  /\ At(c, k) /\ ClientOf[k] # NotJson /\ Loaded(k) \in Unreadable
  /\ Pass(c, k)
  /\ UNCHANGED <<store, pc, ids, history>>

\* NoSuchKey, or no JSON object: the whole call is answered by an error.
LoadRaises(c, k) ==
  /\ At(c, k) /\ ClientOf[k] # NotJson /\ Loaded(k) \in Unreadable
  /\ pc' = [pc EXCEPT ![c] = "error"]
  /\ UNCHANGED <<store, cursor, ids, history>>

\* S3 refuses a request, or Lambda ends the call at its time limit (external).
Fail(c) ==
  /\ pc[c] \in {"page", "look"} /\ pc' = [pc EXCEPT ![c] = "error"]
  /\ UNCHANGED <<store, cursor, ids, history>>

Next ==
  \/ \E k \in Keys, x \in Advisors \cup Unreadable : Change(k, x)
  \/ \E c \in Requests :
       \/ Begin(c) \/ Reject(c) \/ EmptyPage(c) \/ EndOfPage(c) \/ Fail(c)
       \/ \E k \in Keys : NextPage(c, k) \/ Skip(c, k) \/ Load(c, k) \/ LoadRaises(c, k)

Spec == Init /\ [][Next]_vars
-----------------------------------------------------------------------------
TypeOK ==
  /\ object \in [Keys -> Advisors \cup Unreadable]
  /\ changes \in 0 .. LastChange
  /\ pc \in [Requests -> {"idle", "page", "look", "answered", "error"}]
  /\ page \in [Requests -> SUBSET Keys]
  /\ last \in [Requests -> 0 .. LastKey]
  /\ more \in [Requests -> BOOLEAN]
  /\ ids \in [Requests -> Seq(Clients)]
  /\ steady \in [Requests -> SUBSET Clients]
  /\ ever \in [Requests -> SUBSET Clients]
  /\ broken \in [Requests -> SUBSET Keys]

Found(c) == {ids[c][n] : n \in 1 .. Len(ids[c])}

\* A book that is answered holds every client the advisor had all through the
\* call, whatever was added, deleted or handed over between its pages, and
\* none that the advisor never had during it.
BookIsBetween ==
  \A c \in Requests : pc[c] = "answered" =>
    steady[c] \subseteq Found(c) /\ Found(c) \subseteq ever[c]

\* A client is listed at most once for each key that names it, although its
\* record may be deleted and uploaded again between two pages.
OncePerKey ==
  \A c \in Requests, i \in Clients :
    Cardinality({n \in 1 .. Len(ids[c]) : ids[c][n] = i})
      <= Cardinality({k \in Keys : ClientOf[k] = i})

\* A book is never answered with a client silently left out: while a key names a
\* client whose record cannot be read, no call that sees it through is answered.
NoneLeftOut == \A c \in Requests : pc[c] = "answered" => broken[c] = {}
=============================================================================
