------------------------------ MODULE PickList ------------------------------
(***************************************************************************)
(* One team's pick list at one event (U20, L14): the document and the rows *)
(* on the Pi, the leads who change it through the page, the copies taken   *)
(* away to be changed without the network, and the rows on the devices.    *)
(*                                                                         *)
(*   page, exchange   tt-web/src/picklist.rs                               *)
(*   storage          tt-repo-sqlite/src/picklist.rs, 0001, 0004, 0006     *)
(*   devices          tt-client/src/sync.rs, apply_change                  *)
(*                                                                         *)
(* A change is made under a client id of its own.  Nothing else in the     *)
(* system edits a copy yet: a kept copy is any peer of exchange.           *)
(***************************************************************************)
EXTENDS PickDoc

CONSTANTS
    Client,    \* client ids, drawn at random: the bound on the changes made
    Lead,      \* requests under way at a time
    Kept,      \* copies of the list kept on devices
    Tag,       \* colours
    Roster,    \* the event's teams, or {}
    Listed     \* the teams of the rows stored before the document, best first

ASSUME PickListAssumption ==
    /\ Client \subseteq Nat \ {0} /\ Roster \subseteq Team /\ IsFiniteSet(Team)
    /\ Listed \in Seq(Team)
    /\ \A i, j \in 1..Len(Listed) : Listed[i] = Listed[j] => i = j

VARIABLES
    doc,       \* pick_list_docs on the Pi, None before it is first made
    picks,     \* pick_list_entries on the Pi
    mirror,    \* the rows of a device that has pulled every change
    retired,   \* record ids whose row was once deleted on the Pi
    lead,      \* the change each request has made and not yet merged
    kept,      \* the copies
    made,      \* every change, by its client
    landed     \* the clients whose change a merge on the Pi took

pickVars == <<doc, picks, mirror, retired, lead, kept, made, landed>>

Seed == 0      \* the client of the document made from the rows

PickRow == [id : ({Seed} \cup Client) \X Team, team : Team, tag : Tag \cup {None},
            crossed : BOOLEAN, position : Nat]

\* The writes of one kind of register: their names, the writes themselves.
Names(f, of) == ({Seed} \cup Client) \X ({f} \X of)
Items(f, of, vals) ==
    [name : Names(f, of), reg : {f} \X of, val : {f} \X vals, origin : Names(f, of) \cup {None}]

PickId   == ({Seed} \cup Client) \X Team
PickName == Names("pick", Team)
AnyItem  == Items("pick", Team, PickId) \cup Items("at", PickName, Seq(Nat))
                \cup Items("crossed", PickName, BOOLEAN) \cup Items("tag", PickName, Tag)
Docs     == [items : SUBSET AnyItem, gone : SUBSET (PickName \cup Names("tag", PickName))]
Changes  == [op : {"add", "remove", "move", "cross", "tag"}, team : Team, update : Docs,
             to : Tag \cup BOOLEAN \cup {None}, id : PickId]

ASSUME NoneAssumption ==
    None \notin Client \cup PickId \cup PickRow \cup AnyItem \cup PickName
                    \cup Names("at", PickName) \cup Names("crossed", PickName)
                    \cup Names("tag", PickName) \cup Docs \cup Changes

Row(list, t) == [id |-> list[t].id, team |-> t, tag |-> list[t].tag,
                 crossed |-> list[t].crossed, position |-> Place(list, t)]

\* The rows stored before the document.
FirstPicks ==
    LET position(t) == CHOOSE i \in 1..Len(Listed) : Listed[i] = t
    IN  [t \in Team |->
            IF \A i \in 1..Len(Listed) : Listed[i] # t THEN None
            ELSE [id |-> <<Seed, t>>, team |-> t, tag |-> None, crossed |-> FALSE,
                  position |-> position(t)]]

PickInit ==
    /\ doc = None
    /\ picks = FirstPicks
    /\ mirror = {picks[t] : t \in Team} \ {None}
    /\ retired = {}
    /\ lead = [l \in Lead |-> None]
    /\ kept = [k \in Kept |-> None]
    /\ made = [c \in Client |-> None]
    /\ landed = {}

-----------------------------------------------------------------------------
(* Storage. *)

\* Mutant: made again from the rows, for every reader.
RemadeDoc == FromEntries({picks[t] : t \in Team} \ {None}, Seed)

\* doc: the stored document, made from the rows the first time.  Who reads it
\* stores it, in the same transaction.
StoredDoc ==
    IF doc # None THEN doc ELSE FromEntries({picks[t] : t \in Team} \ {None}, Seed)

\* Mutant: rows are matched by their team alone.
OutdatedByTeam(rows, list) == {t \in Team : rows[t] # None /\ t \notin DOMAIN list}

\* The rows to delete: matched by team and record id.
Outdated(rows, list) ==
    {t \in Team : rows[t] # None /\ (t \notin DOMAIN list \/ list[t].id # rows[t].id)}

\* A team's row that stays keeps its record id.
Upserted(rows, list) ==
    [t \in Team |->
        IF t \notin DOMAIN list THEN rows[t]
        ELSE IF rows[t] = None THEN Row(list, t)
        ELSE [Row(list, t) EXCEPT !.id = rows[t].id]]

\* Mutant: a row is upserted beside the others of its team.
ApplyUpsertsBeside(table, new) == {x \in table : \A y \in new : x.id # y.id} \cup new

\* apply_change, upsert_pick: the row replaces those of its id and its team.
ApplyUpserts(table, new) ==
    {x \in table : \A y \in new : x.id # y.id /\ x.team # y.team} \cup new

\* What a device that pulls does with the changes of one merge: the deletes,
\* then each row that changed.  No two of one merge's upserts share a team.
Pulled(table, deleted, new) == ApplyUpserts({x \in table : x.id \notin deleted}, new)

\* merge_pick_list: the document, the rows it reads as, and the change log,
\* all in one transaction.
MergePickList(base, update) ==
    LET merged   == Merge(base, update)
        list     == Listing(merged)
        outdated == Outdated(picks, list)
        left     == [t \in Team |-> IF t \in outdated THEN None ELSE picks[t]]
        deleted  == {picks[t].id : t \in outdated}
    IN  /\ doc' = merged
        /\ picks' = Upserted(left, list)
        /\ mirror' = Pulled(mirror, deleted, {picks'[t] : t \in {u \in Team : picks'[u] # left[u]}})
        /\ retired' = retired \cup deleted

-----------------------------------------------------------------------------
(* The page: a request reads the document in one transaction and merges its *)
(* edit in another.                                                        *)

Edits == [op : {"add", "remove", "up", "down"}, team : Team, to : {None}]
MoveEdits  == [op : {"move"}, team : Team, to : 1..Cardinality(Team)]
CrossEdits == [op : {"cross"}, team : Team, to : BOOLEAN]
TagEdits   == [op : {"tag"}, team : Team, to : Tag \cup {None}]

\* What is remembered of an edit: what it is, which row it meant, the update.
Made(copy, c, e, update) ==
    [op |-> IF e.op \in {"up", "down"} THEN "move" ELSE e.op, team |-> e.team, update |-> update,
     to |-> IF e.op \in {"cross", "tag"} THEN e.to ELSE None,
     id |-> IF e.op = "add" THEN <<c, e.team>> ELSE Listing(copy)[e.team].id]

\* An edit refused, or one that changes nothing, is answered at once.
Begin(l, c, e) ==
    LET update == Apply(StoredDoc, c, e, Roster)
    IN  /\ lead[l] = None /\ made[c] = None
        /\ doc' = StoredDoc
        /\ IF update = None THEN UNCHANGED <<lead, made>>
           ELSE /\ lead' = [lead EXCEPT ![l] = c]
                /\ made' = [made EXCEPT ![c] = Made(StoredDoc, c, e, update)]
        /\ UNCHANGED <<picks, mirror, retired, kept, landed>>

Save(l) ==
    /\ lead[l] # None
    /\ MergePickList(StoredDoc, made[lead[l]].update)
    /\ lead' = [lead EXCEPT ![l] = None]
    /\ landed' = landed \cup {lead[l]}
    /\ UNCHANGED <<kept, made>>

\* The storage did not answer, or the Pi went down: not saved.
NotSaved(l) ==
    /\ lead[l] # None
    /\ lead' = [lead EXCEPT ![l] = None]
    /\ UNCHANGED <<doc, picks, mirror, retired, kept, made, landed>>

-----------------------------------------------------------------------------
(* exchange: a copy and the Pi. *)

Has(copy, update) == update.items \subseteq copy.items /\ update.gone \subseteq copy.gone

\* GET, and the second half of POST: the whole document comes back.
Fetch(k) ==
    /\ doc' = StoredDoc
    /\ kept' = [kept EXCEPT ![k] = IF @ = None THEN StoredDoc ELSE Merge(@, StoredDoc)]
    /\ UNCHANGED <<picks, mirror, retired, lead, made, landed>>

\* POST: the copy is merged as it is, however often it is sent.
Post(k) ==
    /\ kept[k] # None
    /\ doc # None => Merge(doc, kept[k]) # doc
    /\ MergePickList(StoredDoc, kept[k])
    /\ landed' = landed \cup {c \in Client : made[c] # None /\ Has(kept[k], made[c].update)}
    /\ UNCHANGED <<lead, kept, made>>

\* An edit to a copy, away from the Pi.
Amend(k, c, e) ==
    /\ kept[k] # None /\ made[c] = None
    /\ LET update == Apply(kept[k], c, e, Roster)
       IN  /\ update # None
           /\ kept' = [kept EXCEPT ![k] = Merge(@, update)]
           /\ made' = [made EXCEPT ![c] = Made(kept[k], c, e, update)]
    /\ UNCHANGED <<doc, picks, mirror, retired, lead, landed>>

AnEdit(A(_, _, _), who, c) ==
    \/ \E e \in Edits : A(who, c, e)
    \/ \E e \in MoveEdits : A(who, c, e)
    \/ \E e \in CrossEdits : A(who, c, e)
    \/ \E e \in TagEdits : A(who, c, e)

PickNext ==
    \/ \E l \in Lead : (\E c \in Client : AnEdit(Begin, l, c)) \/ Save(l) \/ NotSaved(l)
    \/ \E k \in Kept : (\E c \in Client : AnEdit(Amend, k, c)) \/ Fetch(k) \/ Post(k)

\* The list alone.
PickAlone == PickInit /\ [][PickNext]_pickVars

-----------------------------------------------------------------------------
(* Properties. *)

PickTypeOK ==
    /\ \A t \in Team : picks[t] # None => picks[t] \in PickRow /\ picks[t].team = t
    /\ mirror \subseteq PickRow
    /\ doc \in Docs \cup {None} /\ kept \in [Kept -> Docs \cup {None}]
    /\ made \in [Client -> Changes \cup {None}]
    /\ lead \in [Lead -> Client \cup {None}] /\ landed \subseteq Client
    /\ \A l \in Lead : lead[l] # None => made[lead[l]] # None

Rows(list) == {Row(list, t) : t \in DOMAIN list}

\* The rows on the Pi, and on every device that has pulled its changes, are
\* what the document reads as: the same teams, record ids, places and marks.
ListReadsAlike ==
    /\ doc # None => {picks[t] : t \in Team} \ {None} = Rows(Listing(doc))
    /\ mirror = {picks[t] : t \in Team} \ {None}

\* Changes made at once, on any copies, both land: an added team is on the
\* list unless somebody removed it, a removed row is off it, and a mark is as
\* it was last set unless its row is gone or somebody else set it too.
ChangesLand ==
    \A c \in landed :
        LET m == made[c]
            Also(op) == \E o \in landed \ {c} :
                            made[o].op = op /\ made[o].team = m.team
        IN  /\ m.op = "add" => picks[m.team] # None \/ Also("remove")
            /\ m.op = "remove" => \A t \in Team : picks[t] # None => picks[t].id # m.id
            /\ m.op \in {"cross", "tag"} /\ picks[m.team] # None =>
                   \/ picks[m.team].id # m.id
                   \/ Also(m.op)
                   \/ m.op = "cross" /\ picks[m.team].crossed = m.to
                   \/ m.op = "tag" /\ picks[m.team].tag = m.to

\* A row once deleted on the Pi never comes back, whatever arrives late.
RetiredStayOff == \A t \in Team : picks[t] # None => picks[t].id \notin retired

\* A move puts the team at the place asked for, as long as the keys it goes
\* between differ, and leaves every other team where it was among the rest.
MovesLand ==
    doc # None =>
        LET list == Listing(doc)
        IN  \A t \in DOMAIN list, p \in 1..Cardinality(DOMAIN list), c \in Client :
                LET other  == Others(list, t)
                    update == Move(doc, c, t, p)
                    after  == Listing(Merge(doc, update))
                IN  update # None /\ Before(KeyAt(other, p - 1), KeyAt(other, p)) /\ made[c] = None =>
                        /\ Place(after, t) = p
                        /\ Others(after, t) = other
=============================================================================
