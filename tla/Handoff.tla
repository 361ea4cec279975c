------------------------------ MODULE Handoff ------------------------------
(***************************************************************************)
(* A scout's forms from a tablet that cannot reach the Pi (C3, S13): drafts *)
(* in localStorage, the code made of them, the lead's scanner, the receipt. *)
(*                                                                         *)
(*   tablet  tt-web/static/js/{draft,token,handoff,qr}.js                  *)
(*   lead    tt-web/static/js/receive.js                                   *)
(*   Pi      tt-web/src/{handoff,scouting,push,token}.rs, tt-core/src/qr.rs *)
(*                                                                         *)
(* A form is about a scout and a robot in a match: its key.  Its answers    *)
(* are a version, 0 as the server renders them; its record id is the page   *)
(* load that made it.  One tablet, with one tab, that several scouts sign   *)
(* in on.  Drafts are younger than three days.                             *)
(***************************************************************************)
EXTENDS Naturals, FiniteSets, Absent

CONSTANTS
    User, Watched,  \* scouts, and the robots of a match they watch
    Parts,          \* the codes a transfer takes
    MaxEdits,       \* bound: versions of a form
    MaxLoads,       \* bound: pages had from the Pi
    MaxFaults       \* bound: what is lost, fails or runs out

Key      == User \X Watched
RecordId == 1..MaxLoads
Version  == 0..MaxEdits

\* A draft; a form in a code or with the Pi; a code; a page of the tablet.
DraftRow == [id : RecordId, v : Version, tried : BOOLEAN]
FormRow  == [key : Key, id : RecordId, v : Version, as : User \cup {None},
             kept : {None, "recorded", "refused"}]
Code     == [as : User, forms : SUBSET FormRow]
PageRow  == [form : Key \cup {None}, id : 0..MaxLoads, v : Version, tried : BOOLEAN,
             asks : User \cup {None}, list : SUBSET Key, code : Code \cup {None}]

ASSUME HandoffAssumption ==
    /\ Parts \in Nat \ {0} /\ MaxEdits \in Nat /\ MaxLoads \in Nat /\ MaxFaults \in Nat
    /\ None \notin User \cup Watched
    /\ None \notin Key /\ None \notin Version /\ None \notin DraftRow /\ None \notin FormRow

VARIABLES
    drafts,    \* tt-draft:v1:, by key
    token,     \* tt-token:v1: whose it is
    page,      \* the tablet's page
    observed,  \* the Pi's observations and refused entries, by record id
    scan,      \* the lead's page
    edits,     \* the newest version of each form
    finished,  \* history: what Save was last pressed on
    left,      \* history: the first version of each record that left the tablet
    loads, faults

handoffVars == <<drafts, token, page, observed, scan, edits, finished, left, loads, faults>>

\* The form on the page (tried: Save was pressed), whose token the page waits
\* for, the forms the panel lists and the code it shows.
NoForm  == [form |-> None, id |-> 0, v |-> 0, tried |-> FALSE, asks |-> None, list |-> {},
            code |-> None]
Scanner == [parts |-> [i \in 1..Parts |-> None], receipts |-> None]

HandoffInit ==
    /\ drafts = [k \in Key |-> None] /\ token = None /\ page = NoForm
    /\ observed = [i \in RecordId |-> None]
    /\ scan = Scanner
    /\ edits = [k \in Key |-> 0] /\ finished = [k \in Key |-> None]
    /\ left = [i \in RecordId |-> None]
    /\ loads = 0 /\ faults = 0

Fault == faults < MaxFaults /\ faults' = faults + 1

-----------------------------------------------------------------------------
(* Drafts, and the panel's list of them. *)

Draft(tried) == [id |-> page.id, v |-> page.v, tried |-> tried]

\* save: the form on the page, as it stands.
Saved == IF page.form = None THEN drafts ELSE [drafts EXCEPT ![page.form] = Draft(page.tried)]

\* Mutant: everybody's.
DraftsOfAll(all, who) == IF who = None THEN {} ELSE {k \in Key : all[k] # None}

\* drafts(user): none without a token.
DraftsOf(all, who) == {k \in Key : k[1] = who /\ all[k] # None}

\* A page with the panel and no form: /offline, or what a save answers with.
Panel(all, who) == [NoForm EXCEPT !.list = DraftsOf(all, who)]

SentOut(forms) ==
    left' = [i \in RecordId |->
        IF left[i] = None /\ \E f \in forms : f.id = i
        THEN (CHOOSE f \in forms : f.id = i).v ELSE left[i]]

-----------------------------------------------------------------------------
(* Pages. *)

IsRecorded(row) == row # None /\ row.kept = "recorded"

Records(k) == \E i \in RecordId :
    IsRecorded(observed[i]) /\ <<observed[i].as, observed[i].key[2]>> = k

\* Mutant: another's token stays until it is replaced.
KeepToken(u) == token

\* token.js: another's token goes, and one's own is asked for.
OwnToken(u) == IF token = u THEN u ELSE None

Asks(u) == IF token = u THEN None ELSE u

\* A page from the Pi for u: the form, unless it is recorded, with its draft
\* put back.  A draft that says what the form says is not.
Arrive(u, r) ==
    LET k     == <<u, r>>
        shown == [Panel(Saved, OwnToken(u)) EXCEPT !.asks = Asks(u)]
        fresh == [shown EXCEPT !.form = k, !.id = loads + 1]
        draft == Saved[k]
    IN  /\ loads < MaxLoads /\ loads' = loads + 1
        /\ drafts' = Saved /\ token' = OwnToken(u)
        /\ page' = IF Records(k) THEN shown
                   ELSE IF draft = None THEN fresh
                   ELSE IF draft.v = 0 THEN [fresh EXCEPT !.tried = draft.tried]
                   ELSE [fresh EXCEPT !.id = draft.id, !.v = draft.v, !.tried = draft.tried]
        /\ UNCHANGED <<observed, scan, edits, finished, left, faults>>

\* The Pi cannot be reached: /offline, whose panel lists the token's user's.
Shell ==
    /\ page.form # None
    /\ drafts' = Saved /\ page' = Panel(Saved, token)
    /\ UNCHANGED <<token, observed, scan, edits, finished, left, loads, faults>>

\* The answer of POST /api/auth/token.
TokenComes ==
    /\ page.asks # None
    /\ token' = page.asks /\ page' = [page EXCEPT !.asks = None]
    /\ UNCHANGED <<drafts, observed, scan, edits, finished, left, loads, faults>>

\* 72 hours.
TokenExpires ==
    /\ token # None /\ Fault /\ token' = None
    /\ UNCHANGED <<drafts, page, observed, scan, edits, finished, left, loads>>

Type ==
    LET k == page.form
    IN  /\ k # None /\ edits[k] < MaxEdits
        /\ edits' = [edits EXCEPT ![k] = @ + 1]
        /\ page' = [page EXCEPT !.v = edits[k] + 1]
        /\ UNCHANGED <<drafts, token, observed, scan, finished, left, loads, faults>>

\* The debounce is over, or the screen goes off.
Keep ==
    /\ page.form # None /\ drafts' = Saved
    /\ UNCHANGED <<token, page, observed, scan, edits, finished, left, loads, faults>>

\* "Discard them and start over".
Discard ==
    LET gone == [drafts EXCEPT ![page.form] = None]
    IN  /\ page.form # None /\ drafts[page.form] # None
        /\ drafts' = gone /\ page' = Panel(gone, token)
        /\ finished' = [finished EXCEPT ![page.form] = None]
        /\ UNCHANGED <<token, observed, scan, edits, left, loads, faults>>

-----------------------------------------------------------------------------
(* Recording on the Pi. *)

\* record_observation: a record id is stored once, a scout keeps one
\* observation of a robot.
Recorded(form, as) ==
    IF observed[form.id] = None /\ ~Records(<<as, form.key[2]>>)
    THEN [form EXCEPT !.as = as, !.kept = "recorded"] ELSE observed[form.id]

\* push::record: an entry it conflicts with is refused, and kept for a lead.
RecordForm(form, as) ==
    IF Recorded(form, as) = None THEN [form EXCEPT !.as = as, !.kept = "refused"]
    ELSE Recorded(form, as)

Form(k, draft) == [key |-> k, id |-> draft.id, v |-> draft.v, as |-> None, kept |-> None]

\* Save is pressed: the draft says so, and scouting::submit may never have it;
\* record it, and its answer be lost; answer with the form, for storage
\* failed; answer that the scout has another observation of the robot, or with
\* a page that clears the draft.
Submit ==
    LET k    == page.form
        form == Form(k, page)
        kept == [drafts EXCEPT ![k] = Draft(TRUE)]
        stored == [observed EXCEPT ![form.id] = Recorded(form, k[1])]
        cleared == IF IsRecorded(Recorded(form, k[1])) THEN [kept EXCEPT ![k] = None] ELSE kept
    IN  /\ k # None
        /\ finished' = [finished EXCEPT ![k] = [id |-> page.id, v |-> page.v]]
        /\ \/ /\ Fault
              /\ drafts' = kept /\ page' = [page EXCEPT !.tried = TRUE]
              /\ \/ UNCHANGED <<observed, left>>
                 \/ observed' = stored /\ SentOut({form})
           \/ /\ Fault /\ ~Records(k)
              /\ drafts' = [kept EXCEPT ![k] = Draft(FALSE)]
              /\ page' = [page EXCEPT !.tried = FALSE]
              /\ UNCHANGED <<observed, left>>
           \/ /\ observed' = stored /\ SentOut({form})
              /\ drafts' = cleared /\ page' = [Panel(cleared, token) EXCEPT !.asks = Asks(k[1])]
              /\ UNCHANGED faults
        /\ UNCHANGED <<token, scan, edits, loads>>

-----------------------------------------------------------------------------
(* The panel. *)

\* Closed and opened: what is typed on this page is saved and listed too.
OpenPanel ==
    /\ drafts' = Saved
    /\ page' = [page EXCEPT !.list = DraftsOf(Saved, token), !.code = None]
    /\ UNCHANGED <<token, observed, scan, edits, finished, left, loads, faults>>

\* chosen, read now, with the token as it is now.
ShowCode ==
    /\ token # None
    /\ \E ticked \in SUBSET page.list \ {{}} :
        LET forms == {Form(k, drafts[k]) : k \in ticked}
        IN  /\ \A k \in ticked : drafts[k] # None
            /\ page' = [page EXCEPT !.code = [as |-> token, forms |-> forms]]
            /\ SentOut(forms)
    /\ UNCHANGED <<drafts, token, observed, scan, edits, finished, loads, faults>>

\* Mutant: a part of another transfer is one more part.
TakeAny(code, i) == [scan EXCEPT !.parts[i] = code]

\* Assembler::add: a code of another transfer starts over on it.
Take(code, i) ==
    LET begun == \E j \in 1..Parts : scan.parts[j] = code
    IN  [scan EXCEPT !.parts = [j \in 1..Parts |->
            IF j = i THEN code ELSE IF begun THEN scan.parts[j] ELSE None]]

\* The lead's camera, at the part the tablet shows.
Look(i) ==
    /\ page.code # None
    /\ scan.receipts = None /\ \E j \in 1..Parts : scan.parts[j] = None
    /\ scan' = Take(page.code, i)
    /\ UNCHANGED <<drafts, token, page, observed, edits, finished, left, loads, faults>>

\* handoff::receive, of all the forms, or of some until storage fails or the
\* token runs out: then there is no receipt and the lead's page is the scanner
\* again.  A transfer's first part holds the token, its last the forms.
Receive ==
    /\ scan.receipts = None /\ \A j \in 1..Parts : scan.parts[j] # None
    /\ LET as    == scan.parts[1].as
           forms == scan.parts[Parts].forms
       IN  \E some \in SUBSET forms :
            /\ observed' = [i \in RecordId |->
                    IF \E f \in some : f.id = i
                    THEN RecordForm(CHOOSE f \in some : f.id = i, as) ELSE observed[i]]
            /\ \/ /\ some = forms /\ UNCHANGED faults
                  /\ scan' = [Scanner EXCEPT !.receipts = {f.id : f \in forms}]
               \/ /\ Fault /\ scan' = Scanner
    /\ UNCHANGED <<drafts, token, page, edits, finished, left, loads>>

\* Mutant: what was shown is done with, whatever became of it.
SettlesShown ==
    IF page.code = None THEN scan.receipts ELSE {f.id : f \in page.code.forms}

Settles == scan.receipts

\* The receipt, scanned by the tablet: the drafts of the token's user that it
\* names go, as they are by now.
ScanReceipt ==
    LET gone == {k \in DraftsOf(drafts, token) : drafts[k].id \in Settles}
        kept == [k \in Key |-> IF k \in gone THEN None ELSE drafts[k]]
    IN  /\ scan.receipts # None
        /\ drafts' = kept
        /\ page' = [page EXCEPT !.code = None, !.list = DraftsOf(kept, token)]
        /\ UNCHANGED <<token, observed, scan, edits, finished, left, loads, faults>>

\* The lead takes the next tablet, or the page is lost.
NextTablet ==
    /\ scan # Scanner /\ scan' = Scanner
    /\ UNCHANGED <<drafts, token, page, observed, edits, finished, left, loads, faults>>

HandoffNext ==
    \/ \E u \in User, r \in Watched : Arrive(u, r)
    \/ Shell \/ TokenComes \/ TokenExpires
    \/ Type \/ Keep \/ Discard \/ Submit
    \/ OpenPanel \/ ShowCode \/ ScanReceipt
    \/ \E i \in 1..Parts : Look(i)
    \/ Receive \/ NextTablet

HandoffSpec == HandoffInit /\ [][HandoffNext]_handoffVars

-----------------------------------------------------------------------------
(* Properties. *)

\* Every variable has its type; each draft and record is a version of its form.
HandoffTypeOK ==
    /\ drafts \in [Key -> DraftRow \cup {None}]
    /\ \A k \in Key : drafts[k] # None => drafts[k].v <= edits[k]
    /\ token \in User \cup {None}
    /\ page \in PageRow /\ (page.form # None => page.id \in RecordId)
    /\ observed \in [RecordId -> FormRow \cup {None}]
    /\ \A i \in RecordId : observed[i] # None => observed[i].id = i /\ observed[i].as \in User
    /\ scan \in [parts : [1..Parts -> Code \cup {None}], receipts : (SUBSET RecordId) \cup {None}]
    /\ edits \in [Key -> Version]
    /\ finished \in [Key -> [id : RecordId, v : Version] \cup {None}]
    /\ left \in [RecordId -> Version \cup {None}]
    /\ loads \in 0..MaxLoads /\ faults \in 0..MaxFaults

\* A form Save was pressed on waits on the tablet or is with the Pi, as it was
\* finished, whatever was lost, scanned twice, or failed half way, and whoever
\* had the tablet in between: unless it was changed after an earlier version
\* of its record had left the tablet.
FinishedFormsKept ==
    \A k \in Key : finished[k] # None /\ left[finished[k].id] \in {None, finished[k].v} =>
        \/ drafts[k] # None /\ drafts[k].v >= finished[k].v
        \/ \E i \in RecordId :
            observed[i] # None /\ observed[i].key = k /\ observed[i].v >= finished[k].v

\* What the Pi holds of a form is under the scout who filled it in, whoever
\* else has used the tablet and whatever codes the lead's camera saw between.
RecordedAsTheirScout == \A i \in RecordId : observed[i] # None => observed[i].as = observed[i].key[1]
=============================================================================
