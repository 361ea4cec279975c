---------------------------- MODULE Handoff_proofs ----------------------------
(* Proofs about Handoff: for every number of scouts, robots, edits, pages and  *)
(* faults, and of codes to a transfer.                                       *)
EXTENDS Handoff, TLAPS

-----------------------------------------------------------------------------
(* The inductive invariant. *)

\* The codes that show or that the lead's camera has seen a part of; the forms
\* in them and on the Pi: everything that has left the tablet and is still about.
Outgoing == ({page.code} \cup {scan.parts[j] : j \in 1..Parts}) \ {None}
OutForms == (UNION {c.forms : c \in Outgoing}) \cup ({observed[i] : i \in RecordId} \ {None})

\* The page, the token it may wait for and the panel's list are one scout's.
PageIsOnes ==
    \E w \in User \cup {None} :
        /\ token \in {w, None} /\ page.asks \in {w, None}
        /\ page.form # None => page.form[1] = w
        /\ \A k \in page.list : k[1] = w

\* The lead's page holds parts of one transfer.
OneTransfer ==
    \A i, j \in 1..Parts :
        scan.parts[i] # None /\ scan.parts[j] # None => scan.parts[i] = scan.parts[j]

\* A code's forms are those of the scout whose token it holds.
CodesAreOnes == \A c \in Outgoing : \A f \in c.forms : f.key[1] = c.as

\* A record id is of one form, wherever a version of it is, and given once.
Owned(owner) ==
    /\ \A i \in RecordId : i > loads => owner[i] = None
    /\ \A k \in Key : drafts[k] # None => owner[drafts[k].id] = k
    /\ page.form # None => owner[page.id] = page.form
    /\ \A f \in OutForms : owner[f.id] = f.key
OneForm == \E owner \in [RecordId -> Key \cup {None}] : Owned(owner)

\* Of a record that has left the tablet, nothing is older than what left first.
FirstLeft ==
    /\ \A i \in RecordId : i > loads => left[i] = None
    /\ \A f \in OutForms : left[f.id] # None /\ left[f.id] <= f.v
    /\ \A k \in Key : drafts[k] # None /\ left[drafts[k].id] # None =>
            left[drafts[k].id] <= drafts[k].v
    /\ page.form # None /\ left[page.id] # None => left[page.id] <= page.v

\* The page is no older than its draft, and no newer than what was typed.
PageIsNewest ==
    page.form # None =>
        /\ page.v <= edits[page.form]
        /\ drafts[page.form] # None /\ drafts[page.form].id = page.id =>
                drafts[page.form].v <= page.v

\* What a receipt names, the Pi has.
ReceiptsHold == scan.receipts # None => \A i \in scan.receipts : observed[i] # None

\* FinishedFormsKept speaks of k; the Pi has k as it was finished; x, a draft or
\* the page, is what was finished, or newer.
Counts(k) == finished[k] # None /\ left[finished[k].id] \in {None, finished[k].v}
OnPi(k) ==
    \E i \in RecordId :
        observed[i] # None /\ observed[i].key = k /\ finished[k].v <= observed[i].v
Carries(k, x) == finished[k].v <= x.v /\ (x.id = finished[k].id \/ finished[k].v = 0)

\* Until the Pi has it, a finished form is a draft, and stays so when the page
\* it is on is saved over it.
FinishedHeld ==
    \A k \in Key : Counts(k) /\ ~OnPi(k) =>
        /\ drafts[k] # None /\ Carries(k, drafts[k])
        /\ page.form = k => Carries(k, page)

HInv ==
    /\ HandoffTypeOK
    /\ PageIsOnes /\ OneTransfer /\ CodesAreOnes /\ RecordedAsTheirScout
    /\ OneForm /\ FirstLeft /\ PageIsNewest /\ ReceiptsHold /\ FinishedHeld

LEMMA OutFormsAre ==
  ASSUME HandoffTypeOK
  PROVE  /\ \A c \in Outgoing : c \in Code
         /\ \A f \in OutForms : f \in FormRow /\ f.id \in RecordId /\ f.key \in Key /\ f.v \in Version
<1>1. \A c \in Outgoing : c \in Code
  <2>1. page.code \in Code \cup {None}
    BY DEF HandoffTypeOK, PageRow
  <2>2. \A j \in 1..Parts : scan.parts[j] \in Code \cup {None}
    BY DEF HandoffTypeOK
  <2> QED BY <2>1, <2>2 DEF Outgoing
<1>2. \A c \in Outgoing : \A f \in c.forms : f \in FormRow
  BY <1>1 DEF Code
<1>3. \A i \in RecordId : observed[i] # None => observed[i] \in FormRow
  BY DEF HandoffTypeOK
<1>4. \A f \in OutForms : f \in FormRow
  <2> HIDE DEF FormRow
  <2> QED BY <1>2, <1>3 DEF OutForms
<1> QED BY <1>1, <1>4 DEF FormRow

LEMMA InitHolds == HandoffInit => HInv
<1> SUFFICES ASSUME HandoffInit PROVE HInv
  OBVIOUS
<1>1. HandoffTypeOK
  <2>1. 0 \in Version /\ 0 \in 0..MaxLoads /\ 0 \in 0..MaxFaults
    BY HandoffAssumption DEF Version
  <2>2. NoForm \in PageRow
    BY <2>1 DEF NoForm, PageRow
  <2>3. Scanner \in [parts : [1..Parts -> Code \cup {None}], receipts : (SUBSET RecordId) \cup {None}]
    BY DEF Scanner
  <2> QED BY <2>1, <2>2, <2>3 DEF HandoffInit, HandoffTypeOK, NoForm
<1>2. OutForms = {}
  BY DEF HandoffInit, NoForm, Scanner, Outgoing, OutForms
<1>3. OneForm
  <2> DEFINE owner == [i \in RecordId |-> None]
  <2>1. owner \in [RecordId -> Key \cup {None}]
    OBVIOUS
  <2>2. Owned(owner)
    BY <1>2 DEF HandoffInit, NoForm, Owned
  <2> QED BY <2>1, <2>2 DEF OneForm
<1>4. FirstLeft
  BY <1>2 DEF HandoffInit, NoForm, FirstLeft
<1> QED
  BY <1>1, <1>3, <1>4 DEF HandoffInit, NoForm, Scanner, HInv, PageIsOnes, OneTransfer, CodesAreOnes,
     Outgoing, RecordedAsTheirScout, PageIsNewest, ReceiptsHold, FinishedHeld, Counts

-----------------------------------------------------------------------------
(* The tablet's own steps. *)

\* What is saved of the page is a draft.
LEMMA SavedIs ==
  ASSUME HandoffTypeOK
  PROVE  /\ Saved \in [Key -> DraftRow \cup {None}]
         /\ \A k \in Key : page.form # k => Saved[k] = drafts[k]
         /\ \A k \in Key : page.form = k =>
                /\ Saved[k] = Draft(page.tried) /\ Saved[k] # None
                /\ Saved[k].id = page.id /\ Saved[k].v = page.v
<1>1. page.form # None => Draft(page.tried) \in DraftRow
  BY DEF HandoffTypeOK, PageRow, Draft, DraftRow
<1>2. page.form # None => Draft(page.tried) # None
  BY <1>1, HandoffAssumption
<1>3. None \notin Key
  BY HandoffAssumption
<1> QED BY <1>1, <1>2, <1>3 DEF HandoffTypeOK, Saved, Draft

\* A step that leaves the form on the page as it is, or the page, and saves it
\* or not, and shows no new code.
LEMMA PageStep ==
  ASSUME HInv, drafts' \in {drafts, Saved}, page' \in PageRow, page'.code \in {page.code, None},
         \/ page'.form = None
         \/ page'.form = page.form /\ page'.id = page.id /\ page'.v = page.v,
         loads <= loads', loads' \in 0..MaxLoads, faults' \in 0..MaxFaults,
         token' \in User \cup {None}, PageIsOnes',
         UNCHANGED <<observed, scan, edits, finished, left>>
  PROVE  HInv'
<1> USE DEF HInv
<1>1. \A k \in Key : drafts'[k] # None =>
        \/ drafts[k] # None /\ drafts'[k] = drafts[k]
        \/ /\ page.form = k /\ page.form # None
           /\ drafts'[k].id = page.id /\ drafts'[k].v = page.v
  BY SavedIs, HandoffAssumption
<1>2. HandoffTypeOK'
  <2>1. \A k \in Key : drafts'[k] # None => drafts'[k].v <= edits[k]
    BY <1>1 DEF HandoffTypeOK, PageIsNewest
  <2>2. drafts' \in [Key -> DraftRow \cup {None}]
    BY SavedIs DEF HandoffTypeOK
  <2>3. page'.form # None => page'.id \in RecordId
    BY DEF HandoffTypeOK
  <2> QED BY <2>1, <2>2, <2>3 DEF HandoffTypeOK
<1>3. Outgoing' \subseteq Outgoing /\ OutForms' \subseteq OutForms
  BY DEF Outgoing, OutForms
<1>4. OneTransfer' /\ CodesAreOnes' /\ RecordedAsTheirScout' /\ ReceiptsHold'
  BY <1>3 DEF OneTransfer, CodesAreOnes, RecordedAsTheirScout, ReceiptsHold
<1>5. OneForm'
  <2>1. PICK owner \in [RecordId -> Key \cup {None}] : Owned(owner)
    BY DEF OneForm
  <2>2. \A i \in RecordId : i > loads' => i > loads
    BY HandoffAssumption DEF HandoffTypeOK, RecordId
  <2>3. (Owned(owner))'
    BY <1>1, <1>3, <2>1, <2>2 DEF Owned
  <2> QED BY <2>3 DEF OneForm
<1>6. FirstLeft'
  <2>1. \A i \in RecordId : i > loads' => i > loads
    BY HandoffAssumption DEF HandoffTypeOK, RecordId
  <2> QED BY <1>1, <1>3, <2>1 DEF FirstLeft
<1>7. PageIsNewest'
  BY <1>1 DEF PageIsNewest, HandoffTypeOK, PageRow, Version
<1>8. FinishedHeld'
  <2> SUFFICES ASSUME NEW k \in Key, Counts(k), ~OnPi(k)
               PROVE  /\ drafts'[k] # None /\ Carries(k, drafts'[k])
                      /\ page'.form = k => Carries(k, page')
    BY DEF FinishedHeld, Counts, OnPi, Carries
  <2>1. /\ drafts[k] # None /\ Carries(k, drafts[k])
        /\ page.form = k => Carries(k, page)
    BY DEF FinishedHeld
  <2>2. drafts'[k] # None
    BY <2>1, SavedIs
  <2> QED BY <1>1, <2>1, <2>2, HandoffAssumption DEF Carries
<1> QED BY <1>2, <1>4, <1>5, <1>6, <1>7, <1>8

\* A page of the tablet without a form, and what its panel lists.
LEMMA PanelIs ==
  ASSUME NEW all, NEW who
  PROVE  /\ Panel(all, who) \in PageRow /\ Panel(all, who).form = None
         /\ Panel(all, who).asks = None /\ Panel(all, who).code = None
         /\ Panel(all, who).list \subseteq Key
         /\ \A k \in Panel(all, who).list : k[1] = who
<1>1. DraftsOf(all, who) \subseteq Key /\ \A k \in DraftsOf(all, who) : k[1] = who
  BY DEF DraftsOf
<1>2. 0 \in Version /\ 0 \in 0..MaxLoads
  BY HandoffAssumption DEF Version
<1> HIDE DEF DraftsOf
<1> QED BY <1>1, <1>2 DEF Panel, NoForm, PageRow

\* A key is a scout's.
LEMMA KeyIs == ASSUME NEW k \in Key PROVE k[1] \in User /\ k[1] # None /\ k # None
  BY HandoffAssumption DEF Key

LEMMA ShellHolds == ASSUME HInv, Shell PROVE HInv'
<1>1. PICK w \in User \cup {None} : /\ token \in {w, None} /\ page.asks \in {w, None}
                                    /\ page.form # None => page.form[1] = w
  BY DEF HInv, PageIsOnes
<1>2. \A k \in page'.list : k[1] = token /\ k[1] # None
  BY PanelIs, KeyIs DEF Shell
<1>3. PageIsOnes'
  BY <1>1, <1>2, PanelIs DEF Shell, PageIsOnes
<1> QED BY <1>3, PageStep, PanelIs DEF Shell, HInv, HandoffTypeOK

LEMMA TokenComesHolds == ASSUME HInv, TokenComes PROVE HInv'
<1> USE DEF HInv
<1>1. page' \in PageRow /\ page'.code = page.code /\ page'.form = page.form
      /\ page'.id = page.id /\ page'.v = page.v /\ page'.list = page.list /\ page'.asks = None
  BY DEF TokenComes, HandoffTypeOK, PageRow
<1>2. PageIsOnes' /\ token' \in User \cup {None}
  BY <1>1 DEF TokenComes, PageIsOnes
<1> QED BY <1>1, <1>2, PageStep DEF TokenComes, HandoffTypeOK

LEMMA TokenExpiresHolds == ASSUME HInv, TokenExpires PROVE HInv'
<1> USE DEF HInv
<1>1. PageIsOnes'
  BY DEF TokenExpires, PageIsOnes
<1>2. faults' \in 0..MaxFaults
  BY HandoffAssumption DEF TokenExpires, Fault, HandoffTypeOK
<1> QED BY <1>1, <1>2, PageStep DEF TokenExpires, HandoffTypeOK

LEMMA KeepHolds == ASSUME HInv, Keep PROVE HInv'
<1>1. PageIsOnes'
  BY DEF Keep, HInv, PageIsOnes
<1> QED BY <1>1, PageStep DEF Keep, HInv, HandoffTypeOK

LEMMA OpenPanelHolds == ASSUME HInv, OpenPanel PROVE HInv'
<1> USE DEF HInv
<1>1. DraftsOf(Saved, token) \subseteq Key /\ \A k \in DraftsOf(Saved, token) : k[1] = token /\ k[1] # None
  BY KeyIs DEF DraftsOf
<1> HIDE DEF DraftsOf
<1>2. page' \in PageRow /\ page'.code = None /\ page'.form = page.form
      /\ page'.id = page.id /\ page'.v = page.v /\ page'.list = DraftsOf(Saved, token)
      /\ page'.asks = page.asks
  BY <1>1 DEF OpenPanel, HandoffTypeOK, PageRow
<1>3. PageIsOnes'
  BY <1>1, <1>2 DEF OpenPanel, PageIsOnes
<1> QED BY <1>2, <1>3, PageStep DEF OpenPanel, HandoffTypeOK

\* A page from the Pi that shows no form, for it is recorded.
LEMMA ArriveRecorded ==
  ASSUME HInv, NEW u \in User, NEW r \in Watched, Arrive(u, r), Records(<<u, r>>)
  PROVE  HInv'
<1> USE DEF HInv
<1> DEFINE panel == Panel(Saved, OwnToken(u))
<1>1. /\ panel \in PageRow /\ panel.form = None /\ panel.code = None
      /\ \A k \in panel.list : k[1] = OwnToken(u) /\ k[1] # None
  BY PanelIs, KeyIs
<1>2. page' = [panel EXCEPT !.asks = Asks(u)] /\ drafts' = Saved /\ token' = OwnToken(u)
      /\ loads < MaxLoads /\ loads' = loads + 1
      /\ UNCHANGED <<observed, scan, edits, finished, left, faults>>
  BY DEF Arrive
<1>3. Asks(u) \in {u, None} /\ OwnToken(u) \in {u, None}
  BY DEF Asks, OwnToken
<1> HIDE DEF panel
<1>4. page' \in PageRow /\ page'.form = None /\ page'.code = None /\ page'.list = panel.list
      /\ page'.asks = Asks(u)
  BY <1>1, <1>2, <1>3 DEF PageRow
<1>5. PageIsOnes'
  BY <1>1, <1>2, <1>3, <1>4 DEF PageIsOnes
<1>6. loads <= loads' /\ loads' \in 0..MaxLoads /\ token' \in User \cup {None} /\ faults' \in 0..MaxFaults
  BY <1>2, <1>3, HandoffAssumption DEF HandoffTypeOK
<1> QED BY <1>2, <1>4, <1>5, <1>6, PageStep

\* A page with the form, as the server renders it or as its draft has it.
LEMMA ArriveForm ==
  ASSUME HInv, NEW u \in User, NEW r \in Watched, Arrive(u, r), ~Records(<<u, r>>)
  PROVE  HInv'
<1> USE DEF HInv
<1> DEFINE k == <<u, r>>
           panel == Panel(Saved, OwnToken(u))
<1>1. /\ panel \in PageRow /\ panel.code = None /\ panel.v = 0
      /\ \A q \in panel.list : q[1] = OwnToken(u) /\ q[1] # None
  BY PanelIs, KeyIs DEF Panel, NoForm
<1>2. k \in Key /\ k[1] = u /\ k # None
  BY HandoffAssumption DEF Key
<1>3. /\ drafts' = Saved /\ token' = OwnToken(u) /\ loads < MaxLoads /\ loads' = loads + 1
      /\ UNCHANGED <<observed, scan, edits, finished, left, faults>>
  BY DEF Arrive
<1>4. loads + 1 \in RecordId /\ loads' \in 0..MaxLoads /\ 0 \in Version /\ loads \in Nat
  BY <1>3, HandoffAssumption DEF HandoffTypeOK, RecordId, Version
<1>5. Asks(u) \in {u, None} /\ OwnToken(u) \in {u, None}
  BY DEF Asks, OwnToken
<1>6. PICK i \in RecordId, v \in Version :
        /\ page' \in PageRow /\ page'.form = k /\ page'.id = i /\ page'.v = v
        /\ page'.code = None /\ page'.list = panel.list /\ page'.asks = Asks(u)
        /\ \/ i = loads + 1 /\ v = 0 /\ (Saved[k] = None \/ Saved[k].v = 0)
           \/ Saved[k] # None /\ i = Saved[k].id /\ v = Saved[k].v
  <2> DEFINE shown == [panel EXCEPT !.asks = Asks(u)]
             fresh == [shown EXCEPT !.form = k, !.id = loads + 1]
             draft == Saved[k]
  <2>1. shown \in PageRow /\ shown.code = None /\ shown.v = 0 /\ shown.list = panel.list
        /\ shown.asks = Asks(u)
    <3> HIDE DEF panel
    <3> QED BY <1>1, <1>5 DEF PageRow
  <2>2. page' = IF draft = None THEN fresh
                ELSE IF draft.v = 0 THEN [fresh EXCEPT !.tried = draft.tried]
                ELSE [fresh EXCEPT !.id = draft.id, !.v = draft.v, !.tried = draft.tried]
    BY DEF Arrive
  <2>3. draft # None => draft.id \in RecordId /\ draft.v \in Version /\ draft.tried \in BOOLEAN
    BY <1>2, SavedIs DEF DraftRow
  <2> HIDE DEF shown, k, draft, panel
  <2>4. fresh \in PageRow /\ fresh.form = k /\ fresh.id = loads + 1 /\ fresh.v = 0 /\ fresh.code = None
        /\ fresh.list = panel.list /\ fresh.asks = Asks(u)
    <3>1. loads + 1 \in 0..MaxLoads
      BY <1>4, HandoffAssumption DEF RecordId
    <3> HIDE DEF panel
    <3> QED BY <1>2, <1>4, <2>1, <3>1 DEF PageRow
  <2> HIDE DEF fresh
  <2>5. CASE draft = None
    BY <1>4, <2>2, <2>4, <2>5 DEF draft
  <2>6. CASE draft # None /\ draft.v = 0
    <3>1. page' = [fresh EXCEPT !.tried = draft.tried]
      BY <2>2, <2>6
    <3> QED BY <1>4, <2>3, <2>4, <2>6, <3>1 DEF draft, PageRow
  <2>7. CASE draft # None /\ draft.v # 0
    <3>1. page' = [fresh EXCEPT !.id = draft.id, !.v = draft.v, !.tried = draft.tried]
      BY <2>2, <2>7
    <3>2. draft.id \in 0..MaxLoads
      BY <2>3, <2>7, HandoffAssumption DEF RecordId
    <3>3. /\ page' \in PageRow /\ page'.form = k /\ page'.id = draft.id /\ page'.v = draft.v
          /\ page'.code = None /\ page'.list = panel.list /\ page'.asks = Asks(u)
      BY <2>3, <2>4, <2>7, <3>1, <3>2 DEF PageRow
    <3> QED BY <2>3, <2>7, <3>3 DEF draft
  <2> QED BY <2>5, <2>6, <2>7
<1> HIDE DEF panel, k
<1>7. PageIsOnes'
  BY <1>1, <1>2, <1>3, <1>5, <1>6 DEF PageIsOnes
<1>8. \A q \in Key : drafts'[q] # None =>
        \/ drafts[q] # None /\ drafts'[q] = drafts[q]
        \/ page.form = q /\ page.form # None /\ drafts'[q].id = page.id /\ drafts'[q].v = page.v
  BY <1>3, SavedIs, HandoffAssumption
<1>9. \A q \in Key : drafts'[q] # None => drafts'[q].v <= edits[q]
  BY <1>8 DEF HandoffTypeOK, PageIsNewest
<1>10. HandoffTypeOK'
  <2>1. token' \in User \cup {None}
    BY <1>3, <1>5
  <2> QED BY <1>3, <1>4, <1>6, <1>9, <2>1, SavedIs DEF HandoffTypeOK
<1>11. Outgoing' \subseteq Outgoing /\ OutForms' \subseteq OutForms
  BY <1>3, <1>6 DEF Outgoing, OutForms
<1>12. OneTransfer' /\ CodesAreOnes' /\ RecordedAsTheirScout' /\ ReceiptsHold'
  BY <1>3, <1>11 DEF OneTransfer, CodesAreOnes, RecordedAsTheirScout, ReceiptsHold
\* A fresh id is nobody's yet.
<1>13. PICK owner \in [RecordId -> Key \cup {None}] : Owned(owner)
  BY DEF OneForm
<1>14. \A q \in Key : drafts'[q] # None =>
         owner[drafts'[q].id] = q /\ drafts'[q].id \in RecordId /\ drafts'[q].id # loads + 1
  <2>1. owner[loads + 1] = None
    BY <1>4, <1>13 DEF Owned
  <2>2. \A q \in Key : drafts'[q] # None => owner[drafts'[q].id] = q /\ drafts'[q].id \in RecordId
    BY <1>8, <1>13 DEF Owned, HandoffTypeOK, DraftRow
  <2> QED BY <2>1, <2>2, HandoffAssumption
<1>15. \A f \in OutForms : owner[f.id] = f.key /\ f.key \in Key /\ f.id # loads + 1
  <2>1. \A f \in OutForms : f \in FormRow
    BY OutFormsAre
  <2>2. owner[loads + 1] = None
    BY <1>4, <1>13 DEF Owned
  <2> QED BY <1>13, <2>1, <2>2, HandoffAssumption DEF Owned, FormRow
<1>16. OneForm'
  <2>1. PICK o \in [RecordId -> Key \cup {None}] :
               o[i] = k /\ \A j \in RecordId : j # loads + 1 => o[j] = owner[j]
    <3> DEFINE o == IF i = loads + 1 THEN [owner EXCEPT ![i] = k] ELSE owner
    <3>1. o \in [RecordId -> Key \cup {None}] /\ o[i] = k
          /\ \A j \in RecordId : j # loads + 1 => o[j] = owner[j]
      BY <1>2, <1>3, <1>6, <1>14
    <3> HIDE DEF o
    <3> QED BY <3>1
  <2>2. \A j \in RecordId : j > loads + 1 => o[j] = None
    BY <1>4, <1>13, <2>1 DEF Owned, RecordId
  <2>3. \A f \in OutForms' : o[f.id] = f.key
    <3>1. \A f \in OutForms : f.id \in RecordId
      BY OutFormsAre
    <3> QED BY <1>11, <1>15, <2>1, <3>1
  <2>4. (Owned(o))'
    BY <1>3, <1>6, <1>14, <2>1, <2>2, <2>3 DEF Owned
  <2> QED BY <2>1, <2>4 DEF OneForm
<1>17. FirstLeft'
  <2>1. \A j \in RecordId : j > loads' => j > loads
    BY <1>3, <1>4 DEF RecordId
  <2>2. \A q \in Key : drafts'[q] # None /\ left[drafts'[q].id] # None => left[drafts'[q].id] <= drafts'[q].v
    BY <1>8 DEF FirstLeft
  <2>3. left[i] # None => left[i] <= v
    <3>1. CASE i = loads + 1
      BY <1>4, <3>1 DEF FirstLeft
    <3>2. CASE Saved[k] # None /\ i = Saved[k].id /\ v = Saved[k].v
      BY <1>2, <1>3, <2>2, <3>2
    <3> QED BY <1>6, <3>1, <3>2
  <2> QED BY <1>3, <1>6, <1>11, <2>1, <2>2, <2>3 DEF FirstLeft
<1>18. PageIsNewest'
  <2>1. v <= edits[k]
    BY <1>2, <1>3, <1>6, <1>9 DEF HandoffTypeOK, Version
  <2>2. Saved[k] # None /\ Saved[k].id = i => Saved[k].v <= v
    BY <1>2, <1>3, <1>6, <1>14, SavedIs DEF DraftRow, Version
  <2> QED BY <1>3, <1>6, <2>1, <2>2 DEF PageIsNewest
<1>19. FinishedHeld'
  <2> SUFFICES ASSUME NEW q \in Key, Counts(q), ~OnPi(q)
               PROVE  /\ drafts'[q] # None /\ Carries(q, drafts'[q])
                      /\ k = q => Carries(q, page')
    BY <1>3, <1>6 DEF FinishedHeld, Counts, OnPi, Carries
  <2>1. /\ drafts[q] # None /\ Carries(q, drafts[q])
        /\ page.form = q => Carries(q, page)
    BY DEF FinishedHeld
  <2>2. drafts'[q] # None /\ Carries(q, drafts'[q])
    BY <1>3, <2>1, SavedIs DEF Carries
  <2>3. finished[q].v \in Nat
    BY HandoffAssumption DEF HandoffTypeOK, Counts, Version
  <2>4. CASE k = q
    <3>1. Saved[k] # None /\ Carries(k, Saved[k]) /\ Saved[k].v \in Nat
      BY <1>2, <1>3, <2>2, <2>4, SavedIs DEF DraftRow, Version
    <3> QED BY <1>6, <2>2, <2>3, <2>4, <3>1 DEF Carries
  <2> QED BY <2>2, <2>4
<1> QED BY <1>7, <1>10, <1>12, <1>16, <1>17, <1>18, <1>19

LEMMA ArriveHolds ==
  ASSUME HInv, NEW u \in User, NEW r \in Watched, Arrive(u, r)
  PROVE  HInv'
  BY ArriveRecorded, ArriveForm

-----------------------------------------------------------------------------
(* Typing, and discarding a draft. *)

LEMMA TypeHolds == ASSUME HInv, Type PROVE HInv'
<1> USE DEF HInv
<1> DEFINE k == page.form
           n == edits[k] + 1
<1>1. k \in Key /\ edits[k] \in Nat /\ n \in Version /\ k # None
  BY HandoffAssumption DEF Type, HandoffTypeOK, PageRow, Version
<1>2. /\ edits' = [edits EXCEPT ![k] = n] /\ page' = [page EXCEPT !.v = n]
      /\ UNCHANGED <<drafts, token, observed, scan, finished, left, loads, faults>>
  BY DEF Type
<1>3. /\ page' \in PageRow /\ page'.form = k /\ page'.id = page.id /\ page'.v = n
      /\ page'.code = page.code /\ page'.list = page.list /\ page'.asks = page.asks
  BY <1>1, <1>2 DEF HandoffTypeOK, PageRow
<1>4. edits' \in [Key -> Version] /\ edits'[k] = n /\ \A q \in Key : edits[q] <= edits'[q]
  BY <1>1, <1>2 DEF HandoffTypeOK, Version
<1>5. page.v <= n /\ page.v \in Nat /\ n \in Nat
  BY <1>1 DEF HandoffTypeOK, PageRow, Version, PageIsNewest
<1> HIDE DEF n, k
<1>6. HandoffTypeOK'
  <2>1. \A q \in Key : drafts[q] # None => drafts[q].v <= edits'[q]
    BY <1>4 DEF HandoffTypeOK, DraftRow, Version
  <2>2. page'.id \in RecordId
    BY <1>1, <1>3 DEF HandoffTypeOK, k
  <2> QED BY <1>2, <1>3, <1>4, <2>1, <2>2 DEF HandoffTypeOK
<1>7. Outgoing' = Outgoing /\ OutForms' = OutForms
  BY <1>2, <1>3 DEF Outgoing, OutForms
<1>8. /\ PageIsOnes' /\ OneTransfer' /\ CodesAreOnes' /\ RecordedAsTheirScout' /\ ReceiptsHold'
  BY <1>2, <1>3, <1>7 DEF k, PageIsOnes, OneTransfer, CodesAreOnes, RecordedAsTheirScout, ReceiptsHold
<1>9. OneForm'
  BY <1>2, <1>3, <1>7 DEF k, OneForm, Owned
<1>10. FirstLeft'
  <2>1. left[page.id] # None => left[page.id] <= n
    <3>1. left[page.id] # None => left[page.id] \in Nat /\ left[page.id] <= page.v
      BY <1>1 DEF k, FirstLeft, HandoffTypeOK, Version
    <3> QED BY <1>5, <3>1
  <2> QED BY <1>2, <1>3, <1>7, <2>1 DEF FirstLeft
<1>11. PageIsNewest'
  <2>1. drafts[k] # None => drafts[k].v <= n
    BY <1>1, <1>5 DEF HandoffTypeOK, DraftRow, Version, n
  <2>2. n <= edits'[k]
    BY <1>4, <1>5
  <2> QED BY <1>2, <1>3, <2>1, <2>2 DEF PageIsNewest
<1>12. FinishedHeld'
  <2> SUFFICES ASSUME NEW q \in Key, Counts(q), ~OnPi(q)
               PROVE  /\ drafts[q] # None /\ Carries(q, drafts[q])
                      /\ k = q => Carries(q, page')
    BY <1>2, <1>3 DEF FinishedHeld, Counts, OnPi, Carries
  <2>1. /\ drafts[q] # None /\ Carries(q, drafts[q])
        /\ page.form = q => Carries(q, page)
    BY DEF FinishedHeld
  <2>2. finished[q].v \in Nat
    BY DEF Counts, HandoffTypeOK, Version
  <2> QED BY <1>3, <1>5, <2>1, <2>2 DEF Carries, k
<1> QED BY <1>6, <1>8, <1>9, <1>10, <1>11, <1>12

\* A step that lets go of the page's form, of drafts and of codes, and of what
\* was finished: only what is finished and not with the Pi must stay.
LEMMA LetGo ==
  ASSUME HInv, drafts' \in [Key -> DraftRow \cup {None}],
         \A k \in Key : drafts'[k] \in {drafts[k], None},
         page' \in PageRow, page'.form \in {page.form, None},
         page'.id = page.id \/ page'.form = None, page'.v = page.v \/ page'.form = None,
         page'.asks \in {page.asks, None}, page'.code \in {page.code, None},
         \A k \in page'.list : k[1] = token /\ k[1] # None,
         finished' \in [Key -> [id : RecordId, v : Version] \cup {None}],
         \A k \in Key : \/ finished'[k] = None
                        \/ /\ finished'[k] = finished[k]
                           /\ Counts(k) /\ ~OnPi(k) => drafts'[k] = drafts[k],
         UNCHANGED <<token, observed, scan, edits, left, loads, faults>>
  PROVE  HInv'
<1> USE DEF HInv
<1>1. Outgoing' \subseteq Outgoing /\ OutForms' \subseteq OutForms
  BY DEF Outgoing, OutForms
<1>2. HandoffTypeOK'
  BY DEF HandoffTypeOK
<1>3. PageIsOnes'
  BY DEF PageIsOnes
<1>4. OneTransfer' /\ CodesAreOnes' /\ RecordedAsTheirScout' /\ ReceiptsHold'
  BY <1>1 DEF OneTransfer, CodesAreOnes, RecordedAsTheirScout, ReceiptsHold
<1>5. OneForm'
  <2>1. PICK owner \in [RecordId -> Key \cup {None}] : Owned(owner)
    BY DEF OneForm
  <2>2. (Owned(owner))'
    BY <1>1, <2>1 DEF Owned
  <2> QED BY <2>2 DEF OneForm
<1>6. FirstLeft'
  BY <1>1 DEF FirstLeft
<1>7. PageIsNewest'
  BY DEF PageIsNewest, HandoffTypeOK, PageRow
<1>8. FinishedHeld'
  <2> SUFFICES ASSUME NEW k \in Key, (Counts(k))', (~OnPi(k))'
               PROVE  /\ drafts'[k] # None /\ (Carries(k, drafts[k]))'
                      /\ page'.form = k => (Carries(k, page))'
    BY DEF FinishedHeld
  <2>1. finished'[k] = finished[k]
    BY DEF Counts
  <2>2. Counts(k) /\ ~OnPi(k)
    BY <2>1 DEF Counts, OnPi
  <2>3. drafts'[k] = drafts[k] /\ drafts[k] # None /\ Carries(k, drafts[k])
        /\ (page.form = k => Carries(k, page))
    BY <2>2 DEF FinishedHeld, Counts
  <2> QED BY <2>1, <2>3, HandoffAssumption DEF Carries
<1> QED BY <1>2, <1>3, <1>4, <1>5, <1>6, <1>7, <1>8

LEMMA DiscardHolds == ASSUME HInv, Discard PROVE HInv'
<1> USE DEF HInv
<1> DEFINE gone == [drafts EXCEPT ![page.form] = None]
<1>1. page.form \in Key
  BY DEF Discard, HandoffTypeOK, PageRow
<1>2. /\ drafts' = gone /\ page' = Panel(gone, token)
      /\ finished' = [finished EXCEPT ![page.form] = None]
      /\ UNCHANGED <<token, observed, scan, edits, left, loads, faults>>
  BY DEF Discard
<1>3. gone \in [Key -> DraftRow \cup {None}] /\ \A k \in Key : gone[k] \in {drafts[k], None}
  BY DEF HandoffTypeOK
<1>4. /\ page' \in PageRow /\ page'.form = None /\ page'.asks = None /\ page'.code = None
      /\ \A k \in page'.list : k[1] = token /\ k[1] # None
  BY <1>2, PanelIs, KeyIs
<1>5. /\ finished' \in [Key -> [id : RecordId, v : Version] \cup {None}]
      /\ \A k \in Key : \/ finished'[k] = None
                        \/ finished'[k] = finished[k] /\ drafts'[k] = drafts[k]
  BY <1>1, <1>2 DEF HandoffTypeOK
<1> HIDE DEF gone
<1> QED BY <1>2, <1>3, <1>4, <1>5, LetGo

\* The receipt names records the Pi has: a draft that goes is there as it was
\* finished, or had been changed since it first left.
LEMMA ScanReceiptHolds == ASSUME HInv, ScanReceipt PROVE HInv'
<1> USE DEF HInv
<1> DEFINE gone == {k \in DraftsOf(drafts, token) : drafts[k].id \in Settles}
           kept == [k \in Key |-> IF k \in gone THEN None ELSE drafts[k]]
<1>1. /\ drafts' = kept /\ page' = [page EXCEPT !.code = None, !.list = DraftsOf(kept, token)]
      /\ scan.receipts # None
      /\ UNCHANGED <<token, observed, scan, edits, finished, left, loads, faults>>
  BY DEF ScanReceipt
<1>2. \A k \in gone : drafts[k] # None /\ observed[drafts[k].id] # None
  BY <1>1 DEF DraftsOf, Settles, ReceiptsHold
<1>3. DraftsOf(kept, token) \subseteq Key /\ \A k \in DraftsOf(kept, token) : k[1] = token /\ k[1] # None
  BY KeyIs DEF DraftsOf
<1>4. kept \in [Key -> DraftRow \cup {None}] /\ \A k \in Key : kept[k] \in {drafts[k], None}
      /\ (kept[k] # drafts[k] => k \in gone)
  BY DEF HandoffTypeOK
<1>5. ASSUME NEW k \in Key, Counts(k), ~OnPi(k) PROVE k \notin gone
  <2> SUFFICES ASSUME k \in gone PROVE FALSE
    OBVIOUS
  <2> DEFINE i == drafts[k].id
             f == observed[i]
  <2>1. i \in RecordId /\ f # None /\ drafts[k] # None
    BY <1>2 DEF HandoffTypeOK, DraftRow
  <2>2. f \in OutForms /\ f \in FormRow /\ f.id = i
    BY <2>1 DEF HandoffTypeOK, OutForms
  <2>3. f.key = k
    BY <2>1, <2>2 DEF OneForm, Owned
  <2>4. Carries(k, drafts[k])
    BY <1>5 DEF FinishedHeld
  <2>5. finished[k].v <= f.v
    <3>1. CASE finished[k].v = 0
      BY <2>2, <3>1 DEF FormRow, Version
    <3>2. CASE i = finished[k].id
      BY <1>5, <2>2, <3>2 DEF Counts, FirstLeft
    <3> QED BY <2>4, <3>1, <3>2 DEF Carries
  <2> QED BY <1>5, <2>1, <2>3, <2>5 DEF OnPi
<1> HIDE DEF gone, kept
<1>6. /\ page' \in PageRow /\ page'.form = page.form /\ page'.id = page.id /\ page'.v = page.v
      /\ page'.asks = page.asks /\ page'.code = None /\ page'.list = DraftsOf(kept, token)
  BY <1>1, <1>3 DEF HandoffTypeOK, PageRow
<1>7. \A k \in Key : finished'[k] = finished[k] /\ (Counts(k) /\ ~OnPi(k) => drafts'[k] = drafts[k])
  BY <1>1, <1>4, <1>5
<1>8. finished' \in [Key -> [id : RecordId, v : Version] \cup {None}]
  BY <1>1 DEF HandoffTypeOK
<1> QED BY <1>1, <1>3, <1>4, <1>6, <1>7, <1>8, LetGo

-----------------------------------------------------------------------------
(* What leaves the tablet. *)

\* The first version of a record to leave is the only one there is.
LEMMA Leaves ==
  ASSUME HInv, NEW forms \in SUBSET FormRow, SentOut(forms),
         NEW owner \in [RecordId -> Key \cup {None}], Owned(owner),
         \A f \in forms : owner[f.id] = f.key,
         \A f, g \in forms : f.id = g.id => f.v = g.v
  PROVE  /\ left' \in [RecordId -> Version \cup {None}]
         /\ \A i \in RecordId :
              /\ left[i] # None => left'[i] = left[i]
              /\ left'[i] # None => left'[i] = left[i] \/ \E f \in forms : f.id = i /\ left'[i] = f.v
              /\ i > loads => left'[i] = None
         /\ \A f \in forms : left'[f.id] # None /\ (left[f.id] = None => left'[f.id] = f.v)
         /\ \A k \in Key : finished[k] # None /\ left'[finished[k].id] \in {None, finished[k].v}
                => Counts(k)
<1>1. ASSUME NEW i \in RecordId
      PROVE  left'[i] = IF left[i] = None /\ \E f \in forms : f.id = i
                        THEN (CHOOSE f \in forms : f.id = i).v ELSE left[i]
  BY DEF SentOut
<1>2. \A f \in forms : f.id \in RecordId /\ f.v \in Version /\ f.key \in Key
  BY DEF FormRow
<1>3. ASSUME NEW i \in RecordId, NEW f \in forms, f.id = i
      PROVE  (CHOOSE g \in forms : g.id = i).v = f.v
  BY <1>3
<1>4. None \notin Version /\ None \notin Key
  BY HandoffAssumption
<1>5. \A i \in RecordId : left[i] \in Version \cup {None}
  BY DEF HInv, HandoffTypeOK
<1>6. \A i \in RecordId :
        /\ left[i] # None => left'[i] = left[i]
        /\ left'[i] # None => left'[i] = left[i] \/ \E f \in forms : f.id = i /\ left'[i] = f.v
        /\ left'[i] \in Version \cup {None}
  BY <1>1, <1>2, <1>3, <1>5
<1>7. \A f \in forms : left'[f.id] # None /\ (left[f.id] = None => left'[f.id] = f.v)
  BY <1>1, <1>2, <1>3, <1>4
<1>8. left' \in [RecordId -> Version \cup {None}]
  BY <1>6 DEF SentOut
<1>9. ASSUME NEW i \in RecordId, i > loads PROVE left'[i] = None
  <2>1. left[i] = None /\ owner[i] = None
    BY <1>9 DEF HInv, FirstLeft, Owned
  <2>2. ~ \E f \in forms : f.id = i
    BY <1>2, <1>4, <2>1
  <2> QED BY <1>6, <2>1, <2>2
<1>10. ASSUME NEW k \in Key, finished[k] # None, left'[finished[k].id] \in {None, finished[k].v}
       PROVE  Counts(k)
  <2>1. finished[k].id \in RecordId
    BY <1>10 DEF HInv, HandoffTypeOK
  <2> QED BY <1>6, <1>10, <2>1 DEF Counts
<1> QED BY <1>6, <1>7, <1>8, <1>9, <1>10

\* The code shows drafts as they are.
LEMMA ShowCodeHolds == ASSUME HInv, ShowCode PROVE HInv'
<1> USE DEF HInv
<1>1. PICK ticked \in SUBSET page.list \ {{}} :
        /\ \A k \in ticked : drafts[k] # None
        /\ page' = [page EXCEPT !.code = [as |-> token, forms |-> {Form(k, drafts[k]) : k \in ticked}]]
        /\ SentOut({Form(k, drafts[k]) : k \in ticked})
  BY DEF ShowCode
<1> DEFINE forms == {Form(k, drafts[k]) : k \in ticked}
           code == [as |-> token, forms |-> forms]
<1>2. token \in User /\ token # None /\ UNCHANGED <<drafts, token, observed, scan, edits, finished, loads, faults>>
  BY DEF ShowCode, HandoffTypeOK
<1>3. \A k \in ticked : k \in Key /\ k[1] = token /\ drafts[k] \in DraftRow
  BY <1>1, <1>2 DEF PageIsOnes, HandoffTypeOK, PageRow
<1>4. \A k \in ticked : /\ Form(k, drafts[k]) \in FormRow /\ Form(k, drafts[k]).key = k
                        /\ Form(k, drafts[k]).id = drafts[k].id /\ Form(k, drafts[k]).v = drafts[k].v
  BY <1>3 DEF Form, FormRow, DraftRow
<1>5. \A f \in forms : /\ f \in FormRow /\ f.key \in ticked /\ f.id = drafts[f.key].id
                       /\ f.v = drafts[f.key].v /\ drafts[f.key] # None /\ f.key \in Key
                       /\ f.key[1] = token
  BY <1>1, <1>3, <1>4
<1>6. code \in Code /\ code.as = token /\ code.forms = forms
  BY <1>2, <1>5 DEF Code
<1>7. SentOut(forms) /\ page' = [page EXCEPT !.code = code]
  BY <1>1
<1> HIDE DEF forms, code
<1>8. /\ page' \in PageRow /\ page'.form = page.form /\ page'.id = page.id /\ page'.v = page.v
      /\ page'.asks = page.asks /\ page'.list = page.list /\ page'.code = code
  BY <1>6, <1>7 DEF HandoffTypeOK, PageRow
<1>9. /\ \A c \in Outgoing' : c \in Outgoing \/ c = code
      /\ \A f \in OutForms' : f \in OutForms \/ f \in forms
  BY <1>2, <1>6, <1>8 DEF Outgoing, OutForms
<1>10. PICK owner \in [RecordId -> Key \cup {None}] : Owned(owner)
  BY DEF OneForm
<1>11. \A f \in forms : owner[f.id] = f.key
  BY <1>5, <1>10 DEF Owned
<1>12. \A f, g \in forms : f.id = g.id => f.v = g.v
  BY <1>5, <1>11
<1>13. /\ left' \in [RecordId -> Version \cup {None}]
       /\ \A i \in RecordId :
            /\ left[i] # None => left'[i] = left[i]
            /\ left'[i] # None => left'[i] = left[i] \/ \E f \in forms : f.id = i /\ left'[i] = f.v
            /\ i > loads => left'[i] = None
       /\ \A f \in forms : left'[f.id] # None /\ (left[f.id] = None => left'[f.id] = f.v)
       /\ \A k \in Key : finished[k] # None /\ left'[finished[k].id] \in {None, finished[k].v}
              => Counts(k)
  <2>1. forms \in SUBSET FormRow
    BY <1>5
  <2> QED BY <1>7, <1>10, <1>11, <1>12, <2>1, Leaves
<1>14. HandoffTypeOK'
  BY <1>2, <1>8, <1>13 DEF HandoffTypeOK
<1>15. PageIsOnes' /\ OneTransfer' /\ RecordedAsTheirScout' /\ ReceiptsHold' /\ PageIsNewest'
  BY <1>2, <1>8 DEF PageIsOnes, OneTransfer, RecordedAsTheirScout, ReceiptsHold, PageIsNewest
<1>16. CodesAreOnes'
  BY <1>5, <1>6, <1>9 DEF CodesAreOnes
<1>17. OneForm'
  <2>1. (Owned(owner))'
    BY <1>2, <1>8, <1>9, <1>10, <1>11 DEF Owned
  <2> QED BY <2>1 DEF OneForm
<1>18. FirstLeft'
  <2>1. ASSUME NEW f \in OutForms' PROVE left'[f.id] # None /\ left'[f.id] <= f.v
    <3>1. CASE f \in OutForms
      <4>1. f.id \in RecordId /\ left[f.id] # None /\ left[f.id] <= f.v
        BY <3>1, OutFormsAre DEF FirstLeft
      <4> QED BY <1>13, <4>1
    <3>2. CASE f \in forms
      <4>1. f.id \in RecordId /\ f.v \in Nat
        BY <1>5, <3>2 DEF FormRow, Version
      <4>2. left[f.id] # None => left[f.id] <= f.v
        BY <1>5, <3>2 DEF FirstLeft
      <4> QED BY <1>13, <3>2, <4>1, <4>2
    <3> QED BY <1>9, <3>1, <3>2
  <2>2. ASSUME NEW k \in Key, drafts[k] # None, left'[drafts[k].id] # None
        PROVE  left'[drafts[k].id] <= drafts[k].v
    <3>1. drafts[k].id \in RecordId /\ drafts[k].v \in Nat /\ owner[drafts[k].id] = k
      BY <1>10, <2>2 DEF HandoffTypeOK, DraftRow, Version, Owned
    <3>2. CASE left'[drafts[k].id] = left[drafts[k].id]
      BY <2>2, <3>2 DEF FirstLeft
    <3>3. ASSUME NEW f \in forms, f.id = drafts[k].id, left'[drafts[k].id] = f.v
          PROVE  left'[drafts[k].id] <= drafts[k].v
      BY <1>5, <1>11, <3>1, <3>3
    <3> QED BY <1>13, <2>2, <3>1, <3>2, <3>3
  <2>3. ASSUME page.form # None, left'[page.id] # None
        PROVE  left'[page.id] <= page.v
    <3>1. page.id \in RecordId /\ owner[page.id] = page.form
      BY <1>10, <2>3 DEF HandoffTypeOK, Owned
    <3>2. CASE left'[page.id] = left[page.id]
      BY <2>3, <3>2 DEF FirstLeft
    <3>3. ASSUME NEW f \in forms, f.id = page.id, left'[page.id] = f.v
          PROVE  left'[page.id] <= page.v
      BY <1>5, <1>11, <2>3, <3>1, <3>3 DEF PageIsNewest
    <3> QED BY <1>13, <2>3, <3>1, <3>2, <3>3
  <2> QED BY <1>2, <1>8, <1>13, <2>1, <2>2, <2>3 DEF FirstLeft
<1>19. FinishedHeld'
  BY <1>2, <1>8, <1>13 DEF FinishedHeld, Counts, OnPi, Carries
<1> QED BY <1>14, <1>15, <1>16, <1>17, <1>18, <1>19

-----------------------------------------------------------------------------
(* Recording on the Pi. *)

\* A version of a form recorded, or found recorded, or refused.
LEMMA RecordedIs ==
  ASSUME HandoffTypeOK, NEW f \in FormRow, NEW as \in User
  PROVE  /\ observed[f.id] # None => /\ Recorded(f, as) = observed[f.id]
                                     /\ RecordForm(f, as) = observed[f.id]
         /\ \A x \in {Recorded(f, as), RecordForm(f, as)} : observed[f.id] = None /\ x # None =>
                /\ x \in FormRow /\ x.id = f.id /\ x.key = f.key /\ x.v = f.v /\ x.as = as
         /\ RecordForm(f, as) # None
<1> DEFINE new(kept) == [f EXCEPT !.as = as, !.kept = kept]
<1>1. \A kept \in {"recorded", "refused"} :
        /\ new(kept) \in FormRow /\ new(kept).id = f.id /\ new(kept).key = f.key
        /\ new(kept).v = f.v /\ new(kept).as = as
  BY DEF FormRow
<1>2. \A kept \in {"recorded", "refused"} : new(kept) # None
  BY <1>1, HandoffAssumption
<1>3. \/ Recorded(f, as) = new("recorded") /\ observed[f.id] = None
      \/ Recorded(f, as) = observed[f.id]
  BY DEF Recorded
<1>4. RecordForm(f, as) = IF Recorded(f, as) = None THEN new("refused") ELSE Recorded(f, as)
  BY DEF RecordForm
<1>5. observed[f.id] # None => Recorded(f, as) = observed[f.id]
  BY DEF Recorded
<1> HIDE DEF new
<1> QED BY <1>1, <1>2, <1>3, <1>4, <1>5

\* The Pi comes to hold forms whose versions are about already, and keeps what
\* it has: what is known of owners, first versions and receipts stays.
LEMMA PiHolds ==
  ASSUME HInv, NEW k \in Key, OnPi(k), observed' \in [RecordId -> FormRow \cup {None}],
         \A i \in RecordId : observed[i] # None => observed'[i] = observed[i],
         finished'[k] = finished[k]
  PROVE  (OnPi(k))'
  BY DEF OnPi

\* Save is pressed: d is what becomes of the draft.
LEMMA SubmitStep ==
  ASSUME HInv, page.form \in Key, NEW d \in DraftRow \cup {None},
         drafts' = [drafts EXCEPT ![page.form] = d],
         d # None => d.id = page.id /\ d.v = page.v,
         \/ UNCHANGED <<observed, left>> /\ d # None
         \/ /\ observed' = [observed EXCEPT ![page.id] = Recorded(Form(page.form, page), page.form[1])]
            /\ SentOut({Form(page.form, page)})
            /\ d = None => Recorded(Form(page.form, page), page.form[1]) # None,
         page' \in PageRow, page'.form \in {page.form, None},
         page'.form # None => page'.id = page.id /\ page'.v = page.v,
         page'.code \in {page.code, None}, PageIsOnes', faults' \in 0..MaxFaults,
         finished' = [finished EXCEPT ![page.form] = [id |-> page.id, v |-> page.v]],
         UNCHANGED <<token, scan, edits, loads>>
  PROVE  HInv'
<1> USE DEF HInv
<1> DEFINE k == page.form
           form == Form(k, page)
           i == page.id
<1>1. /\ k \in Key /\ k[1] \in User /\ k # None /\ i \in RecordId
      /\ page.v \in Version /\ page.v \in Nat /\ page.v <= edits[k]
  BY KeyIs DEF HandoffTypeOK, PageRow, Version, PageIsNewest
<1>2. form \in FormRow /\ form.key = k /\ form.id = i /\ form.v = page.v
  BY <1>1 DEF Form, FormRow
<1>3. PICK owner \in [RecordId -> Key \cup {None}] : Owned(owner)
  BY DEF OneForm
<1>4. owner[i] = k
  BY <1>1, <1>3 DEF Owned
<1>5. /\ drafts'[k] = d /\ \A q \in Key \ {k} : drafts'[q] = drafts[q]
      /\ finished'[k] = [id |-> i, v |-> page.v] /\ \A q \in Key \ {k} : finished'[q] = finished[q]
      /\ finished'[k].id = i /\ finished'[k].v = page.v
  BY <1>1 DEF HandoffTypeOK
<1>6. /\ observed' \in [RecordId -> FormRow \cup {None}]
      /\ \A j \in RecordId : observed[j] # None => observed'[j] = observed[j]
      /\ \A j \in RecordId : observed'[j] # None => \/ observed'[j] = observed[j]
            \/ /\ j = i /\ observed'[j].id = i /\ observed'[j].key = k /\ observed'[j].v = page.v
               /\ observed'[j].as = k[1] /\ left'[i] # None
      /\ d = None => observed'[i] # None
  <2>1. CASE UNCHANGED <<observed, left>> /\ d # None
    BY <2>1 DEF HandoffTypeOK
  <2>2. CASE /\ observed' = [observed EXCEPT ![page.id] = Recorded(form, k[1])]
             /\ SentOut({form})
             /\ d = None => Recorded(form, k[1]) # None
    <3> DEFINE x == Recorded(form, k[1])
    <3>1. /\ observed[i] # None => x = observed[i]
          /\ observed[i] = None /\ x # None => x \in FormRow /\ x.id = i /\ x.key = k
                                               /\ x.v = page.v /\ x.as = k[1]
      BY <1>1, <1>2, RecordedIs
    <3>2. left'[i] # None
      <4>1. {form} \in SUBSET FormRow
        BY <1>2
      <4>2. SentOut({form})
        BY <2>2
      <4>3. \A f \in {form} : owner[f.id] = f.key
        BY <1>2, <1>4
      <4>4. \A f \in {form} : left'[f.id] # None
        <5> HIDE DEF form
        <5> QED BY <1>3, <4>1, <4>2, <4>3, Leaves
      <4> QED BY <1>2, <4>4
    <3> HIDE DEF x
    <3>3. observed'[i] = x /\ \A j \in RecordId \ {i} : observed'[j] = observed[j]
      BY <1>1, <2>2 DEF HandoffTypeOK, x
    <3>4. observed' \in [RecordId -> FormRow \cup {None}]
      BY <1>1, <2>2, <3>1 DEF HandoffTypeOK, x
    <3> QED BY <2>2, <3>1, <3>2, <3>3, <3>4 DEF x
  <2> QED BY <2>1, <2>2
<1>7. /\ left' \in [RecordId -> Version \cup {None}]
      /\ \A j \in RecordId : left[j] # None => left'[j] = left[j]
      /\ \A j \in RecordId : left'[j] # None => left'[j] = left[j] \/ (j = i /\ left'[j] = page.v)
      /\ \A j \in RecordId : j > loads => left'[j] = None
      /\ \A q \in Key : finished[q] # None /\ left'[finished[q].id] \in {None, finished[q].v}
            => Counts(q)
  <2>1. CASE UNCHANGED left
    BY <2>1 DEF HandoffTypeOK, FirstLeft, Counts
  <2>2. CASE SentOut({form})
    <3>1. {form} \in SUBSET FormRow /\ \A f \in {form} : owner[f.id] = f.key
      BY <1>2, <1>4
    <3>2. /\ left' \in [RecordId -> Version \cup {None}]
          /\ \A j \in RecordId :
               /\ left[j] # None => left'[j] = left[j]
               /\ left'[j] # None => left'[j] = left[j] \/ \E f \in {form} : f.id = j /\ left'[j] = f.v
               /\ j > loads => left'[j] = None
          /\ \A q \in Key : finished[q] # None /\ left'[finished[q].id] \in {None, finished[q].v}
                => Counts(q)
      <4> HIDE DEF form
      <4> QED BY <1>3, <2>2, <3>1, Leaves
    <3> QED BY <1>2, <3>2
  <2> QED BY <2>1, <2>2
<1>8. Outgoing' \subseteq Outgoing
  BY DEF Outgoing
<1>9. \A f \in OutForms' : \/ f \in OutForms
                           \/ f.id = i /\ f.key = k /\ f.v = page.v /\ left'[i] # None
  BY <1>6, <1>8 DEF OutForms
\* What of the page's record is about is no older than its first version.
<1>10. left'[i] # None => left'[i] <= page.v
  <2>1. left[i] # None => left[i] <= page.v
    BY <1>1 DEF FirstLeft
  <2> QED BY <1>1, <1>7, <2>1
<1> HIDE DEF form, k, i
<1>11. HandoffTypeOK'
  <2>1. drafts' \in [Key -> DraftRow \cup {None}] /\ finished' \in [Key -> [id : RecordId, v : Version] \cup {None}]
    BY <1>1 DEF HandoffTypeOK, k, i
  <2>2. \A q \in Key : drafts'[q] # None => drafts'[q].v <= edits[q]
    BY <1>1, <1>5 DEF HandoffTypeOK, k
  <2>3. \A j \in RecordId : observed'[j] # None => observed'[j].id = j /\ observed'[j].as \in User
    BY <1>1, <1>6 DEF HandoffTypeOK
  <2>4. page'.form # None => page'.id \in RecordId
    BY <1>1 DEF i
  <2> QED BY <1>6, <1>7, <2>1, <2>2, <2>3, <2>4 DEF HandoffTypeOK
<1>12. OneTransfer' /\ CodesAreOnes'
  BY <1>8 DEF OneTransfer, CodesAreOnes
<1>13. RecordedAsTheirScout'
  BY <1>6 DEF RecordedAsTheirScout
<1>14. OneForm'
  <2>1. (Owned(owner))'
    BY <1>3, <1>4, <1>5, <1>9 DEF Owned, i, k
  <2> QED BY <2>1 DEF OneForm
<1>15. FirstLeft'
  <2>1. ASSUME NEW f \in OutForms' PROVE left'[f.id] # None /\ left'[f.id] <= f.v
    <3>1. CASE f \in OutForms
      <4>1. f.id \in RecordId /\ left[f.id] # None /\ left[f.id] <= f.v
        BY <3>1, OutFormsAre DEF FirstLeft
      <4> QED BY <1>7, <4>1
    <3>2. CASE f.id = i /\ f.key = k /\ f.v = page.v /\ left'[i] # None
      BY <1>10, <3>2
    <3> QED BY <1>9, <3>1, <3>2
  <2>2. ASSUME NEW q \in Key, drafts'[q] # None, left'[drafts'[q].id] # None
        PROVE  left'[drafts'[q].id] <= drafts'[q].v
    <3>1. CASE q = k
      BY <1>5, <1>10, <2>2, <3>1 DEF i
    <3>2. CASE q # k
      <4>1. drafts'[q] = drafts[q] /\ drafts[q].id \in RecordId
        BY <1>5, <2>2, <3>2 DEF HandoffTypeOK, DraftRow
      <4>2. drafts[q].id # i
        BY <1>3, <1>4, <2>2, <3>2, <4>1 DEF Owned
      <4> QED BY <1>7, <2>2, <4>1, <4>2 DEF FirstLeft
    <3> QED BY <3>1, <3>2
  <2>3. page'.form # None /\ left'[page'.id] # None => left'[page'.id] <= page'.v
    BY <1>10 DEF i
  <2> QED BY <1>7, <2>1, <2>2, <2>3 DEF FirstLeft
<1>16. PageIsNewest'
  BY <1>1, <1>5 DEF PageIsNewest, k
<1>17. ReceiptsHold'
  <2>1. scan.receipts # None => \A j \in scan.receipts : j \in RecordId
    BY DEF HandoffTypeOK
  <2> QED BY <1>6, <2>1 DEF ReceiptsHold
<1>18. FinishedHeld'
  <2> SUFFICES ASSUME NEW q \in Key, (Counts(q))', (~OnPi(q))'
               PROVE  /\ drafts'[q] # None /\ (Carries(q, drafts[q]))'
                      /\ page'.form = q => (Carries(q, page))'
    BY DEF FinishedHeld
  <2>1. CASE q # k
    <3>1. Counts(q) /\ ~OnPi(q)
      BY <1>5, <1>6, <1>7, <2>1, PiHolds DEF Counts
    <3>2. drafts[q] # None /\ Carries(q, drafts[q])
      BY <3>1 DEF FinishedHeld
    <3>3. drafts'[q] = drafts[q] /\ finished'[q] = finished[q] /\ page'.form # q
      BY <1>5, <2>1, HandoffAssumption DEF k
    <3> QED BY <3>2, <3>3 DEF Carries
  <2>2. CASE q = k
    <3>1. d # None
      <4> SUFFICES ASSUME d = None PROVE FALSE
        OBVIOUS
      <4>1. observed'[i] # None /\ observed'[i] \in FormRow /\ observed'[i].id = i
        BY <1>1, <1>6 DEF HandoffTypeOK
      <4>2. observed'[i] \in OutForms'
        BY <1>1, <4>1 DEF OutForms
      <4>3. observed'[i].key = k /\ left'[i] # None /\ left'[i] <= observed'[i].v
        BY <1>14, <1>15, <4>1, <4>2, <1>3, <1>4, <1>9 DEF FirstLeft, Owned
      <4>4. left'[i] = page.v
        BY <1>5, <2>2, <4>3 DEF Counts
      <4> QED BY <1>1, <1>5, <2>2, <4>1, <4>3, <4>4 DEF OnPi
    <3> QED BY <1>1, <1>5, <2>2, <3>1, HandoffAssumption DEF Carries, i, k
  <2> QED BY <2>1, <2>2
<1> QED BY <1>11, <1>12, <1>13, <1>14, <1>15, <1>16, <1>17, <1>18

LEMMA SubmitHolds == ASSUME HInv, Submit PROVE HInv'
<1> USE DEF HInv
<1> DEFINE k == page.form
           form == Form(k, page)
           kept == [drafts EXCEPT ![k] = Draft(TRUE)]
           stored == [observed EXCEPT ![form.id] = Recorded(form, k[1])]
           cleared == IF IsRecorded(Recorded(form, k[1])) THEN [kept EXCEPT ![k] = None] ELSE kept
<1>1. k \in Key /\ k # None /\ page.id \in RecordId /\ page.v \in Version
  BY DEF Submit, HandoffTypeOK, PageRow
<1>2. finished' = [finished EXCEPT ![k] = [id |-> page.id, v |-> page.v]]
      /\ UNCHANGED <<token, scan, edits, loads>>
  BY DEF Submit
<1>3. \A tried \in BOOLEAN : /\ Draft(tried) \in DraftRow /\ Draft(tried) # None
                             /\ Draft(tried).id = page.id /\ Draft(tried).v = page.v
  <2>1. \A tried \in BOOLEAN : /\ Draft(tried) \in DraftRow
                               /\ Draft(tried).id = page.id /\ Draft(tried).v = page.v
    BY <1>1 DEF Draft, DraftRow
  <2> QED BY <2>1, HandoffAssumption
<1>4. form.id = page.id
  BY DEF Form
\* The page stays, tried or not.
<1>5. ASSUME NEW tried \in BOOLEAN, page' = [page EXCEPT !.tried = tried],
             drafts' = [drafts EXCEPT ![k] = Draft(tried)] \/ drafts' = kept, Fault,
             \/ UNCHANGED <<observed, left>>
             \/ observed' = stored /\ SentOut({form})
      PROVE  HInv'
  <2>1. /\ page' \in PageRow /\ page'.form = page.form /\ page'.id = page.id /\ page'.v = page.v
        /\ page'.code = page.code /\ page'.list = page.list /\ page'.asks = page.asks
    BY <1>5 DEF HandoffTypeOK, PageRow
  <2>2. PageIsOnes' /\ faults' \in 0..MaxFaults
    BY <1>2, <1>5, <2>1, HandoffAssumption DEF PageIsOnes, Fault, HandoffTypeOK
  <2>3. PICK d \in DraftRow : d # None /\ d.id = page.id /\ d.v = page.v
                              /\ drafts' = [drafts EXCEPT ![k] = d]
    BY <1>3, <1>5
  <2>4. \/ UNCHANGED <<observed, left>>
        \/ /\ observed' = [observed EXCEPT ![page.id] = Recorded(form, k[1])]
           /\ SentOut({form})
    BY <1>4, <1>5
  <2> QED BY <1>1, <1>2, <2>1, <2>2, <2>3, <2>4, SubmitStep
\* The page goes.
<1>6. ASSUME observed' = stored, SentOut({form}), drafts' = cleared,
             page' = [Panel(cleared, token) EXCEPT !.asks = Asks(k[1])], UNCHANGED faults
      PROVE  HInv'
  <2> DEFINE panel == Panel(cleared, token)
  <2>1. /\ panel \in PageRow /\ panel.form = None /\ panel.code = None
        /\ \A q \in panel.list : q[1] = token /\ q[1] # None
    BY PanelIs, KeyIs
  <2>2. Asks(k[1]) \in {k[1], None} /\ k[1] \in User
    BY <1>1, KeyIs DEF Asks
  <2>3. page' = [panel EXCEPT !.asks = Asks(k[1])]
    BY <1>6
  <2> HIDE DEF panel
  <2>4. /\ page' \in PageRow /\ page'.form = None /\ page'.code = None
        /\ page'.list = panel.list /\ page'.asks = Asks(k[1])
    BY <2>1, <2>2, <2>3 DEF PageRow
  <2>5. PageIsOnes'
    BY <1>1, <1>2, <2>1, <2>2, <2>4 DEF PageIsOnes
  <2>6. PICK d \in DraftRow \cup {None} : /\ d # None => d.id = page.id /\ d.v = page.v
                                          /\ d = None => Recorded(form, k[1]) # None
                                          /\ drafts' = [drafts EXCEPT ![k] = d]
    <3>1. CASE ~IsRecorded(Recorded(form, k[1]))
      BY <1>3, <1>6, <3>1
    <3>2. CASE IsRecorded(Recorded(form, k[1]))
      <4>1. drafts' = [drafts EXCEPT ![k] = None]
        BY <1>6, <3>2 DEF HandoffTypeOK
      <4> QED BY <3>2, <4>1 DEF IsRecorded
    <3> QED BY <3>1, <3>2
  <2>7. /\ observed' = [observed EXCEPT ![page.id] = Recorded(form, k[1])]
        /\ SentOut({form})
    BY <1>4, <1>6
  <2>8. faults' \in 0..MaxFaults
    BY <1>6 DEF HandoffTypeOK
  <2> QED BY <1>1, <1>2, <2>4, <2>5, <2>6, <2>7, <2>8, SubmitStep
<1>7. \/ /\ Fault
         /\ drafts' = kept /\ page' = [page EXCEPT !.tried = TRUE]
         /\ \/ UNCHANGED <<observed, left>>
            \/ observed' = stored /\ SentOut({form})
      \/ /\ Fault
         /\ drafts' = [kept EXCEPT ![k] = Draft(FALSE)]
         /\ page' = [page EXCEPT !.tried = FALSE]
         /\ UNCHANGED <<observed, left>>
      \/ /\ observed' = stored /\ SentOut({form})
         /\ drafts' = cleared /\ page' = [Panel(cleared, token) EXCEPT !.asks = Asks(k[1])]
         /\ UNCHANGED faults
  BY DEF Submit
<1>8. [kept EXCEPT ![k] = Draft(FALSE)] = [drafts EXCEPT ![k] = Draft(FALSE)]
  BY DEF HandoffTypeOK
<1> HIDE DEF k, form, kept, stored, cleared
<1> QED BY <1>5, <1>6, <1>7, <1>8

-----------------------------------------------------------------------------
(* The lead's page. *)

\* A step of the lead's page alone, which then holds no other codes.
LEMMA LeadStep ==
  ASSUME HInv, UNCHANGED <<drafts, token, page, observed, edits, finished, left, loads, faults>>,
         scan' \in [parts : [1..Parts -> Code \cup {None}], receipts : (SUBSET RecordId) \cup {None}],
         scan'.receipts \in {scan.receipts, None}, Outgoing' \subseteq Outgoing, OneTransfer'
  PROVE  HInv'
<1> USE DEF HInv
<1>1. OutForms' \subseteq OutForms
  BY DEF OutForms
<1>2. HandoffTypeOK' /\ PageIsOnes' /\ CodesAreOnes' /\ RecordedAsTheirScout' /\ ReceiptsHold'
  BY DEF HandoffTypeOK, PageIsOnes, CodesAreOnes, RecordedAsTheirScout, ReceiptsHold
<1>3. OneForm'
  BY <1>1 DEF OneForm, Owned
<1>4. FirstLeft'
  BY <1>1 DEF FirstLeft
<1>5. PageIsNewest' /\ FinishedHeld'
  BY DEF PageIsNewest, FinishedHeld, Counts, OnPi, Carries
<1> QED BY <1>2, <1>3, <1>4, <1>5

LEMMA LookHolds == ASSUME HInv, NEW i \in 1..Parts, Look(i) PROVE HInv'
<1> USE DEF HInv
<1> DEFINE code == page.code
           begun == \E j \in 1..Parts : scan.parts[j] = code
           parts == [j \in 1..Parts |-> IF j = i THEN code ELSE IF begun THEN scan.parts[j] ELSE None]
<1>1. code # None /\ code \in Code /\ code \in Outgoing
  BY DEF Look, HandoffTypeOK, PageRow, Outgoing
<1>2. scan' = [scan EXCEPT !.parts = parts]
  BY DEF Look, Take
<1>3. /\ parts \in [1..Parts -> Code \cup {None}]
      /\ \A j \in 1..Parts : parts[j] \in {code, None} \/ (begun /\ parts[j] = scan.parts[j])
  BY <1>1 DEF HandoffTypeOK
<1>4. \A j \in 1..Parts : parts[j] \in {code, None}
  BY <1>1, <1>3 DEF OneTransfer
<1> HIDE DEF parts, code, begun
<1>5. /\ scan' \in [parts : [1..Parts -> Code \cup {None}], receipts : (SUBSET RecordId) \cup {None}]
      /\ scan'.receipts = scan.receipts /\ scan'.parts = parts
  BY <1>2, <1>3 DEF HandoffTypeOK
<1>6. OneTransfer'
  BY <1>4, <1>5 DEF OneTransfer
<1>7. Outgoing' \subseteq Outgoing
  <2>1. page' = page
    BY DEF Look
  <2> QED BY <1>1, <1>4, <1>5, <2>1 DEF Outgoing, code
<1> QED BY <1>5, <1>6, <1>7, LeadStep DEF Look

LEMMA NextTabletHolds == ASSUME HInv, NextTablet PROVE HInv'
<1>1. /\ Scanner \in [parts : [1..Parts -> Code \cup {None}], receipts : (SUBSET RecordId) \cup {None}]
      /\ Scanner.receipts = None /\ \A j \in 1..Parts : Scanner.parts[j] = None
  BY DEF Scanner
<1>2. scan' = Scanner /\ page' = page
  BY DEF NextTablet
<1>3. OneTransfer' /\ Outgoing' \subseteq Outgoing
  BY <1>1, <1>2 DEF OneTransfer, Outgoing
<1> QED BY <1>1, <1>2, <1>3, LeadStep DEF NextTablet

\* The Pi has the forms of a code as their scout's, or as it had them.
LEMMA ReceiveHolds == ASSUME HInv, Receive PROVE HInv'
<1> USE DEF HInv
<1> DEFINE as == scan.parts[1].as
           forms == scan.parts[Parts].forms
<1>1. PICK some \in SUBSET forms :
        /\ observed' = [i \in RecordId |->
                IF \E f \in some : f.id = i
                THEN RecordForm(CHOOSE f \in some : f.id = i, as) ELSE observed[i]]
        /\ \/ some = forms /\ UNCHANGED faults /\ scan' = [Scanner EXCEPT !.receipts = {f.id : f \in forms}]
           \/ Fault /\ scan' = Scanner
  BY DEF Receive
<1>2. UNCHANGED <<drafts, token, page, edits, finished, left, loads>>
  BY DEF Receive
<1>3. /\ 1 \in 1..Parts /\ Parts \in 1..Parts /\ scan.parts[1] # None
      /\ scan.parts[Parts] # None /\ scan.parts[1] = scan.parts[Parts]
  BY HandoffAssumption DEF Receive, OneTransfer
<1>4. as \in User /\ \A f \in forms : f \in OutForms /\ f \in FormRow /\ f.key[1] = as
  <2>1. scan.parts[Parts] \in Outgoing /\ scan.parts[Parts] \in Code
    BY <1>3 DEF Outgoing, HandoffTypeOK
  <2> QED BY <1>3, <2>1 DEF Code, OutForms, CodesAreOnes
<1>5. \A f \in forms : /\ f.id \in RecordId /\ f.key \in Key /\ f.v \in Version
                       /\ left[f.id] # None /\ left[f.id] <= f.v
  BY <1>4 DEF FormRow, FirstLeft
<1> HIDE DEF as, forms
\* Each record is as it was, or a version in the code.
<1>6. ASSUME NEW i \in RecordId
      PROVE  \/ observed'[i] = observed[i] /\ (observed[i] = None => ~ \E f \in some : f.id = i)
             \/ /\ observed[i] = None /\ observed'[i] \in FormRow /\ observed'[i] # None
                /\ observed'[i].as = as
                /\ \E f \in forms : /\ f.id = i /\ observed'[i].id = f.id
                                    /\ observed'[i].key = f.key /\ observed'[i].v = f.v
  <2>1. CASE \E f \in some : f.id = i
    <3> DEFINE g == CHOOSE f \in some : f.id = i
    <3>1. g \in some /\ g.id = i
      BY <2>1
    <3>2. observed'[i] = RecordForm(g, as)
      BY <1>1, <2>1
    <3> HIDE DEF g
    <3>3. g \in forms /\ g \in FormRow
      BY <1>4, <3>1
    <3>4. /\ observed[g.id] # None => RecordForm(g, as) = observed[g.id]
          /\ observed[g.id] = None =>
                /\ RecordForm(g, as) \in FormRow /\ RecordForm(g, as) # None
                /\ RecordForm(g, as).id = g.id /\ RecordForm(g, as).key = g.key
                /\ RecordForm(g, as).v = g.v /\ RecordForm(g, as).as = as
      BY <1>4, <3>3, RecordedIs
    <3>5. CASE observed[i] = None
      BY Zenon, <3>1, <3>2, <3>3, <3>4, <3>5
    <3>6. CASE observed[i] # None
      BY Zenon, <3>1, <3>2, <3>4, <3>6
    <3> QED BY <3>5, <3>6
  <2>2. CASE ~ \E f \in some : f.id = i
    BY <1>1, <2>2
  <2> QED BY <2>1, <2>2
<1>7. observed' \in [RecordId -> FormRow \cup {None}]
  <2>1. observed \in [RecordId -> FormRow \cup {None}]
    BY Zenon DEF HandoffTypeOK
  <2>2. \A i \in RecordId : observed'[i] \in FormRow \cup {None}
    <3> TAKE i \in RecordId
    <3>1. observed[i] \in FormRow \cup {None}
      BY Zenon, <2>1
    <3>2. observed'[i] = observed[i] \/ observed'[i] \in FormRow
      BY Zenon, <1>6
    <3> QED BY Zenon, <3>1, <3>2
  <2> QED BY <1>1, <2>2
<1>8. /\ scan' \in [parts : [1..Parts -> Code \cup {None}], receipts : (SUBSET RecordId) \cup {None}]
      /\ \A j \in 1..Parts : scan'.parts[j] = None
      /\ scan'.receipts = None \/ (some = forms /\ scan'.receipts = {f.id : f \in forms})
  <2> DEFINE empty == [j \in 1..Parts |-> None]
             ids == {f.id : f \in forms}
  <2>1. ids \in (SUBSET RecordId) \cup {None}
    BY <1>5
  <2>2. empty \in [1..Parts -> Code \cup {None}] /\ \A j \in 1..Parts : empty[j] = None
    OBVIOUS
  <2>3. \/ scan' = [parts |-> empty, receipts |-> ids] /\ some = forms
        \/ scan' = [parts |-> empty, receipts |-> None]
    BY <1>1 DEF Scanner
  <2> HIDE DEF empty
  <2>4. CASE scan' = [parts |-> empty, receipts |-> ids] /\ some = forms
    BY <2>1, <2>2, <2>4
  <2>5. CASE scan' = [parts |-> empty, receipts |-> None]
    BY <2>2, <2>5
  <2> QED BY <2>3, <2>4, <2>5
<1>9. Outgoing' \subseteq Outgoing
  BY <1>2, <1>8 DEF Outgoing
<1>10. \A f \in OutForms' : \/ f \in OutForms
                            \/ \E g \in forms : f.id = g.id /\ f.key = g.key /\ f.v = g.v
  <2>1. \A i \in RecordId : observed'[i] # None =>
          \/ observed'[i] = observed[i]
          \/ \E g \in forms : /\ observed'[i].id = g.id /\ observed'[i].key = g.key
                              /\ observed'[i].v = g.v
    BY <1>6
  <2> QED BY <1>9, <2>1 DEF OutForms
\* A record is an old one, or a form of the code under its scout.
<1>20. ASSUME NEW i \in RecordId, observed'[i] # None
       PROVE  \/ observed[i] # None /\ observed'[i] = observed[i]
              \/ observed'[i].id = i /\ observed'[i].as = as /\ observed'[i].key[1] = as
  <2>1. CASE observed'[i] = observed[i]
    BY <1>20, <2>1
  <2>2. CASE observed'[i] # observed[i]
    <3>1. PICK f \in forms : f.id = i /\ observed'[i].id = f.id /\ observed'[i].key = f.key
      BY <1>6, <2>2
    <3>2. observed'[i].as = as
      BY <1>6, <2>2
    <3>3. f.key[1] = as
      BY <1>4
    <3> QED BY <3>1, <3>2, <3>3
  <2> QED BY <2>1, <2>2
<1>11. HandoffTypeOK'
  <2>1. faults' \in 0..MaxFaults
    BY <1>1, HandoffAssumption DEF HandoffTypeOK, Fault
  <2>2. \A i \in RecordId : observed'[i] # None => observed'[i].id = i /\ observed'[i].as \in User
    BY <1>4, <1>20 DEF HandoffTypeOK
  <2> QED BY <1>2, <1>7, <1>8, <2>1, <2>2 DEF HandoffTypeOK
<1>12. PageIsOnes' /\ PageIsNewest'
  BY <1>2 DEF PageIsOnes, PageIsNewest
<1>13. OneTransfer' /\ CodesAreOnes'
  BY <1>8, <1>9 DEF OneTransfer, CodesAreOnes
<1>14. RecordedAsTheirScout'
  <2> SUFFICES ASSUME NEW i \in RecordId, observed'[i] # None
               PROVE  observed'[i].as = observed'[i].key[1]
    BY DEF RecordedAsTheirScout
  <2> QED BY <1>20 DEF RecordedAsTheirScout
<1>15. OneForm'
  <2>1. PICK owner \in [RecordId -> Key \cup {None}] : Owned(owner)
    BY DEF OneForm
  <2>2. \A f \in OutForms' : owner[f.id] = f.key
    BY <1>4, <1>10, <2>1 DEF Owned
  <2>3. (Owned(owner))'
    BY <1>2, <2>1, <2>2 DEF Owned
  <2> QED BY <2>3 DEF OneForm
<1>16. FirstLeft'
  <2>1. \A f \in OutForms' : left[f.id] # None /\ left[f.id] <= f.v
    BY <1>5, <1>10 DEF FirstLeft
  <2> QED BY <1>2, <2>1 DEF FirstLeft
<1>17. ReceiptsHold'
  <2> SUFFICES ASSUME scan'.receipts # None, NEW i \in scan'.receipts PROVE observed'[i] # None
    BY DEF ReceiptsHold
  <2>1. some = forms /\ \E f \in some : f.id = i
    BY <1>8
  <2>2. i \in RecordId
    BY <1>5, <2>1
  <2> QED BY <1>6, <2>1, <2>2
<1>18. FinishedHeld'
  <2>1. \A k \in Key : OnPi(k) => (OnPi(k))'
    <3>1. \A i \in RecordId : observed[i] # None => observed'[i] = observed[i]
      BY <1>6
    <3> QED BY <1>2, <1>7, <3>1, PiHolds
  <2> QED BY <1>2, <2>1 DEF FinishedHeld, Counts, Carries
<1> QED BY <1>11, <1>12, <1>13, <1>14, <1>15, <1>16, <1>17, <1>18

-----------------------------------------------------------------------------
(* The theorems. *)

LEMMA StepHolds == HInv /\ [HandoffNext]_handoffVars => HInv'
<1> SUFFICES ASSUME HInv, [HandoffNext]_handoffVars PROVE HInv'
  OBVIOUS
<1>1. CASE UNCHANGED handoffVars
  <2>1. UNCHANGED <<drafts, token, page, observed, scan, edits, finished, left, loads, faults>>
    BY <1>1 DEF handoffVars
  <2> QED
    BY <2>1, LeadStep DEF HInv, HandoffTypeOK, OneTransfer, Outgoing
<1>2. CASE HandoffNext
  BY <1>2, ArriveHolds, ShellHolds, TokenComesHolds, TokenExpiresHolds, TypeHolds, KeepHolds,
     DiscardHolds, SubmitHolds, OpenPanelHolds, ShowCodeHolds, ScanReceiptHolds, LookHolds,
     ReceiveHolds, NextTabletHolds DEF HandoffNext
<1> QED BY <1>1, <1>2

\* What the other theorems rest on holds of every behaviour: who holds which
\* version of which form, on the tablet, in a code, and on the Pi.
THEOREM HandoffInvariant == HandoffSpec => []HInv
  BY InitHolds, StepHolds, PTL DEF HandoffSpec

\* A draft, a record and a page hold versions of forms that were filled in, and a
\* record is under its own id and somebody's name.
THEOREM HandoffTypes == HandoffSpec => []HandoffTypeOK
<1>1. HInv => HandoffTypeOK
  BY DEF HInv
<1> QED BY HandoffInvariant, <1>1, PTL

\* A form Save was pressed on is on the tablet or with the Pi as it was
\* finished, for any number of scouts, robots, edits and pages, whatever is lost
\* or fails half way and however often codes and receipts are scanned.
THEOREM FinishedFormsAreKept == HandoffSpec => []FinishedFormsKept
<1>1. HInv => FinishedFormsKept
  <2> SUFFICES ASSUME HInv, NEW k \in Key, Counts(k)
               PROVE  \/ drafts[k] # None /\ drafts[k].v >= finished[k].v
                      \/ \E i \in RecordId :
                          observed[i] # None /\ observed[i].key = k /\ observed[i].v >= finished[k].v
    BY DEF FinishedFormsKept, Counts
  <2>1. CASE OnPi(k)
    <3>1. PICK i \in RecordId : /\ observed[i] # None /\ observed[i].key = k
                                /\ finished[k].v <= observed[i].v
      BY <2>1 DEF OnPi
    <3>2. finished[k].v \in Nat /\ observed[i].v \in Nat
      BY <3>1 DEF HInv, HandoffTypeOK, FormRow, Version, Counts
    <3> QED BY <3>1, <3>2
  <2>2. CASE ~OnPi(k)
    <3>1. drafts[k] # None /\ finished[k].v <= drafts[k].v
      BY <2>2 DEF HInv, FinishedHeld, Carries
    <3>2. finished[k].v \in Nat /\ drafts[k].v \in Nat
      BY <3>1 DEF HInv, HandoffTypeOK, DraftRow, Version, Counts
    <3> QED BY <3>1, <3>2
  <2> QED BY <2>1, <2>2
<1> QED BY HandoffInvariant, <1>1, PTL

\* What the Pi holds of a form is under the scout who filled it in, whoever else
\* has used the tablet, and whatever parts of whatever codes the lead's camera
\* has seen between.
THEOREM FormsAreTheirScouts == HandoffSpec => []RecordedAsTheirScout
<1>1. HInv => RecordedAsTheirScout
  BY DEF HInv
<1> QED BY HandoffInvariant, <1>1, PTL
=============================================================================
