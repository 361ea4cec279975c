------------------------------- MODULE Tokens -------------------------------
(***************************************************************************)
(* Sessions and offline tokens (C9): who a device's sync goes as.          *)
(*                                                                         *)
(*   the Pi         tt-web/src/{auth,token,handlers}.rs, tt-core/src/      *)
(*                  {token,user}.rs, tt-repo-sqlite/src/{users,token_key}  *)
(*   the device     tt-web/static/js/token.js, and the browser's cookies   *)
(*                                                                         *)
(* Time is in half days: a session lasts two, a token six.  Every clock is *)
(* right.  A device is one browser with one page open.                     *)
(***************************************************************************)
EXTENDS Integers, FiniteSets, Absent

CONSTANTS
    Device,
    User,
    MaxClock,          \* bound: half days
    MaxSignIns,        \* bound: times somebody signs in
    MaxRestarts        \* bound: times the Pi starts again

ASSUME TokensAssumption == None \notin User /\ None \notin Int /\ MaxClock \in Nat

SessionLasts == 2      \* SESSION_DURATION
TokenLasts   == 6      \* TOKEN_DURATION
HalfLife     == 3      \* HALF_LIFE_MS

Seed == {1, 2}         \* what 32 random bytes may be

VARIABLES
    now,
    sessions,  \* the rows of the sessions table
    signIns,   \* how many there have been
    seed,      \* token_key's row, or None
    keys,      \* the seed the running Pi has read, or None
    restarts,
    cookie,    \* each device's session cookie, or None
    kept,      \* tt-token:v1 on each device, or None
    page,      \* who the page open on each device was drawn for
    asking,    \* the devices whose page waits for the Pi to make it a token
    answer,    \* the token on its way to each device's page, or None
    leaving,   \* the devices whose sign-out is on its way
    promised   \* who may count on a device to sync as them, and until when

tokenVars == <<now, sessions, signIns, seed, keys, restarts, cookie, kept, page, asking,
               answer, leaving, promised>>

-----------------------------------------------------------------------------
(* The Pi. *)

\* The cookie the browser sends, until its max-age.
CookieOf(d) == IF cookie[d] # None /\ now < cookie[d].until THEN cookie[d].id ELSE None

\* new_session.
NewSession(id, u) == [id |-> id, user |-> u, expires |-> now + SessionLasts]

\* current_user: session_user of the cookie's row while the row is live, and
\* the rows left, one that has run out deleted.
CurrentUser(d) ==
    LET live == {s \in sessions : s.id = CookieOf(d) /\ now < s.expires}
    IN  IF live = {} THEN None ELSE (CHOOSE s \in live : TRUE).user
Swept(d) == {s \in sessions : s.id = CookieOf(d) => now < s.expires}

\* Mutant: the fresh bytes win.
TokenSeedReplaced(fresh) == fresh
\* token_seed: the row's seed, made of fresh bytes if there is none.
TokenSeed(fresh) == IF seed = None THEN fresh ELSE seed
\* Keys: read once by each start of the Pi.
Key(fresh) == IF keys = None THEN TokenSeed(fresh) ELSE keys

\* Claims::new, signed.
Claims(u, d, key) == [user |-> u, device |-> d, expires |-> now + TokenLasts, key |-> key]

\* verify.
Verifies(t, key) == t.key = key /\ now < t.expires

\* ttToken.token: what a sync sends.
Bearer(d) == IF kept[d] # None /\ now < kept[d].expires THEN kept[d] ELSE None

\* sync_user: the session's user, or the token's.
SyncUser(d, fresh) ==
    LET t == Bearer(d)
    IN  IF CurrentUser(d) # None THEN CurrentUser(d)
        ELSE IF t # None /\ Verifies(t, Key(fresh)) /\ t.device = d THEN t.user
        ELSE None

-----------------------------------------------------------------------------
(* The device. *)

\* A user's own token with more than half its life left: nothing is asked.
Fresh(d, u) == kept[d] # None /\ kept[d].user = u /\ kept[d].expires - now > HalfLife

\* Mutant: another's token is left until a new one takes its place.
StillKeptWhoever(d, u) == kept[d]
\* token.js as a page drawn for u starts: another's token goes.
StillKept(d, u) == IF kept[d] # None /\ kept[d].user # u THEN None ELSE kept[d]

Promise(u, until) == [user |-> u, until |-> until]

\* What a page waits for goes with the page.
Closed(d) == asking' = asking \ {d} /\ answer' = [answer EXCEPT ![d] = None]

\* login: a row, and a cookie if the answer arrives.
LogIn(d, u) ==
    /\ signIns < MaxSignIns /\ d \notin leaving
    /\ signIns' = signIns + 1
    /\ LET row == NewSession(signIns', u)
       IN  /\ sessions' = sessions \cup {row}
           /\ \/ cookie' = [cookie EXCEPT ![d] = [id |-> row.id, until |-> row.expires]]
              \/ cookie' = cookie
    /\ page' = [page EXCEPT ![d] = None]
    /\ Closed(d)
    /\ promised' = [promised EXCEPT ![d] = None]
    /\ UNCHANGED <<now, seed, keys, restarts, kept, leaving>>

\* A page opened online: drawn for who is signed in, and token.js run.
Open(d) ==
    /\ d \notin leaving
    /\ LET u == CurrentUser(d)
       IN  /\ page' = [page EXCEPT ![d] = u]
           /\ answer' = [answer EXCEPT ![d] = None]
           /\ asking' = IF u # None /\ ~Fresh(d, u) THEN asking \cup {d} ELSE asking \ {d}
           /\ kept' = IF u = None THEN kept ELSE [kept EXCEPT ![d] = StillKept(d, u)]
           /\ promised' = IF u # None /\ Fresh(d, u)
                          THEN [promised EXCEPT ![d] = Promise(u, now + HalfLife)]
                          ELSE promised
    /\ sessions' = Swept(d)
    /\ UNCHANGED <<now, signIns, seed, keys, restarts, cookie, leaving>>

\* issue: a token for the session's user.
Issue(d) ==
    /\ d \in asking
    /\ IF CurrentUser(d) = None THEN UNCHANGED <<seed, keys, answer>>
       ELSE \E fresh \in Seed :
              /\ keys' = Key(fresh)
              /\ seed' = (IF keys = None THEN TokenSeed(fresh) ELSE seed)
              /\ answer' = [answer EXCEPT ![d] = Claims(CurrentUser(d), d, keys')]
    /\ asking' = asking \ {d}
    /\ sessions' = Swept(d)
    /\ UNCHANGED <<now, signIns, restarts, cookie, kept, page, leaving, promised>>

\* The page keeps its answer, though a sign-out be on its way.
TakeAnswer(d) ==
    /\ answer[d] # None
    /\ kept' = [kept EXCEPT ![d] = answer[d]]
    /\ answer' = [answer EXCEPT ![d] = None]
    /\ promised' = IF d \in leaving THEN promised
                   ELSE [promised EXCEPT ![d] = Promise(answer[d].user, answer[d].expires)]
    /\ UNCHANGED <<now, sessions, signIns, seed, keys, restarts, cookie, page, asking, leaving>>

\* The page goes, or its request or the answer is lost.
LoseAnswer(d) ==
    /\ d \in asking \/ answer[d] # None
    /\ Closed(d)
    /\ UNCHANGED <<now, sessions, signIns, seed, keys, restarts, cookie, kept, page, leaving,
                   promised>>

\* The sign-out form is submitted: token.js throws the token away.
SubmitSignOut(d) ==
    /\ page[d] # None /\ d \notin leaving
    /\ kept' = [kept EXCEPT ![d] = None]
    /\ leaving' = leaving \cup {d}
    /\ promised' = [promised EXCEPT ![d] = None]
    /\ UNCHANGED <<now, sessions, signIns, seed, keys, restarts, cookie, page, asking, answer>>

\* logout, if it arrives and the store lets it delete the row; the cookie is
\* cleared if the answer arrives.  The page goes either way.
SignOut(d) ==
    /\ d \in leaving
    /\ sessions' \in {sessions, {s \in sessions : s.id # CookieOf(d)}}
    /\ cookie' \in {cookie, [cookie EXCEPT ![d] = None]}
    /\ leaving' = leaving \ {d}
    /\ page' = [page EXCEPT ![d] = None]
    /\ Closed(d)
    /\ UNCHANGED <<now, signIns, seed, keys, restarts, kept, promised>>

\* The Pi starts again: sessions that ran out are purged, requests it had are
\* cut off.
Restart ==
    /\ restarts < MaxRestarts
    /\ restarts' = restarts + 1
    /\ sessions' = {s \in sessions : now < s.expires}
    /\ keys' = None
    /\ asking' = {}
    /\ UNCHANGED <<now, signIns, seed, cookie, kept, page, answer, leaving, promised>>

HalfDayPasses ==
    /\ now < MaxClock
    /\ now' = now + 1
    /\ UNCHANGED <<sessions, signIns, seed, keys, restarts, cookie, kept, page, asking, answer,
                   leaving, promised>>

TokenInit ==
    /\ now = 0 /\ signIns = 0 /\ restarts = 0
    /\ sessions = {} /\ asking = {} /\ leaving = {}
    /\ seed = None /\ keys = None
    /\ cookie = [d \in Device |-> None] /\ kept = cookie /\ page = cookie /\ answer = cookie
    /\ promised = cookie

TokenNext ==
    \/ \E d \in Device :
          \/ \E u \in User : LogIn(d, u)
          \/ Open(d) \/ Issue(d) \/ TakeAnswer(d) \/ LoseAnswer(d)
          \/ SubmitSignOut(d) \/ SignOut(d)
    \/ Restart
    \/ HalfDayPasses

TokenSpec == TokenInit /\ [][TokenNext]_tokenVars

-----------------------------------------------------------------------------
(* Properties. *)

TokenTypeOK ==
    /\ now \in 0..MaxClock
    /\ {s.id : s \in sessions} \subseteq 1..signIns
    /\ seed \in Seed \cup {None} /\ keys \in {seed, None}
    /\ asking \subseteq {d \in Device : page[d] # None /\ answer[d] = None}
    /\ \A d \in Device : page[d] \in User \cup {None}

\* Once a page found a scout's token more than half alive, or its new token was
\* kept, the device syncs as that scout for the half life or the token's life
\* that follows: through sessions that run out, answers that are lost and
\* starts of the Pi, until somebody signs in or out there.
PromisedSyncs ==
    \A d \in Device :
        promised[d] # None /\ now < promised[d].until =>
            \A fresh \in Seed : SyncUser(d, fresh) = promised[d].user

\* While a scout's page is open their device's sync goes as them or as nobody,
\* never as the one who had the device before, whose token may outlast this
\* scout's session.
SyncsAsThePage ==
    \A d \in Device : \A fresh \in Seed :
        page[d] # None => SyncUser(d, fresh) \in {page[d], None}
=============================================================================
