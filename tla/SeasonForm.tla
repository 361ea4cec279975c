----------------------------- MODULE SeasonForm -----------------------------
(***************************************************************************)
(* The answers of a scouting form on their way: drawn from the season's    *)
(* schema, typed, posted and read (U4); kept as a draft and handed over by *)
(* QR code (S13); refused, shown to a lead scout in a form, and posted back *)
(* (C10b).                                                                 *)
(*                                                                         *)
(*   schema, reading   tt-core/src/{season,form}.rs                        *)
(*   the form          tt-templates/src/lib.rs, form_field.html, draft.js  *)
(*   refusals, QR      tt-web/src/{refused,handoff}.rs                     *)
(*                                                                         *)
(* A text is a word, with or without spaces around it, with or without a   *)
(* line break in it.  Selects have the same options, counters the same     *)
(* range, texts the same limit.                                            *)
(***************************************************************************)
EXTENDS Integers, FiniteSets, Absent

CONSTANT Question      \* the keys fields may have

VARIABLES
    schema,            \* the form a scout has before them
    typed              \* what is in its inputs: a text for each that has one

sheetVars == <<schema, typed>>

Options == {"a", "b"}
Least   == 0
Most    == 3
Limit   == 5

\* Each word's length, and the number it is read as.
Letters == [w \in {"", "a", "b", "0", "2", "9", "on", "note", "essay"} |->
                CASE w = "" -> 0 [] w = "on" -> 2 [] w = "note" -> 4 [] w = "essay" -> 6
                  [] OTHER -> 1]
Number == [w \in DOMAIN Letters |->
                CASE w = "0" -> 0 [] w = "2" -> 2 [] w = "9" -> 9 [] OTHER -> None]

Plain(w)  == [word |-> w, pad |-> FALSE, break |-> "none"]
Digits(n) == Plain(CHOOSE w \in DOMAIN Number : Number[w] = n)

\* trim; CR LF as LF; characters.
Trim(t)  == [t EXCEPT !.pad = FALSE]
Unix(t)  == [t EXCEPT !.break = IF @ = "crlf" THEN "lf" ELSE @]
Crlf(t)  == [t EXCEPT !.break = IF @ = "lf" THEN "crlf" ELSE @]
Chars(t) == Letters[t.word] + (IF t.pad THEN 2 ELSE 0)
            + (CASE t.break = "none" -> 0 [] t.break = "lf" -> 1 [] t.break = "crlf" -> 2)

FormField == [kind : {"select", "counter", "toggle", "text"}, required : BOOLEAN]
Schemas   == UNION {[keys -> FormField] : keys \in SUBSET Question \ {{}}}

\* Answers as they are stored.
Flag(b)  == [flag |-> b]
Count(n) == [count |-> n]
Prose(t) == [text |-> t]
IsKind(answer, kind) == kind \in DOMAIN answer

At(answers, key) == IF key \in DOMAIN answers THEN answers[key] ELSE None
Without(f, S)    == [key \in DOMAIN f \ S |-> f[key]]
\* The keys for which there is something.
Some(f) == [key \in {k \in DOMAIN f : f[k] # None} |-> f[key]]

-----------------------------------------------------------------------------
(* Reading. *)

Given(t) == t # None /\ Trim(t).word # ""

\* read_field: the answer, None where nothing was recorded, or what is wrong.
Wrong == [wrong |-> TRUE]
ReadField(field, t) ==
    CASE field.kind = "toggle"     -> Flag(Given(t) /\ t.word = "on")
      [] field.kind # "toggle" /\ ~Given(t) -> None
      [] field.kind = "select" /\ Given(t) -> IF t.word \in Options THEN Prose(Trim(t)) ELSE Wrong
      [] field.kind = "counter" /\ Given(t) ->
            IF Number[t.word] \in Least..Most THEN Count(Number[t.word]) ELSE Wrong
      [] field.kind = "text" /\ Given(t) ->
            IF Chars(Trim(Unix(t))) > Limit THEN Wrong ELSE Prose(Trim(Unix(t)))

\* validate_value.
FitsField(field, answer) ==
    \/ field.kind = "select" /\ IsKind(answer, "text") /\ answer.text.word \in Options
    \/ field.kind = "counter" /\ IsKind(answer, "count") /\ answer.count \in Least..Most
    \/ field.kind = "toggle" /\ IsKind(answer, "flag")
    \/ field.kind = "text" /\ IsKind(answer, "text") /\ Chars(answer.text) <= Limit

\* validate_payload.
Fits(form, payload) ==
    /\ DOMAIN payload \subseteq DOMAIN form
    /\ \A key \in DOMAIN form :
            IF key \in DOMAIN payload THEN FitsField(form[key], payload[key])
            ELSE ~form[key].required

\* read_answers as far as its last check; None when the form is shown again.
ReadEach(form, raw) ==
    LET read == [key \in DOMAIN form |-> ReadField(form[key], At(raw, key))]
    IN  IF \/ \E key \in DOMAIN form : read[key] = Wrong \/ (form[key].required /\ read[key] = None)
           \/ ~(DOMAIN raw \subseteq DOMAIN form)
        THEN None ELSE Some(read)

ReadAnswers(form, raw) ==
    LET payload == ReadEach(form, raw)
    IN  IF payload # None /\ Fits(form, payload) THEN payload ELSE None

Guess(t) ==
    CASE Trim(t).word = "on" -> Flag(TRUE)
      [] Number[t.word] # None -> Count(Number[t.word])
      [] Trim(t).word = "" -> None
      [] OTHER -> Prose(Trim(t))

\* What a tablet handed over is kept as, wrong or not.
TypedAsGiven(form, raw, key) ==
    IF form = None \/ key \notin DOMAIN form THEN Guess(raw[key])
    ELSE IF ReadField(form[key], raw[key]) = Wrong THEN Prose(raw[key])
         ELSE ReadField(form[key], raw[key])

\* read_answers_as_given, on the form it was typed into or (None) another.
AsGiven(form, raw) ==
    IF form # None /\ ReadAnswers(form, raw) # None THEN ReadAnswers(form, raw)
    ELSE LET unticked == IF form = None THEN {}
                         ELSE {key \in DOMAIN form \ DOMAIN raw : form[key].kind = "toggle"}
         IN  Some([key \in DOMAIN raw \cup unticked |->
                IF key \in unticked THEN Flag(FALSE) ELSE TypedAsGiven(form, raw, key)])

-----------------------------------------------------------------------------
(* Showing. *)

\* Mutant: a counter left out is shown as though never answered.
FromPayloadAtLeast(form, payload) ==
    Some([key \in DOMAIN form |->
        LET answer == At(payload, key)
        IN  CASE answer = None -> None
              [] answer # None /\ IsKind(answer, "flag") ->
                    IF answer.flag THEN Plain("on") ELSE None
              [] answer # None /\ IsKind(answer, "count") -> Digits(answer.count)
              [] answer # None /\ IsKind(answer, "text") -> answer.text])

\* from_payload.
FromPayload(form, payload) ==
    Some([key \in DOMAIN form |->
        LET answer == At(payload, key)
        IN  CASE answer = None -> IF form[key].kind = "counter" THEN Plain("") ELSE None
              [] answer # None /\ IsKind(answer, "flag") ->
                    IF answer.flag THEN Plain("on") ELSE None
              [] answer # None /\ IsKind(answer, "count") -> Digits(answer.count)
              [] answer # None /\ IsKind(answer, "text") -> answer.text])

\* form_sections and form_field.html, and what the browser makes of an input
\* drawn so: no radio checked, a number input emptied of what is no number.
Input(field, t) ==
    CASE field.kind = "select"  -> IF t # None /\ t.word \in Options THEN Plain(t.word) ELSE None
      [] field.kind = "counter" -> IF t = None THEN Digits(Least)
                                   ELSE IF Number[t.word] # None /\ t = Plain(t.word) THEN t
                                        ELSE Plain("")
      [] field.kind = "toggle"  -> IF Given(t) /\ t.word = "on" THEN Plain("on") ELSE None
      [] field.kind = "text"    -> IF t = None THEN Plain("") ELSE Unix(t)

Drawn(form, answers) == Some([key \in DOMAIN form |-> Input(form[key], At(answers, key))])

\* What scouts can put in an input.
Inputs(field) ==
    CASE field.kind = "select"  -> {None} \cup {Plain(o) : o \in Options}
      [] field.kind = "counter" -> {Plain("")} \cup {Plain(w) : w \in {"0", "2", "9"}}
      [] field.kind = "toggle"  -> {None, Plain("on")}
      [] field.kind = "text"    ->
            [word : {"", "2", "on"}, pad : BOOLEAN, break : {"none"}]
            \cup [word : {"note", "essay"}, pad : BOOLEAN, break : {"none", "lf"}]

\* The form posted: a text area's line breaks go as CR LF.
Posted(inputs) == [key \in DOMAIN inputs |-> Crlf(inputs[key])]

\* same_as.
SameAs(one, other) ==
    LET Said(raw) == [key \in {k \in DOMAIN raw : Given(raw[k])} |-> Trim(Unix(raw[key]))]
    IN  Said(one) = Said(other)

Notes(form) == {key \in DOMAIN form : form[key].kind = "text"}

\* posted_answers: notes the lead was not shown are put back.
PostedAnswers(form, raw, sent, shown) ==
    IF shown THEN raw
    ELSE Some([key \in DOMAIN raw \cup Notes(form) |->
                IF key \in Notes(form) THEN At(sent, key) ELSE raw[key]])

\* The answers as a lead posts them who changes none, the notes shown or not.
LeftAlone(form, payload, shown) ==
    LET sent == FromPayload(form, payload)
    IN  PostedAnswers(form,
            Posted(Without(Drawn(form, sent), IF shown THEN {} ELSE Notes(form))), sent, shown)

-----------------------------------------------------------------------------

\* Any form, with anything typed in it.
SheetInit ==
    /\ schema \in Schemas
    /\ \E inputs \in [DOMAIN schema -> UNION {Inputs(field) : field \in FormField}] :
            /\ \A key \in DOMAIN schema : inputs[key] \in Inputs(schema[key])
            /\ typed = Some(inputs)

SheetBlank ==
    /\ schema = [key \in Question |-> [kind |-> "toggle", required |-> FALSE]]
    /\ typed = <<>>

-----------------------------------------------------------------------------
(* Properties. *)

\* Answers that read on the form fit it, so that the check after the reading
\* never fires, and nothing given is dropped, though the page be another
\* version's.
ReadingKeepsAll ==
    \A form \in Schemas :
        LET payload == ReadEach(form, Posted(typed))
        IN  payload # None =>
                /\ Fits(form, payload)
                /\ {key \in DOMAIN typed : Given(typed[key])} \subseteq DOMAIN payload

\* A form handed over by QR is taken just when it would have been posted, and
\* as the same answers.
HandedAsPosted ==
    LET payload == ReadAnswers(schema, Posted(typed))
        handed  == AsGiven(schema, typed)
    IN  /\ payload # None => handed = payload
        /\ payload = None => ~Fits(schema, handed)

\* A form shown again with what is wrong in it holds what was typed.
TypedStays == SameAs(Posted(Drawn(schema, Posted(typed))), Posted(typed))

\* Answers kept for a lead and posted back as they were shown are what was
\* sent, notes withheld or not, guessed or read; those read that fit are read as
\* they were.
ShownIsSent ==
    LET asSent == AsGiven(schema, typed)
    IN  \A shown \in BOOLEAN :
            /\ \A payload \in {asSent, AsGiven(None, typed)} :
                    SameAs(LeftAlone(schema, payload, shown), FromPayload(schema, payload))
            /\ Fits(schema, asSent) =>
                    ReadAnswers(schema, LeftAlone(schema, asSent, shown)) = asSent

\* However a form's answers travel, they are the answers the scout gave: posted
\* or handed over alike, shown again as typed, corrected by a lead without a
\* change to what the lead left alone or may not read.
FormReadsBack == ReadingKeepsAll /\ HandedAsPosted /\ TypedStays /\ ShownIsSent

\* Answers a lead leaves alone count as unchanged, whatever version of the form
\* they are shown on.
UntouchedStays ==
    \A form \in Schemas :
        LET payload == ReadAnswers(schema, Posted(typed))
        IN  payload # None => SameAs(LeftAlone(form, payload, TRUE), FromPayload(form, payload))
=============================================================================
