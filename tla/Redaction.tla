----------------------------- MODULE Redaction -----------------------------
(* core/secrets/redact.ts: every form of every secret value in a text is   *)
(* replaced by the marker of its secret, one form after the other, longest *)
(* first.  A text is a sequence of symbols that remember where they stood, *)
(* so what is left of a value can be told from an equal symbol elsewhere;  *)
(* a marker is one symbol, of no secret's alphabet.                        *)
EXTENDS Naturals, Sequences

CONSTANTS
    Symbols,
    Patterns,  \* [form, name]: the forms (as is, JSON, base64, URL) of all values
    MaxText    \* bound: length of a text

ASSUME PatternsAssumption ==
    \A p \in Patterns : p.form \in Seq(Symbols) /\ p.form # <<>> /\ p.name \notin Symbols

VARIABLES text, out, left  \* left: the patterns still to be applied

redactVars == <<text, out, left>>

RedactionToken(name) == [sym |-> name, at |-> 0]

Occurs(form, t, i) ==
    /\ i + Len(form) - 1 <= Len(t)
    /\ \A j \in DOMAIN form : t[i + j - 1].sym = form[j]

(* out.split(form).join(token): the leftmost occurrences that do not       *)
(* overlap give way to the marker.  The scan notes where what stays comes  *)
(* from, and 0 for a marker.                                               *)
Scan(t, form, s) ==
    IF s.at > Len(t) THEN s
    ELSE IF Occurs(form, t, s.at)
         THEN [at |-> s.at + Len(form), from |-> Append(s.from, 0)]
         ELSE [at |-> s.at + 1, from |-> Append(s.from, s.at)]

Sources(t, form) ==
    LET scans[k \in 0..Len(t)] ==
            IF k = 0 THEN [at |-> 1, from |-> <<>>] ELSE Scan(t, form, scans[k - 1])
    IN scans[Len(t)].from

Replace(t, form, token) ==
    LET from == Sources(t, form) IN
    [k \in 1..Len(from) |-> IF from[k] = 0 THEN token ELSE t[from[k]]]

\* Mutant: the forms are applied shortest first.
Shortest(patterns) ==
    {p \in patterns : \A q \in patterns : Len(q.form) >= Len(p.form)}

Longest(patterns) ==
    {p \in patterns : \A q \in patterns : Len(q.form) <= Len(p.form)}

\* The pattern that is applied next; equal lengths come in any order.
Candidates(patterns) == Longest(patterns)

RedactInit ==
    /\ \E n \in 0..MaxText : \E s \in [1..n -> Symbols] :
           text = [i \in 1..n |-> [sym |-> s[i], at |-> i]]
    /\ out = text /\ left = Patterns

RedactText ==
    \E p \in Candidates(left) :
        /\ out' = Replace(out, p.form, RedactionToken(p.name))
        /\ left' = left \ {p}
        /\ UNCHANGED text

RedactSpec == RedactInit /\ [][RedactText]_redactVars
-----------------------------------------------------------------------------
(* An occurrence of a form no other form's occurrence overlaps unless it   *)
(* lies inside it.                                                         *)
Alone(p, i) ==
    /\ Occurs(p.form, text, i)
    /\ \A q \in Patterns, j \in DOMAIN text :
        LET inside == i <= j /\ j + Len(q.form) <= i + Len(p.form)
            apart  == j + Len(q.form) <= i \/ i + Len(p.form) <= j
        IN Occurs(q.form, text, j) => inside \/ apart

(* Of a value that stands in the text nothing is left, no part of it       *)
(* either, though another secret's value is contained in it (redact.ts:56, *)
(* :63); no form is left anywhere, and what no form covers is kept.        *)
NothingLeaks == left = {} =>
    /\ \A p \in Patterns, i \in DOMAIN out : ~Occurs(p.form, out, i)
    /\ \A p \in Patterns, i \in DOMAIN text : Alone(p, i) =>
           \A k \in DOMAIN out : out[k].at \notin i..(i + Len(p.form) - 1)
    /\ \A k \in DOMAIN text :
           (\A p \in Patterns, i \in DOMAIN text :
               Occurs(p.form, text, i) => k \notin i..(i + Len(p.form) - 1))
           => \E m \in DOMAIN out : out[m].at = k
=============================================================================
