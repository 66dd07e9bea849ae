----------------------------- MODULE CollabText -----------------------------
(***************************************************************************)
(* Operational transformation over plain text, packages/collab: what an    *)
(* operation is, and how it is applied, composed and transformed.          *)
(*                                                                         *)
(* An operation is a sequence of units, read from left to right against a  *)
(* text: Keep retains a letter, Cut deletes one, and a letter inserts      *)
(* itself.  A run of the code's operation, a retained or deleted count or  *)
(* an inserted string, is that many units; how runs are packed is left     *)
(* out, the order the builder puts them in is not.                         *)
(***************************************************************************)
EXTENDS Naturals, Sequences, FiniteSets, SequencesExt

Keep == "keep"
Cut == "cut"

IsLetter(unit) == unit \notin {Keep, Cut}

\* The builder: an insertion next to a deletion goes before it.
Emit(operation, unit) ==
    LET kept == {i \in DOMAIN operation : operation[i] # Cut}
    IN  IF IsLetter(unit)
        THEN InsertAt(operation, Max(kept \cup {0}) + 1, unit)
        ELSE Append(operation, unit)

baseLength(operation) ==
    Cardinality({i \in DOMAIN operation : ~IsLetter(operation[i])})

targetLength(operation) ==
    Cardinality({i \in DOMAIN operation : operation[i] # Cut})

identityOperation(length) == [i \in 1..length |-> Keep]

\* The units of an operation that were read after i turns.
First(operation, i) == SubSeq(operation, 1, i)

\* The text an operation makes of the text it fits.  What it has read of the
\* text is the base length of its units so far.
applyOperation(text, operation) ==
    LET made[i \in 0..Len(operation)] ==
            IF i = 0 THEN <<>>
            ELSE CASE operation[i] = Keep ->
                        Append(made[i - 1],
                               text[baseLength(First(operation, i))])
                   [] operation[i] = Cut -> made[i - 1]
                   [] OTHER -> Append(made[i - 1], operation[i])
    IN  made[Len(operation)]

\* What an operation types: the text it makes where it keeps nothing.
Typed(operation) ==
    applyOperation(<<>>, [i \in DOMAIN operation |->
                             IF operation[i] = Keep THEN Cut ELSE operation[i]])

\* The loops below take at least one unit a turn, and stop when both
\* operations are used up.  They are at what they have read of each.
Turns(first, second) == Len(first) + Len(second)

More(operation, i) == i < Len(operation)

\* One turn of the composition.  A deletion of the first operation and an
\* insertion of the second pass through on their own.
ComposeTurn(first, second, at) ==
    LET a == first[at.i + 1]
        b == second[at.j + 1]
    IN  IF ~More(first, at.i) /\ ~More(second, at.j) THEN at
        ELSE IF More(first, at.i) /\ a = Cut
             THEN [at EXCEPT !.i = @ + 1, !.out = Emit(@, Cut)]
        ELSE IF More(second, at.j) /\ IsLetter(b)
             THEN [at EXCEPT !.j = @ + 1, !.out = Emit(@, b)]
        ELSE [i |-> at.i + 1, j |-> at.j + 1,
              out |-> IF b = Keep THEN Emit(at.out, a)
                      ELSE IF a = Keep THEN Emit(at.out, Cut) ELSE at.out]

\* One operation with the effect of first and then second.
composeOperations(first, second) ==
    LET state[n \in 0..Turns(first, second)] ==
            IF n = 0 THEN [i |-> 0, j |-> 0, out |-> <<>>]
            ELSE ComposeTurn(first, second, state[n - 1])
    IN  state[Turns(first, second)].out

\* One turn of the transformation: the other side keeps an insertion, and of
\* two units that meet each is kept unless the other takes its letter away.
TransformTurn(first, second, at, taking) ==
    LET a == first[at.i + 1]
        b == second[at.j + 1]
    IN  IF ~More(first, at.i) /\ ~More(second, at.j) THEN at
        ELSE IF More(first, at.i) /\ IsLetter(a)
             THEN [at EXCEPT !.i = @ + 1, !.outA = Emit(@, a),
                             !.outB = Emit(@, Keep)]
        ELSE IF More(second, at.j) /\ IsLetter(b)
             THEN [at EXCEPT !.j = @ + 1, !.outA = Emit(@, Keep),
                             !.outB = Emit(@, b)]
        ELSE [i |-> at.i + 1, j |-> at.j + 1,
              outA |-> IF b \in taking THEN at.outA ELSE Emit(at.outA, a),
              outB |-> IF a \in taking THEN at.outB ELSE Emit(at.outB, b)]

Transformed(first, second, taking) ==
    LET state[n \in 0..Turns(first, second)] ==
            IF n = 0 THEN [i |-> 0, j |-> 0, outA |-> <<>>, outB |-> <<>>]
            ELSE TransformTurn(first, second, state[n - 1], taking)
        end == state[Turns(first, second)]
    IN  <<end.outA, end.outB>>

\* Fault: text that both delete is deleted again.
TransformCutsTwice(first, second) == Transformed(first, second, {})

\* Two operations on one text, each carried over the other.  Where both
\* insert, the insertion of first comes first.
transformOperations(first, second) == Transformed(first, second, {Cut})

\* A caret carried over an operation, which is read for as long as it does
\* not read past the caret; a letter inserted at the caret pushes it on.
transformPosition(position, operation) ==
    LET read == Max({i \in 0..Len(operation) :
                        baseLength(First(operation, i)) <= position})
        before == First(operation, read)
    IN  position - baseLength(before) + targetLength(before)
=============================================================================
