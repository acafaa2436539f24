------------------------------ MODULE Arguments -----------------------------
(***************************************************************************)
(* The enumeration of the argument sets of a test, insanity/arguments.py:  *)
(* every combination of the items of its generators, by a position in each *)
(* generator that counts like an odometer.  Which item is at a position    *)
(* does not matter; static arguments are the same in every set.            *)
(***************************************************************************)
EXTENDS Naturals, SequencesExt

CONSTANTS
    NGens,           \* generators of a test
    MaxLines         \* items of a generator

ASSUME ArgumentsAssumption == NGens \in Nat /\ MaxLines \in Nat

Gens == 1..NGens

VARIABLES
    items,           \* number of items of each generator, as generated
    initialized,
    length,          \* the lengths as Arguments knows them
    position,        \* the index in each generator
    combinations,
    globalidx,
    returned         \* history: the positions of the sets that were returned

argsVars == <<initialized, length, position, combinations, globalidx, returned>>

ArgsInit ==
    /\ initialized = FALSE
    /\ length = [k \in Gens |-> 0]
    /\ position = [k \in Gens |-> 0]
    /\ combinations = 1
    /\ globalidx = 0
    /\ returned = <<>>

\* The product of the lengths, of those that are not empty.
Product(n) ==
    LET upTo[k \in 0..NGens] ==
            IF k = 0 THEN 1
            ELSE IF n[k] = 0 THEN upTo[k - 1] ELSE upTo[k - 1] * n[k]
    IN  upTo[NGens]

\* _initialize(), by the first next() or len().
Initialize ==
    IF initialized THEN UNCHANGED <<initialized, length, combinations>>
    ELSE /\ initialized' = TRUE
         /\ length' = items
         /\ combinations' = combinations * Product(items)

\* Mutant: no break, every generator moves.
AdvanceAll(p, n) == [k \in Gens |-> (p[k] + 1) % n[k]]

\* _updateGeneratorsPosition(): the next generator moves when all before it
\* have come back to their start.
Advance(p, n) ==
    [k \in Gens |-> IF \A j \in 1..(k - 1) : p[j] + 1 = n[j] THEN (p[k] + 1) % n[k] ELSE p[k]]

NextArguments ==
    /\ Initialize
    /\ IF globalidx < combinations'
       THEN /\ returned' = Append(returned, position)
            /\ position' = Advance(position, length')
            /\ globalidx' = globalidx + 1
       ELSE UNCHANGED <<returned, position, globalidx>>      \* StopIteration
    /\ UNCHANGED items

\* getCurrentBatchLength() of a test run
LenArguments ==
    /\ Initialize
    /\ UNCHANGED <<items, position, globalidx, returned>>

\* The sets returned so far are different, and when there is no other the
\* items of every generator have been combined with all of the others'.
EveryCombinationOnce ==
    /\ \A i, j \in DOMAIN returned : i # j => returned[i] # returned[j]
    /\ initialized /\ globalidx = combinations =>
          Range(returned) = {p \in [Gens -> 0..MaxLines] : \A k \in Gens : p[k] < items[k]}
=============================================================================
