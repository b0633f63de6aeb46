-------------------------- MODULE EmbeddingRebuild --------------------------
(***************************************************************************)
(* Rebuilding the vector indexes (Database.rebuildAllEmbeddings, run by    *)
(* the re-embed script).  Vectors are built row by row in shadow tables,   *)
(* outside of any transaction, verified, and swapped with the active ones. *)
(* The shadow survives an interruption, and the next rebuild goes on with  *)
(* it.  Interruptions are those the tool and the code arrange for, between *)
(* two rows or by an embedding that fails; a kill in the middle of a row   *)
(* is not modelled.                                                        *)
(***************************************************************************)
EXTENDS Naturals, FiniteSets

CONSTANTS
    Rows,           \* numbers: the order in which rows are embedded
    Entities,       \* the rows that are entities; the others are assertions
    MaxText,        \* versions of a row's text
    MaxInterrupts   \* embeddings that fail, and stops by the operator

VARIABLES
    text,       \* [Rows -> version of the row's passage]
    retired,    \* rows that no query lists any more
    shadow,     \* [Rows -> version of the passage in the tables of the build, or 0]
    building,   \* the state key and the shadow tables are there
    active,     \* the generation of the active indexes
    pc,         \* where the rebuild is
    listed,     \* the text, at its start, of the rows it listed; 0 for the others
    todo,       \* those it has not come to yet
    row,        \* the one it is at
    passage,    \* ... and the text it is embedding
    interrupts

tables == <<text, retired, shadow, building, active>>
run == <<pc, listed, todo, row, passage>>
vars == <<tables, run, interrupts>>

Nothing == [r \in Rows |-> 0]
Has(versions) == {r \in Rows : versions[r] # 0}

First(s) == CHOOSE r \in s : \A other \in s : r <= other

Init ==
    /\ text = [r \in Rows |-> 1] /\ retired = {}
    /\ shadow = Nothing /\ building = FALSE /\ active = "old"
    /\ pc = "idle" /\ listed = Nothing /\ todo = {} /\ row = First(Rows) /\ passage = 0
    /\ interrupts = 0

-----------------------------------------------------------------------------

\* The build is resumed when its tables and its state key, which is the same
\* for the same profile, are there.
Start ==
    /\ pc = "idle" /\ active = "old"
    /\ pc' = "rows"
    /\ shadow' = IF building THEN shadow ELSE Nothing
    /\ building' = TRUE
    /\ listed' = [r \in Rows |-> IF r \in retired THEN 0 ELSE text[r]]
    /\ todo' = Rows \ retired
    /\ UNCHANGED <<text, retired, active, row, passage, interrupts>>

\* A row with its text in the shadow is passed over; what the shadow has of an older
\* text is deleted.  An entity is embedded as it was listed, an assertion as it is now.
NextRow ==
    /\ pc = "rows" /\ todo # {}
    /\ todo' = todo \ {First(todo)}
    /\ LET r == First(todo)
           now == IF r \in Entities THEN listed[r] ELSE text[r]
       IN IF shadow[r] = now THEN UNCHANGED <<pc, row, passage, shadow>>
          ELSE /\ pc' = "embed"
               /\ row' = r /\ passage' = now
               /\ shadow' = [shadow EXCEPT ![r] = 0]
    /\ UNCHANGED <<text, retired, building, active, listed, interrupts>>

\* The embedding arrives; vector, value and metadata are inserted.
Embed ==
    /\ pc = "embed"
    /\ pc' = "rows"
    /\ shadow' = [shadow EXCEPT ![row] = passage]
    /\ UNCHANGED <<text, retired, building, active, listed, todo, row, passage, interrupts>>

\* verifyEmbeddingShadowBuildConsistency compares the rows of either index that have
\* metadata in the shadow, whenever they got there, with those this run went through.
Consistent ==
    \A kind \in {Entities, Rows \ Entities} :
        Cardinality(Has(shadow) \cap kind) = Cardinality(Has(listed) \cap kind)

\* One transaction switches to the build and drops it.
Swap ==
    /\ pc = "rows" /\ todo = {} /\ Consistent
    /\ active' = "new" /\ shadow' = Nothing /\ building' = FALSE
    /\ pc' = "idle"
    /\ UNCHANGED <<text, retired, listed, todo, row, passage, interrupts>>

\* EMBEDDING_SERIALIZATION_MIX: the build stays as it is.
Mixed ==
    /\ pc = "rows" /\ todo = {} /\ ~Consistent
    /\ pc' = "idle"
    /\ UNCHANGED <<tables, listed, todo, row, passage, interrupts>>

RebuildStep == NextRow \/ Embed \/ Swap \/ Mixed

\* An embedding fails, or the operator stops the tool, which it does after a row.
Interrupt ==
    /\ interrupts < MaxInterrupts
    /\ interrupts' = interrupts + 1
    /\ pc = "embed" \/ (pc = "rows" /\ todo # Has(listed))
    /\ pc' = "idle"
    /\ UNCHANGED <<tables, listed, todo, row, passage>>

\* The Brain's writers: a row's text is edited, or the row is retired (an
\* assertion invalidated, an entity merged into another).  Neither is known to
\* the shadow tables.
Edit(r) ==
    /\ r \notin retired /\ text[r] < MaxText
    /\ text' = [text EXCEPT ![r] = @ + 1]
    /\ UNCHANGED <<retired, shadow, building, active, run, interrupts>>

Retire(r) ==
    /\ r \notin retired
    /\ retired' = retired \cup {r}
    /\ UNCHANGED <<text, shadow, building, active, run, interrupts>>

Next ==
    \/ Start \/ RebuildStep \/ Interrupt
    \/ \E r \in Rows : Edit(r) \/ Retire(r)

\* The operator runs the rebuild again until it is through.
Spec == Init /\ [][Next]_vars /\ WF_vars(Start) /\ WF_vars(RebuildStep)

-----------------------------------------------------------------------------

\* "re-running a partial build continues", and "a resumed run completes and swaps"
\* (docs/embedding-migration-plan.md, sections 5 and 7).
ResumeCompletes == (pc = "idle" /\ building) ~> (active = "new")
=============================================================================
