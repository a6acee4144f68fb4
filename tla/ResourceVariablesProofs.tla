----------------------- MODULE ResourceVariablesProofs ----------------------
(***************************************************************************)
(* Theorems about ResourceVariables, for every model, every number of      *)
(* variables and every order in which control flow may run the operators.  *)
(*                                                                         *)
(* The argument: the table has one entry for each variable, and an entry   *)
(* never goes away or changes its name.  So an id found once stays right,  *)
(* also when the model is allocated again; the first ASSIGN of a variable  *)
(* that is prepared gives it its buffer and its default.                   *)
(***************************************************************************)
EXTENDS ResourceVariables, WellFoundedInduction, TLAPS

-----------------------------------------------------------------------------
\* The parts of the inductive invariant.

ZeroPoints == UNION {{p[i].zeroPoint : i \in DOMAIN p} : p \in Programs}
Containers == UNION {{p[i].container : i \in DOMAIN p} : p \in Programs}
Names == UNION {{p[i].name : i \in DOMAIN p} : p \in Programs}

Entries == [container : Containers, name : Names,
            buffer : Values \union ZeroPoints \union {NullBuffer},
            default : ZeroPoints \union {0}]

TypeOK ==
  /\ program \in Programs
  /\ resourceVariables \in Seq(Entries)
  /\ handleId \in [Ops -> Nat \union {None}]
  /\ stage \in 0..Done \union {Failed}

Ids == 0..(Len(resourceVariables) - 1)
Entry(id) == resourceVariables[id + 1]
Key(id) == <<Entry(id).container, Entry(id).name>>
HasBuffer(id) == Entry(id).buffer # NullBuffer

\* An ASSIGN that gives its variable a buffer in Prepare.
Allocates(i) == IsOp(i, "assign") /\ ~program[i].passed

\* The table has one entry for each variable, all of them variables of the model.
TableNamed ==
  /\ \A a, b \in Ids : Key(a) = Key(b) => a = b
  /\ \A a \in Ids : \E i \in Ops : IsOp(i, "var_handle") /\ Key(a) = Named(i)

\* An id is of the entry with its handle's name; the handles prepared so far have one.
HandlesNamed == \A i \in Ops :
  /\ handleId[i] # None =>
       IsOp(i, "var_handle") /\ handleId[i] \in Ids /\ Key(handleId[i]) = Named(i)
  /\ IsOp(i, "var_handle") /\ i <= stage => handleId[i] # None

\* The variables of the assigns prepared so far have a buffer.
AssignsReady == \A i \in Ops : \A a \in Ids :
  Allocates(i) /\ i <= stage /\ Key(a) = Named(i) => HasBuffer(a)

\* The default is the zero point of the first assign.
DefaultsFirst == \A a \in Ids : HasBuffer(a) => \E i \in Ops :
  /\ Allocates(i) /\ Named(i) = Key(a)
  /\ \A j \in Ops : Allocates(j) /\ Named(j) = Key(a) => i <= j
  /\ Entry(a).default = program[i].zeroPoint

\* A buffer holds what was stored last under its name.
ContentsStored ==
  /\ \A n \in DOMAIN stored : \E a \in Ids : Key(a) = n /\ HasBuffer(a)
  /\ \A a \in Ids : HasBuffer(a) =>
       Entry(a).buffer = IF Key(a) \in DOMAIN stored THEN stored[Key(a)] ELSE Entry(a).default

VariablesInv ==
  /\ TypeOK /\ TableNamed /\ HandlesNamed
  /\ AssignsReady /\ DefaultsFirst /\ ContentsStored

-----------------------------------------------------------------------------
LEMMA MinFacts ==
  ASSUME NEW S \in SUBSET Nat, S # {}
  PROVE  Min(S) \in S /\ \A x \in S : Min(S) <= x
<1> DEFINE R == OpToRel(<, Nat)
<1> HIDE DEF R
<1>1. PICK m \in S : \A y \in S : ~(<<y, m>> \in R)
  BY NatLessThanWellFounded, WFMin DEF R
<1>2. \A y \in S : m <= y
  <2> SUFFICES ASSUME NEW y \in S, y < m PROVE FALSE
    OBVIOUS
  <2>1. <<y, m>> \in R
    BY DEF R, OpToRel
  <2>2. QED
    BY <2>1, <1>1
<1>3. QED
  BY <1>1, <1>2 DEF Min

\* What is known of the model.
LEMMA ProgramFacts ==
  ASSUME program \in Programs
  PROVE  /\ Len(program) \in Nat /\ Ops = 1..Len(program)
         /\ \A i \in Ops :
              /\ program[i].passed \in BOOLEAN
              /\ program[i].zeroPoint # NullBuffer /\ program[i].zeroPoint \in ZeroPoints
              /\ program[i].container \in Containers /\ program[i].name \in Names
              /\ (IsOp(i, "assign") \/ IsOp(i, "read")) /\ ~program[i].passed =>
                   \E h \in Handles(i) : h < i
              /\ IsOp(i, "read") => /\ \E h \in Ops : IsOp(h, "var_handle") /\ Named(h) = Named(i)
                                    /\ \E j \in Ops : Allocates(j) /\ Named(j) = Named(i)
         /\ \A h, i \in Ops : IsOp(h, "var_handle") /\ IsOp(i, "var_handle") =>
              (program[h].container = NullContainer <=> program[i].container = NullContainer)
<1>0. WellFormed(program)
  BY ProgramAssumption DEF ProgramAssumption
<1>1. program \in Seq({program[i] : i \in DOMAIN program})
  BY <1>0 DEF WellFormed
<1>2. Len(program) \in Nat /\ Ops = 1..Len(program)
  BY <1>1 DEF Ops
<1>3. ASSUME NEW i \in Ops
      PROVE  /\ program[i].passed \in BOOLEAN
             /\ program[i].zeroPoint # NullBuffer
             /\ program[i].op \in {"assign", "read"} /\ ~program[i].passed =>
                  \E h \in 1..(i - 1) : IsHandle(program, h, i)
                                        /\ program[h].subgraph = program[i].subgraph
             /\ program[i].op = "read" =>
                  /\ \E h \in DOMAIN program : IsHandle(program, h, i)
                  /\ \E j \in DOMAIN program : /\ program[j].op = "assign" /\ ~program[j].passed
                                               /\ program[j].container = program[i].container
                                               /\ program[j].name = program[i].name
  BY <1>0, <1>3 DEF WellFormed, Ops
<1>4. ASSUME NEW i \in Ops
      PROVE  /\ program[i].zeroPoint \in ZeroPoints
             /\ program[i].container \in Containers /\ program[i].name \in Names
  BY <1>4 DEF ZeroPoints, Containers, Names, Ops
<1>5. ASSUME NEW i \in Ops, IsOp(i, "assign") \/ IsOp(i, "read"), ~program[i].passed
      PROVE  \E h \in Handles(i) : h < i
  <2>1. PICK h \in 1..(i - 1) : IsHandle(program, h, i) /\ program[h].subgraph = program[i].subgraph
    BY <1>3, <1>5 DEF IsOp
  <2>2. h \in Ops /\ h < i
    BY <1>2
  <2>3. QED
    BY <2>1, <2>2 DEF Handles, IsHandle, Named
<1>6. ASSUME NEW i \in Ops, IsOp(i, "read")
      PROVE  /\ \E h \in Ops : IsOp(h, "var_handle") /\ Named(h) = Named(i)
             /\ \E j \in Ops : Allocates(j) /\ Named(j) = Named(i)
  BY <1>3, <1>6 DEF IsOp, IsHandle, Named, Allocates, Ops
<1>7. \A h, i \in Ops : IsOp(h, "var_handle") /\ IsOp(i, "var_handle") =>
        (program[h].container = NullContainer <=> program[i].container = NullContainer)
  BY <1>0 DEF WellFormed, IsOp, Ops
<1>8. QED
  BY <1>2, <1>3, <1>4, <1>5, <1>6, <1>7

\* The entry of an id.
LEMMA EntryFacts ==
  ASSUME resourceVariables \in Seq(Entries)
  PROVE  /\ Len(resourceVariables) \in Nat
         /\ \A a \in Ids : a \in Nat /\ a + 1 \in DOMAIN resourceVariables /\ Entry(a) \in Entries
         /\ \A k \in DOMAIN resourceVariables : k - 1 \in Ids /\ Entry(k - 1) = resourceVariables[k]
BY DEF Ids, Entry

\* The id in an operator's input tensor is its variable's, if there is one.
LEMMA InputIdFacts ==
  ASSUME TypeOK, HandlesNamed, NEW i \in Ops
  PROVE  /\ InputId(i) # None => InputId(i) \in Ids /\ Key(InputId(i)) = Named(i)
         /\ Handles(i) # {} /\ (\E h \in Handles(i) : h <= stage) => InputId(i) # None
<1>1. Handles(i) \in SUBSET Nat
  BY ProgramFacts DEF TypeOK, Handles
<1>2. CASE Handles(i) = {}
  BY <1>2 DEF InputId
<1>3. CASE Handles(i) # {}
  <2> DEFINE h == Min(Handles(i))
  <2>1. h \in Handles(i) /\ \A k \in Handles(i) : h <= k
    BY <1>1, <1>3, MinFacts
  <2>2. h \in Ops /\ IsOp(h, "var_handle") /\ Named(h) = Named(i) /\ InputId(i) = handleId[h]
    BY <2>1, <1>3 DEF Handles, InputId, IsOp
  <2>3. (\E k \in Handles(i) : k <= stage) => h <= stage
    <3> SUFFICES ASSUME NEW k \in Handles(i), k <= stage PROVE h <= stage
      OBVIOUS
    <3>1. h \in Nat /\ k \in Nat /\ h <= k /\ stage \in Int
      BY <2>1, <1>1, ProgramFacts DEF TypeOK, Done, Failed
    <3>2. QED
      BY <3>1
  <2> HIDE DEF h
  <2>4. QED
    BY <2>2, <2>3 DEF HandlesNamed
<1>4. QED
  BY <1>2, <1>3

\* The operators about a variable have its id by the time they are prepared, when the id is
\* made in their own subgraph, and all have it once the model is allocated.
LEMMA IdKnown ==
  ASSUME TypeOK, HandlesNamed, NEW i \in Ops, IsOp(i, "assign") \/ IsOp(i, "read")
  PROVE  /\ ~program[i].passed /\ i <= stage + 1 => InputId(i) # None
         /\ IsOp(i, "read") /\ stage = Done => InputId(i) # None
<1>0. i \in Nat /\ stage \in Int /\ \A h \in Handles(i) : h \in Nat /\ h <= Len(program)
  BY ProgramFacts DEF TypeOK, Done, Failed, Handles
<1>1. ASSUME ~program[i].passed, i <= stage + 1 PROVE InputId(i) # None
  <2>1. PICK h \in Handles(i) : h < i
    BY <1>1, ProgramFacts DEF TypeOK
  <2>2. h <= stage
    BY <2>1, <1>0, <1>1
  <2>3. QED
    BY <2>2, InputIdFacts
<1>2. ASSUME IsOp(i, "read"), stage = Done PROVE InputId(i) # None
  <2>1. Handles(i) # {}
    BY <1>2, ProgramFacts DEF TypeOK, Handles, IsOp
  <2>2. PICK h \in Handles(i) : TRUE
    BY <2>1
  <2>3. h <= stage
    BY <1>0, <1>2, ProgramFacts DEF Done, TypeOK
  <2>4. QED
    BY <2>3, InputIdFacts
<1>3. QED
  BY <1>1, <1>2

-----------------------------------------------------------------------------
\* The program is read-only.
LEMMA SameProgram ==
  ASSUME program' = program
  PROVE  /\ Ops' = Ops /\ Done' = Done
         /\ \A i \in Ops : /\ Named(i)' = Named(i) /\ (Allocates(i)' <=> Allocates(i))
                           /\ \A op : IsOp(i, op)' <=> IsOp(i, op)
BY DEF Ops, Done, Named, Allocates, IsOp

\* A step that leaves the table and what was stored alone.
LEMMA TableKept ==
  ASSUME VariablesInv, UNCHANGED <<program, resourceVariables, stored>>
  PROVE  /\ TableNamed' /\ DefaultsFirst' /\ ContentsStored'
         /\ Ids' = Ids
         /\ \A a \in Ids : Key(a)' = Key(a) /\ (HasBuffer(a)' <=> HasBuffer(a))
<1>1. /\ Ids' = Ids
      /\ \A a \in Ids : Entry(a)' = Entry(a) /\ Key(a)' = Key(a) /\ (HasBuffer(a)' <=> HasBuffer(a))
  BY DEF Ids, Entry, Key, HasBuffer
<1>2. TableNamed'
  BY <1>1, SameProgram DEF VariablesInv, TableNamed
<1>3. DefaultsFirst'
  BY <1>1, SameProgram DEF VariablesInv, DefaultsFirst
<1>4. ContentsStored'
  BY <1>1 DEF VariablesInv, ContentsStored
<1>5. QED
  BY <1>1, <1>2, <1>3, <1>4

\* A step that prepares nothing, or an operator that has nothing to prepare.
LEMMA StageKeeps ==
  ASSUME VariablesInv, UNCHANGED <<program, resourceVariables, handleId, stored>>,
         stage' \in 0..Done \union {Failed},
         \A i \in Ops : i <= stage' => i <= stage \/ ~(IsOp(i, "var_handle") \/ Allocates(i))
  PROVE  VariablesInv'
<1>1. TypeOK'
  BY SameProgram DEF VariablesInv, TypeOK, Failed
<1>2. HandlesNamed'
  BY TableKept, SameProgram DEF VariablesInv, HandlesNamed
<1>3. AssignsReady'
  BY TableKept, SameProgram DEF VariablesInv, AssignsReady
<1>4. QED
  BY <1>1, <1>2, <1>3, TableKept DEF VariablesInv

LEMMA PrepareFailsKeeps ==
  ASSUME VariablesInv, PrepareFails
  PROVE  VariablesInv'
<1>1. \A i \in Ops : ~(i <= Failed)
  BY ProgramFacts DEF VariablesInv, TypeOK, Failed
<1>2. QED
  BY <1>1, StageKeeps DEF PrepareFails

LEMMA PreparingFacts ==
  ASSUME VariablesInv, NEW i \in Ops, NEW op, Preparing(i, op)
  PROVE  /\ i \in 0..Done \union {Failed} /\ stage = i - 1 /\ IsOp(i, op)
         /\ \A j \in Ops : j <= i => j <= stage \/ j = i
BY ProgramFacts DEF VariablesInv, TypeOK, Preparing, Done

LEMMA PrepareReadKeeps ==
  ASSUME VariablesInv, NEW i \in Ops, PrepareRead(i)
  PROVE  VariablesInv'
<1>1. /\ stage' = i /\ UNCHANGED <<program, resourceVariables, handleId, stored>>
      /\ Preparing(i, "read")
  BY DEF PrepareRead
<1>2. ~IsOp(i, "var_handle") /\ ~Allocates(i)
  BY <1>1 DEF Preparing, IsOp, Allocates
<1>3. QED
  BY <1>1, <1>2, PreparingFacts, StageKeeps

LEMMA AllocateTensorsKeeps ==
  ASSUME VariablesInv, AllocateTensors
  PROVE  VariablesInv'
<1>1. /\ stage' = 0 /\ handleId' = [i \in Ops |-> None]
      /\ UNCHANGED <<program, resourceVariables, stored>>
  BY DEF AllocateTensors
<1>2. \A i \in Ops : ~(i <= 0)
  BY ProgramFacts DEF VariablesInv, TypeOK
<1>3. TypeOK'
  BY <1>1, SameProgram, ProgramFacts DEF VariablesInv, TypeOK, Done
<1>4. HandlesNamed'
  BY <1>1, <1>2, SameProgram DEF HandlesNamed
<1>5. AssignsReady'
  BY <1>1, <1>2, SameProgram DEF AssignsReady
<1>6. QED
  BY <1>1, <1>3, <1>4, <1>5, TableKept DEF VariablesInv

-----------------------------------------------------------------------------
\* FindId finds the entry of a handle's variable, if the table has one.
LEMMA FindIdFacts ==
  ASSUME VariablesInv, NEW i \in Ops, IsOp(i, "var_handle"),
         NEW id, id = FindId(program[i].container, program[i].name)
  PROVE  /\ id # None => id \in Ids /\ Key(id) = Named(i)
         /\ id = None => \A a \in Ids : Key(a) # Named(i)
<1> DEFINE found == {a \in Ids : /\ program[i].container \in {NullContainer, Entry(a).container}
                                 /\ Entry(a).name = program[i].name}
<1>1. id = IF found = {} THEN None ELSE Min(found)
  BY DEF FindId, Ids, Entry
<1>2. ASSUME NEW a \in found PROVE a \in Ids /\ Key(a) = Named(i)
  <2>1. PICK h \in Ops : IsOp(h, "var_handle") /\ Key(a) = Named(h)
    BY DEF VariablesInv, TableNamed
  <2>2. program[h].container = NullContainer <=> program[i].container = NullContainer
    BY <2>1, ProgramFacts DEF VariablesInv, TypeOK
  <2>3. Entry(a).container = program[h].container
    BY <2>1 DEF Key, Named
  <2>4. QED
    BY <2>2, <2>3 DEF Key, Named
<1>3. ASSUME NEW a \in Ids, Key(a) = Named(i) PROVE a \in found
  BY <1>3 DEF Key, Named
<1>4. found \in SUBSET Nat
  BY EntryFacts DEF VariablesInv, TypeOK
<1>5. None \notin found
  BY <1>4 DEF None
<1> HIDE DEF found
<1>6. found # {} => Min(found) \in found
  BY <1>4, MinFacts
<1>7. QED
  BY <1>1, <1>2, <1>3, <1>5, <1>6

\* A handle that found its variable in the table.
LEMMA FoundKeeps ==
  ASSUME VariablesInv, NEW i \in Ops, Preparing(i, "var_handle"), NEW id \in Ids,
         Key(id) = Named(i), CreateId(i, id), UNCHANGED resourceVariables
  PROVE  VariablesInv'
<1>1. /\ stage' = i /\ handleId' = [handleId EXCEPT ![i] = id]
      /\ UNCHANGED <<program, resourceVariables, stored>>
  BY DEF CreateId
<1>2. id \in Nat /\ id # None
  BY EntryFacts DEF VariablesInv, TypeOK, None
<1>3. \A j \in Ops : handleId'[j] = IF j = i THEN id ELSE handleId[j]
  BY <1>1 DEF VariablesInv, TypeOK
<1>4. TypeOK'
  BY <1>1, <1>2, PreparingFacts, SameProgram DEF VariablesInv, TypeOK
<1>5. HandlesNamed'
  BY <1>1, <1>2, <1>3, TableKept, SameProgram, PreparingFacts DEF VariablesInv, HandlesNamed
<1>6. ~Allocates(i)
  BY PreparingFacts DEF Allocates, IsOp
<1>7. AssignsReady'
  BY <1>1, <1>6, TableKept, SameProgram, PreparingFacts DEF VariablesInv, AssignsReady
<1>8. QED
  BY <1>1, <1>4, <1>5, <1>7, TableKept DEF VariablesInv

\* A handle whose variable is new.
LEMMA CreatedKeeps ==
  ASSUME VariablesInv, NEW i \in Ops, Preparing(i, "var_handle"),
         \A a \in Ids : Key(a) # Named(i),
         CreateId(i, Len(resourceVariables)),
         resourceVariables' = Append(resourceVariables,
           [container |-> program[i].container, name |-> program[i].name,
            buffer |-> NullBuffer, default |-> 0])
  PROVE  VariablesInv'
<1> DEFINE n == Len(resourceVariables)
           new == [container |-> program[i].container, name |-> program[i].name,
                   buffer |-> NullBuffer, default |-> 0]
<1>1. /\ stage' = i /\ handleId' = [handleId EXCEPT ![i] = n]
      /\ UNCHANGED <<program, stored>>
  BY DEF CreateId
<1>2. new \in Entries /\ n \in Nat /\ n # None
  BY ProgramFacts, EntryFacts DEF VariablesInv, TypeOK, Entries, None
<1>3. /\ Ids' = Ids \union {n} /\ n \notin Ids
      /\ \A a \in Ids : Entry(a)' = Entry(a)
      /\ \A a \in {n} : Entry(a)' = new
      /\ resourceVariables' \in Seq(Entries)
  <2>1. Len(resourceVariables') = n + 1 /\ resourceVariables' \in Seq(Entries)
    BY <1>2 DEF VariablesInv, TypeOK
  <2>2. Ids' = Ids \union {n} /\ n \notin Ids
    BY <2>1, <1>2 DEF Ids
  <2>3. \A k \in 1..n : resourceVariables'[k] = resourceVariables[k]
    BY <1>2 DEF VariablesInv, TypeOK
  <2>4. \A a \in Ids : a + 1 \in 1..n
    BY <1>2 DEF Ids
  <2>5. \A a \in Ids : Entry(a)' = Entry(a)
    BY <2>3, <2>4 DEF Entry
  <2>6. resourceVariables'[n + 1] = new
    BY <1>2 DEF VariablesInv, TypeOK
  <2>7. \A a \in {n} : Entry(a)' = new
    BY <2>6 DEF Entry
  <2>8. QED
    BY <2>1, <2>2, <2>5, <2>7
<1> HIDE DEF n
<1>4. \A a \in Ids : Key(a)' = Key(a) /\ (HasBuffer(a)' <=> HasBuffer(a))
  BY <1>3 DEF Key, HasBuffer
<1>5. \A a \in {n} : Key(a)' = Named(i) /\ ~HasBuffer(a)'
  BY <1>3 DEF Key, HasBuffer, Named
<1> HIDE DEF new
<1>6. \A j \in Ops : handleId'[j] = IF j = i THEN n ELSE handleId[j]
  BY <1>1 DEF VariablesInv, TypeOK
<1>7. TypeOK'
  BY <1>1, <1>2, <1>3, PreparingFacts, SameProgram DEF VariablesInv, TypeOK
<1>8. TableNamed'
  <2>1. \A a, b \in Ids' : Key(a)' = Key(b)' => a = b
    BY <1>3, <1>4, <1>5 DEF VariablesInv, TableNamed
  <2>2. \A a \in Ids' : \E j \in Ops : IsOp(j, "var_handle") /\ Key(a)' = Named(j)
    BY <1>3, <1>4, <1>5, PreparingFacts DEF VariablesInv, TableNamed
  <2>3. QED
    BY <2>1, <2>2, <1>1, SameProgram DEF TableNamed
<1>9. HandlesNamed'
  BY <1>1, <1>2, <1>3, <1>4, <1>5, <1>6, SameProgram, PreparingFacts
  DEF VariablesInv, HandlesNamed
<1>10. ~Allocates(i)
  BY PreparingFacts DEF Allocates, IsOp
<1>11. AssignsReady'
  <2> SUFFICES ASSUME NEW j \in Ops, NEW a \in Ids', Allocates(j), j <= stage',
                      Key(a)' = Named(j)
               PROVE  HasBuffer(a)'
    BY <1>1, SameProgram DEF AssignsReady
  <2>1. j <= stage
    BY <1>1, <1>10, PreparingFacts
  <2>2. a # n
    <3>0. j <= stage + 1
      BY <2>1, ProgramFacts, PreparingFacts DEF VariablesInv, TypeOK
    <3>1. InputId(j) # None
      BY <3>0, IdKnown DEF VariablesInv, Allocates
    <3>2. InputId(j) \in Ids /\ Key(InputId(j)) = Named(j)
      BY <3>1, InputIdFacts DEF VariablesInv
    <3>3. QED
      BY <3>2, <1>5
  <2>3. QED
    BY <2>1, <2>2, <1>3, <1>4 DEF VariablesInv, AssignsReady
<1>12. DefaultsFirst'
  BY <1>1, <1>3, <1>4, <1>5, SameProgram DEF VariablesInv, DefaultsFirst
<1>13. ContentsStored'
  BY <1>1, <1>3, <1>4, <1>5 DEF VariablesInv, ContentsStored
<1>14. QED
  BY <1>7, <1>8, <1>9, <1>11, <1>12, <1>13 DEF VariablesInv

LEMMA PrepareVarHandleKeeps ==
  ASSUME VariablesInv, NEW i \in Ops, PrepareVarHandle(i)
  PROVE  VariablesInv'
<1> DEFINE id == FindId(program[i].container, program[i].name)
<1>1. Preparing(i, "var_handle") /\ IsOp(i, "var_handle")
  BY DEF PrepareVarHandle, Preparing
<1>2. CASE id # None /\ CreateId(i, id) /\ UNCHANGED resourceVariables
  BY <1>1, <1>2, FindIdFacts, FoundKeeps
<1>3. CASE /\ id = None /\ CreateId(i, Len(resourceVariables))
           /\ resourceVariables' = Append(resourceVariables,
                [container |-> program[i].container, name |-> program[i].name,
                 buffer |-> NullBuffer, default |-> 0])
  BY <1>1, <1>3, FindIdFacts, CreatedKeeps
<1>4. CASE PrepareFails
  BY <1>4, PrepareFailsKeeps
<1>5. QED
  BY <1>2, <1>3, <1>4 DEF PrepareVarHandle

-----------------------------------------------------------------------------
\* A step that writes one entry, under its name, and leaves the others alone.
LEMMA EntryWritten ==
  ASSUME VariablesInv, UNCHANGED program, NEW id \in Ids,
         NEW e \in Entries, e.container = Entry(id).container, e.name = Entry(id).name,
         resourceVariables' = [resourceVariables EXCEPT ![id + 1] = e]
  PROVE  /\ resourceVariables' \in Seq(Entries)
         /\ Ids' = Ids
         /\ \A a \in Ids : /\ Entry(a)' = (IF a = id THEN e ELSE Entry(a))
                           /\ Key(a)' = Key(a)
                           /\ HasBuffer(a)' <=> (IF a = id THEN e.buffer # NullBuffer ELSE HasBuffer(a))
         /\ TableNamed'
<1>1. resourceVariables' \in Seq(Entries) /\ Len(resourceVariables') = Len(resourceVariables)
  BY EntryFacts DEF VariablesInv, TypeOK
<1>2. Ids' = Ids
  BY <1>1 DEF Ids
<1>3. \A k \in DOMAIN resourceVariables :
        resourceVariables'[k] = IF k = id + 1 THEN e ELSE resourceVariables[k]
  BY DEF VariablesInv, TypeOK
<1>4. \A a \in Ids : Entry(a)' = (IF a = id THEN e ELSE Entry(a))
  <2>1. \A a \in Ids : a + 1 \in DOMAIN resourceVariables /\ (a + 1 = id + 1 <=> a = id)
    BY EntryFacts DEF VariablesInv, TypeOK
  <2>2. QED
    BY <1>3, <2>1 DEF Entry
<1>5. \A a \in Ids : Key(a)' = Key(a)
  BY <1>4 DEF Key
<1>6. \A a \in Ids :
        HasBuffer(a)' <=> (IF a = id THEN e.buffer # NullBuffer ELSE HasBuffer(a))
  BY <1>4 DEF HasBuffer
<1>7. TableNamed'
  BY <1>2, <1>5, SameProgram DEF VariablesInv, TableNamed
<1>8. QED
  BY <1>1, <1>2, <1>4, <1>5, <1>6, <1>7

\* A record of the table with another buffer, and another default.
LEMMA EntryUpdate ==
  ASSUME NEW f \in Entries
  PROVE  /\ \A b \in Values \union ZeroPoints \union {NullBuffer} :
              LET e == [f EXCEPT !.buffer = b] IN
              /\ e \in Entries /\ e.container = f.container /\ e.name = f.name
              /\ e.buffer = b /\ e.default = f.default
         /\ \A z \in ZeroPoints :
              LET e == [f EXCEPT !.buffer = z, !.default = z] IN
              /\ e \in Entries /\ e.container = f.container /\ e.name = f.name
              /\ e.buffer = z /\ e.default = z
BY DEF Entries

\* The first assign of a variable to be prepared gives it its buffer.
LEMMA AllocateKeeps ==
  ASSUME VariablesInv, NEW i \in Ops, Preparing(i, "assign"), HasIdInPrepare(i),
         resourceVariables' = Allocate(InputId(i), program[i].zeroPoint),
         stage' = i, UNCHANGED <<program, handleId, stored>>
  PROVE  VariablesInv'
<1> DEFINE id == InputId(i)
           z == program[i].zeroPoint
           e == [Entry(id) EXCEPT !.buffer = z, !.default = z]
<1>1. id \in Ids /\ Key(id) = Named(i)
  BY InputIdFacts DEF VariablesInv, HasIdInPrepare
<1>2. z \in ZeroPoints /\ z # NullBuffer
  BY ProgramFacts DEF VariablesInv, TypeOK
<1>3. Allocates(i)
  BY PreparingFacts DEF Allocates, HasIdInPrepare
<1> HIDE DEF id, z
<1>4. CASE HasBuffer(id)
  <2>1. UNCHANGED resourceVariables
    BY <1>4 DEF Allocate, HasBuffer, Entry, id
  <2>2. TypeOK' /\ HandlesNamed'
    <3>1. TypeOK'
      BY <2>1, PreparingFacts, SameProgram DEF VariablesInv, TypeOK
    <3>2. ~IsOp(i, "var_handle")
      BY <1>3 DEF Allocates, IsOp
    <3>3. HandlesNamed'
      BY <2>1, <3>2, TableKept, SameProgram, PreparingFacts DEF VariablesInv, HandlesNamed
    <3>4. QED
      BY <3>1, <3>3
  <2>3. AssignsReady'
    <3> SUFFICES ASSUME NEW j \in Ops, NEW a \in Ids, Allocates(j), j <= i, Key(a) = Named(j)
                 PROVE  HasBuffer(a)
      BY <2>1, TableKept, SameProgram DEF AssignsReady
    <3>1. CASE j = i
      BY <3>1, <1>1, <1>4 DEF VariablesInv, TableNamed
    <3>2. CASE j <= stage
      BY <3>2 DEF VariablesInv, AssignsReady
    <3>3. QED
      BY <3>1, <3>2, PreparingFacts
  <2>4. QED
    BY <2>1, <2>2, <2>3, TableKept DEF VariablesInv
<1>5. CASE ~HasBuffer(id)
  <2>1. Entry(id) \in Entries /\ id + 1 \in DOMAIN resourceVariables
    BY <1>1, EntryFacts DEF VariablesInv, TypeOK
  <2>2. /\ e \in Entries /\ e.container = Entry(id).container /\ e.name = Entry(id).name
        /\ e.buffer = z /\ e.default = z
    BY <1>2, <2>1, EntryUpdate
  <2>3. resourceVariables' = [resourceVariables EXCEPT ![id + 1] = e]
    <3>1. resourceVariables' = [resourceVariables EXCEPT ![id + 1].buffer = z, ![id + 1].default = z]
      BY <1>5 DEF Allocate, HasBuffer, Entry, id, z
    <3>2. QED
      BY <3>1, <2>1 DEF Entry, VariablesInv, TypeOK
  <2> HIDE DEF e
  <2>4. /\ resourceVariables' \in Seq(Entries) /\ Ids' = Ids /\ TableNamed'
        /\ \A a \in Ids : /\ Entry(a)' = (IF a = id THEN e ELSE Entry(a))
                          /\ Key(a)' = Key(a)
                          /\ HasBuffer(a)' <=> (a = id \/ HasBuffer(a))
    BY <1>1, <1>2, <2>2, <2>3, EntryWritten
  <2>5. TypeOK'
    BY <2>4, PreparingFacts, SameProgram DEF VariablesInv, TypeOK
  <2>6. HandlesNamed'
    <3>1. ~IsOp(i, "var_handle")
      BY <1>3 DEF Allocates, IsOp
    <3>2. QED
      BY <3>1, <2>4, SameProgram, PreparingFacts DEF VariablesInv, HandlesNamed
  <2>7. AssignsReady'
    <3> SUFFICES ASSUME NEW j \in Ops, NEW a \in Ids, Allocates(j), j <= i, Key(a) = Named(j)
                 PROVE  a = id \/ HasBuffer(a)
      BY <2>4, SameProgram DEF AssignsReady
    <3>1. CASE j = i
      BY <3>1, <1>1 DEF VariablesInv, TableNamed
    <3>2. CASE j <= stage
      BY <3>2 DEF VariablesInv, AssignsReady
    <3>3. QED
      BY <3>1, <3>2, PreparingFacts
  <2>8. \A j \in Ops : Allocates(j) /\ Named(j) = Key(id) => i <= j
    <3> SUFFICES ASSUME NEW j \in Ops, Allocates(j), Named(j) = Key(id), ~(i <= j)
                 PROVE  FALSE
      OBVIOUS
    <3>1. j <= stage
      BY ProgramFacts, PreparingFacts DEF VariablesInv, TypeOK
    <3>2. QED
      BY <3>1, <1>1, <1>5 DEF VariablesInv, AssignsReady
  <2>9. DefaultsFirst'
    <3> SUFFICES ASSUME NEW a \in Ids, a = id \/ HasBuffer(a)
                 PROVE  \E k \in Ops :
                          /\ Allocates(k) /\ Named(k) = Key(a)
                          /\ \A j \in Ops : Allocates(j) /\ Named(j) = Key(a) => k <= j
                          /\ (IF a = id THEN e ELSE Entry(a)).default = program[k].zeroPoint
      BY <2>4, SameProgram DEF DefaultsFirst
    <3>1. CASE a = id
      BY <3>1, <1>1, <1>3, <2>2, <2>8 DEF z
    <3>2. CASE a # id
      BY <3>2 DEF VariablesInv, DefaultsFirst
    <3>3. QED
      BY <3>1, <3>2
  <2>10. ContentsStored'
    <3>1. Key(id) \notin DOMAIN stored
      BY <1>1, <1>5 DEF VariablesInv, ContentsStored, TableNamed
    <3>2. \A a \in Ids : a = id \/ HasBuffer(a) =>
            (IF a = id THEN e ELSE Entry(a)).buffer =
              IF Key(a) \in DOMAIN stored THEN stored[Key(a)]
              ELSE (IF a = id THEN e ELSE Entry(a)).default
      BY <3>1, <2>2 DEF VariablesInv, ContentsStored
    <3>3. QED
      BY <3>2, <2>4 DEF VariablesInv, ContentsStored
  <2>11. QED
    BY <2>4, <2>5, <2>6, <2>7, <2>9, <2>10 DEF VariablesInv
<1>6. QED
  BY <1>4, <1>5

LEMMA PrepareAssignKeeps ==
  ASSUME VariablesInv, NEW i \in Ops, PrepareAssign(i)
  PROVE  VariablesInv'
<1>1. Preparing(i, "assign")
  BY DEF PrepareAssign
<1>2. CASE /\ HasIdInPrepare(i)
           /\ resourceVariables' = Allocate(InputId(i), program[i].zeroPoint)
           /\ stage' = i /\ UNCHANGED <<program, handleId, stored>>
  BY <1>1, <1>2, AllocateKeeps
<1>3. CASE PrepareFails
  BY <1>3, PrepareFailsKeeps
<1>4. CASE /\ ~HasIdInPrepare(i)
           /\ stage' = i /\ UNCHANGED <<program, resourceVariables, handleId, stored>>
  <2>1. ~IsOp(i, "var_handle")
    BY <1>1 DEF Preparing, IsOp
  <2>2. ~Allocates(i)
    <3> SUFFICES ASSUME Allocates(i) PROVE FALSE
      OBVIOUS
    <3>1. i <= stage + 1
      BY <1>1, PreparingFacts, ProgramFacts DEF VariablesInv, TypeOK
    <3>2. QED
      BY <3>1, <1>4, IdKnown DEF VariablesInv, Allocates, HasIdInPrepare
  <2>3. QED
    BY <1>1, <1>4, <2>1, <2>2, PreparingFacts, StageKeeps
<1>5. QED
  BY <1>2, <1>3, <1>4 DEF PrepareAssign

LEMMA EvalAssignKeeps ==
  ASSUME VariablesInv, NEW i \in Ops, EvalAssign(i)
  PROVE  VariablesInv'
<1> DEFINE id == InputId(i)
<1>1. PICK value \in Values :
        /\ id # None /\ HasBuffer(id)
        /\ resourceVariables' = [resourceVariables EXCEPT ![id + 1].buffer = value]
        /\ stored' = [n \in DOMAIN stored \union {Named(i)} |->
                        IF n = Named(i) THEN value ELSE stored[n]]
        /\ UNCHANGED <<program, handleId, stage>>
  BY DEF EvalAssign, HasBuffer, Entry
<1>2. id \in Ids /\ Key(id) = Named(i)
  BY <1>1, InputIdFacts DEF VariablesInv
<1> HIDE DEF id
<1> DEFINE e == [Entry(id) EXCEPT !.buffer = value]
<1>3. Entry(id) \in Entries /\ id + 1 \in DOMAIN resourceVariables
  BY <1>2, EntryFacts DEF VariablesInv, TypeOK
<1>4. /\ e \in Entries /\ e.container = Entry(id).container /\ e.name = Entry(id).name
      /\ e.buffer = value /\ e.default = Entry(id).default
  BY <1>3, EntryUpdate
<1>5. resourceVariables' = [resourceVariables EXCEPT ![id + 1] = e]
  BY <1>1, <1>3 DEF Entry, VariablesInv, TypeOK
<1>6. value # NullBuffer
  BY ProgramAssumption DEF ProgramAssumption
<1> HIDE DEF e
<1>7. /\ resourceVariables' \in Seq(Entries) /\ Ids' = Ids /\ TableNamed'
      /\ \A a \in Ids : /\ Entry(a)' = (IF a = id THEN e ELSE Entry(a))
                        /\ Key(a)' = Key(a)
                        /\ HasBuffer(a)' <=> HasBuffer(a)
  BY ZenonT(30), <1>1, <1>2, <1>4, <1>5, <1>6, EntryWritten
<1>8. TypeOK'
  BY <1>1, <1>7, SameProgram DEF VariablesInv, TypeOK
<1>9. HandlesNamed'
  BY <1>1, <1>7, SameProgram DEF VariablesInv, HandlesNamed
<1>10. AssignsReady'
  BY <1>1, <1>7, SameProgram DEF VariablesInv, AssignsReady
<1>11. DefaultsFirst'
  <2>1. \A a \in Ids : Entry(a)'.default = Entry(a).default
    BY <1>4, <1>7
  <2>2. QED
    BY <1>1, <1>7, <2>1, SameProgram DEF VariablesInv, DefaultsFirst
<1>12. ContentsStored'
  <2>1. ASSUME NEW n \in DOMAIN stored' PROVE \E a \in Ids : Key(a) = n /\ HasBuffer(a)
    BY <2>1, <1>1, <1>2 DEF VariablesInv, ContentsStored
  <2>2. ASSUME NEW a \in Ids, HasBuffer(a)
        PROVE  (IF a = id THEN e ELSE Entry(a)).buffer =
                 IF Key(a) \in DOMAIN stored' THEN stored'[Key(a)]
                 ELSE (IF a = id THEN e ELSE Entry(a)).default
    <3>1. CASE a = id
      BY <3>1, <1>1, <1>2, <1>4
    <3>2. CASE a # id
      <4>1. Key(a) # Named(i)
        BY <3>2, <1>2, <2>2 DEF VariablesInv, TableNamed
      <4>2. QED
        BY <3>2, <4>1, <1>1, <2>2 DEF VariablesInv, ContentsStored
    <3>3. QED
      BY <3>1, <3>2
  <2>3. QED
    BY <2>1, <2>2, <1>7 DEF ContentsStored
<1>13. QED
  BY <1>7, <1>8, <1>9, <1>10, <1>11, <1>12 DEF VariablesInv

\* Every buffer goes back to its default.
LEMMA ResetKeeps ==
  ASSUME VariablesInv, Reset
  PROVE  VariablesInv'
<1>1. /\ resourceVariables' = ResetAll /\ stage' = Done /\ stored' = Nothing
      /\ UNCHANGED <<program, handleId>> /\ stage \in {Len(program), Done}
  BY DEF Reset
<1> DEFINE After(f) == IF f.buffer = NullBuffer THEN f ELSE [f EXCEPT !.buffer = f.default]
<1>2. ASSUME NEW a \in Ids, HasBuffer(a)
      PROVE  Entry(a).default \in ZeroPoints /\ Entry(a).default # NullBuffer
  BY <1>2, ProgramFacts DEF VariablesInv, TypeOK, DefaultsFirst
<1>3. ASSUME NEW a \in Ids
      PROVE  /\ After(Entry(a)) \in Entries
             /\ After(Entry(a)).container = Entry(a).container
             /\ After(Entry(a)).name = Entry(a).name
             /\ After(Entry(a)).default = Entry(a).default
             /\ (After(Entry(a)).buffer # NullBuffer <=> HasBuffer(a))
             /\ HasBuffer(a) => After(Entry(a)).buffer = Entry(a).default
  <2>1. Entry(a) \in Entries
    BY EntryFacts DEF VariablesInv, TypeOK
  <2>2. CASE HasBuffer(a)
    <3>1. After(Entry(a)) = [Entry(a) EXCEPT !.buffer = Entry(a).default]
      BY <2>2 DEF HasBuffer
    <3> HIDE DEF After
    <3>2. /\ After(Entry(a)) \in Entries
          /\ After(Entry(a)).container = Entry(a).container
          /\ After(Entry(a)).name = Entry(a).name
          /\ After(Entry(a)).default = Entry(a).default
          /\ After(Entry(a)).buffer = Entry(a).default
      BY <2>1, <2>2, <3>1, <1>2 DEF Entries
    <3>3. QED
      BY <2>2, <3>2, <1>2
  <2>3. CASE ~HasBuffer(a)
    BY <2>1, <2>3 DEF HasBuffer
  <2>4. QED
    BY <2>2, <2>3
<1>4. resourceVariables' = [k \in DOMAIN resourceVariables |-> After(resourceVariables[k])]
  BY <1>1 DEF ResetAll
<1> HIDE DEF After
<1>5. resourceVariables' \in Seq(Entries) /\ Len(resourceVariables') = Len(resourceVariables)
  <2>1. \A k \in DOMAIN resourceVariables : After(resourceVariables[k]) \in Entries
    BY <1>3, EntryFacts DEF VariablesInv, TypeOK
  <2>2. DOMAIN resourceVariables = 1..Len(resourceVariables) /\ Len(resourceVariables) \in Nat
    BY DEF VariablesInv, TypeOK
  <2>3. QED
    BY <1>4, <2>1, <2>2
<1>6. Ids' = Ids
  BY <1>5 DEF Ids
<1>7. \A a \in Ids : Entry(a)' = After(Entry(a))
  <2>1. \A a \in Ids : a + 1 \in DOMAIN resourceVariables
    BY EntryFacts DEF VariablesInv, TypeOK
  <2>2. QED
    BY <1>4, <2>1 DEF Entry
<1>8. \A a \in Ids : Key(a)' = Key(a) /\ (HasBuffer(a)' <=> HasBuffer(a))
  BY <1>3, <1>7 DEF Key, HasBuffer
<1>9. TypeOK'
  BY <1>1, <1>5, SameProgram, ProgramFacts DEF VariablesInv, TypeOK, Done
<1>10. TableNamed'
  BY <1>1, <1>6, <1>8, SameProgram DEF VariablesInv, TableNamed
<1>11. \A i \in Ops : i <= stage
  BY <1>1, ProgramFacts DEF VariablesInv, TypeOK, Done
<1>12. HandlesNamed'
  BY <1>1, <1>6, <1>8, <1>11, SameProgram DEF VariablesInv, HandlesNamed
<1>13. AssignsReady'
  BY <1>1, <1>6, <1>8, <1>11, SameProgram DEF VariablesInv, AssignsReady
<1>14. DefaultsFirst'
  <2>1. \A a \in Ids : Entry(a)'.default = Entry(a).default
    BY <1>3, <1>7
  <2>2. QED
    BY <1>1, <1>6, <1>8, <2>1, SameProgram DEF VariablesInv, DefaultsFirst
<1>15. ContentsStored'
  <2>1. DOMAIN stored' = {}
    BY <1>1 DEF Nothing
  <2>2. \A a \in Ids : HasBuffer(a) => Entry(a)'.buffer = Entry(a)'.default
    BY <1>3, <1>7
  <2>3. QED
    BY <1>6, <1>8, <2>1, <2>2 DEF ContentsStored
<1>16. QED
  BY <1>9, <1>10, <1>12, <1>13, <1>14, <1>15 DEF VariablesInv

-----------------------------------------------------------------------------
\* The table, the handles and what is stored keep the invariant, for every model and every
\* order of its operators, through failures, resets and repeated allocation.
THEOREM VariablesInvariance == Spec => []VariablesInv
<1>1. Init => VariablesInv
  <2> SUFFICES ASSUME Init PROVE VariablesInv
    OBVIOUS
  <2>1. program \in Programs /\ Len(program) \in Nat /\ Ops = 1..Len(program)
    BY ProgramFacts DEF Init
  <2>2. Ids = {}
    BY DEF Init, Ids
  <2>3. TypeOK
    BY <2>1 DEF Init, TypeOK, Done
  <2>4. \A i \in Ops : ~(i <= stage) /\ handleId[i] = None
    BY <2>1 DEF Init
  <2>5. DOMAIN stored = {}
    BY DEF Init, Nothing
  <2>6. QED
    BY <2>2, <2>3, <2>4, <2>5
    DEF VariablesInv, TableNamed, HandlesNamed, AssignsReady, DefaultsFirst, ContentsStored
<1>2. VariablesInv /\ [Next]_vars => VariablesInv'
  <2> SUFFICES ASSUME VariablesInv, [Next]_vars PROVE VariablesInv'
    OBVIOUS
  <2>1. CASE UNCHANGED vars
    BY <2>1, StageKeeps DEF vars, VariablesInv, TypeOK
  <2>2. ASSUME NEW i \in Ops, PrepareVarHandle(i) PROVE VariablesInv'
    BY <2>2, PrepareVarHandleKeeps
  <2>3. ASSUME NEW i \in Ops, PrepareAssign(i) PROVE VariablesInv'
    BY <2>3, PrepareAssignKeeps
  <2>4. ASSUME NEW i \in Ops, PrepareRead(i) PROVE VariablesInv'
    BY <2>4, PrepareReadKeeps
  <2>5. ASSUME NEW i \in Ops, EvalAssign(i) PROVE VariablesInv'
    BY <2>5, EvalAssignKeeps
  <2>6. CASE Reset
    BY <2>6, ResetKeeps
  <2>7. CASE AllocateTensors
    BY <2>7, AllocateTensorsKeeps
  <2>8. QED
    BY <2>1, <2>2, <2>3, <2>4, <2>5, <2>6, <2>7 DEF Next
<1>3. QED
  BY <1>1, <1>2, PTL DEF Spec

\* Handles have equal ids exactly when they name the same variable, for every model whose
\* containers are all null or all given.
THEOREM IdsIdentifyAlways == Spec => []IdsIdentify
<1>1. VariablesInv => IdsIdentify
  BY DEF VariablesInv, HandlesNamed, TableNamed, IdsIdentify
<1>2. QED
  BY <1>1, VariablesInvariance, PTL

\* The variable an operator reads, when the model is allocated.
LEMMA ReadFacts ==
  ASSUME VariablesInv, stage = Done, NEW i \in Ops, IsOp(i, "read")
  PROVE  /\ InputId(i) # None /\ InputId(i) \in Ids /\ Key(InputId(i)) = Named(i)
         /\ HasBuffer(InputId(i)) /\ Read(i) = Entry(InputId(i)).buffer
<1>1. InputId(i) # None /\ InputId(i) \in Ids /\ Key(InputId(i)) = Named(i)
  BY IdKnown, InputIdFacts DEF VariablesInv
<1>2. PICK j \in Ops : Allocates(j) /\ Named(j) = Named(i)
  BY ProgramFacts DEF VariablesInv, TypeOK
<1>3. j <= stage
  BY ProgramFacts DEF VariablesInv, TypeOK, Done
<1>4. HasBuffer(InputId(i))
  BY <1>1, <1>2, <1>3 DEF VariablesInv, AssignsReady
<1>5. QED
  BY <1>1, <1>4 DEF Read, Entry

\* Every variable that is read in Invoke has a buffer, whichever subgraph allocates it.
THEOREM BuffersReadyAlways == Spec => []BuffersReady
<1>1. VariablesInv => BuffersReady
  BY ReadFacts DEF BuffersReady, HasBuffer
<1>2. QED
  BY <1>1, VariablesInvariance, PTL

\* A READ delivers what was stored last under its name, or the zero point of the first ASSIGN
\* of its variable, whatever ran before it.
THEOREM ReadsLatestAlways == Spec => []ReadsLatest
<1>1. VariablesInv => ReadsLatest
  <2> SUFFICES ASSUME VariablesInv, stage = Done, NEW i \in Ops, IsOp(i, "read")
               PROVE  Read(i) = IF Named(i) \in DOMAIN stored THEN stored[Named(i)] ELSE ZeroPoint(i)
    BY DEF ReadsLatest
  <2> DEFINE S == {j \in Ops : IsOp(j, "assign") /\ ~program[j].passed /\ Named(j) = Named(i)}
  <2>1. PICK k \in Ops : /\ Allocates(k) /\ Named(k) = Named(i)
                         /\ \A j \in Ops : Allocates(j) /\ Named(j) = Named(i) => k <= j
                         /\ Entry(InputId(i)).default = program[k].zeroPoint
    BY ReadFacts DEF VariablesInv, DefaultsFirst
  <2>2. S \in SUBSET Nat /\ k \in S /\ \A j \in S : k <= j
    BY <2>1, ProgramFacts DEF VariablesInv, TypeOK, Allocates
  <2>3. Min(S) = k
    <3> HIDE DEF S
    <3>1. Min(S) \in S /\ Min(S) <= k /\ k <= Min(S)
      BY <2>2, MinFacts
    <3>2. Min(S) \in Nat /\ k \in Nat
      BY <3>1, <2>2
    <3>3. QED
      BY <3>1, <3>2
  <2>4. ZeroPoint(i) = Entry(InputId(i)).default
    BY <2>1, <2>3 DEF ZeroPoint
  <2>5. QED
    BY <2>4, ReadFacts DEF VariablesInv, ContentsStored
<1>2. QED
  BY <1>1, VariablesInvariance, PTL
=============================================================================
