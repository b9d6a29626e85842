----------------------------- MODULE ShortCodes -----------------------------
(***************************************************************************)
(* The short codes of new links: ShortCodeGenerator, and the pool of       *)
(* UrlsService with the attempts of create.                                *)
(*                                                                         *)
(* A request that finds the pool empty fills it, and everything it awaits  *)
(* there is decided at once (randomBytes has no callback): it goes on in   *)
(* the same turn of the event loop, and only requests that were woken in   *)
(* this turn interleave with it.  A turn wakes several requests when one   *)
(* read of a connection brings several answers, or its loss several        *)
(* errors.  create then waits for the database, until a later turn.        *)
(***************************************************************************)
EXTENDS Integers, Sequences, FiniteSets

CONSTANTS
  alphabet,        \* the characters, in their order
  mask, codeLength,
  BATCH_SIZE, RETRY_ATTEMPTS,
  Requests,        \* the calls of create
  Constructor,     \* new UrlsService(), which fills the pool too
  NoItem           \* what pop() returns for an empty array

Fillers == Requests \cup {Constructor}

\* `this.alphabet[bytes[i] & this.mask]`, and join('') leaves out what is undefined.
InAlphabet(index) == index < Len(alphabet)

generate(bytes) ==
  LET known == SelectSeq(bytes, InAlphabet)
  IN  [i \in DOMAIN known |-> alphabet[known[i] + 1]]

ShortCodes == {generate(bytes) : bytes \in [1..codeLength -> 0..mask]}

\* A code is known by the batch it comes from.
Items == [code : ShortCodes, batch : Nat]

\* With fewer codes than a batch has, generateBatch never ends.
ASSUME PoolAssumption ==
  /\ BATCH_SIZE \in Nat \ {0} /\ RETRY_ATTEMPTS \in Nat \ {0}
  /\ Constructor \notin Requests
  /\ IsFiniteSet(Requests)
  /\ NoItem \notin Items
ASSUME GeneratorAssumption ==
  /\ mask \in Nat /\ codeLength \in Nat
  /\ \E S \in SUBSET ShortCodes : IsFiniteSet(S) /\ Cardinality(S) = BATCH_SIZE

VARIABLES
  codePool,
  phase,     \* where a call is
  batch,     \* what a generateBatch has generated
  given,     \* history: what getNextCode returned to a request, attempt by attempt
  batches,   \* history: the batches that were finished
  turn       \* history: the requests that this turn of the event loop woke

vars == <<codePool, phase, batch, given, batches, turn>>

Phases == {"checking", "ready", "filling", "filled", "inserting", "created", "refused"}

\* Calls that the event loop runs in this turn, before any other answer arrives
Running(r) == phase[r] \in {"ready", "filling", "filled"}
Quiet      == \A r \in Fillers : ~Running(r)

TypeOK ==
  /\ codePool \in Seq(Items)
  /\ phase \in [Fillers -> Phases]
  /\ batch \in [Fillers -> Seq(ShortCodes)]
  /\ \A r \in Fillers : Len(batch[r]) <= BATCH_SIZE
  /\ given \in [Requests -> Seq(Items \cup {NoItem})]
  /\ \A r \in Requests : Len(given[r]) <= RETRY_ATTEMPTS
  /\ batches \in Nat
  /\ turn \subseteq Requests

Init ==
  /\ codePool = <<>>
  /\ phase = [r \in Fillers |-> IF r = Constructor THEN "filling" ELSE "checking"]
  /\ batch = [r \in Fillers |-> <<>>]
  /\ given = [r \in Requests |-> <<>>]
  /\ batches = 0
  /\ turn = {}

-----------------------------------------------------------------------------
(* Turns of the event loop *)

\* checkUrl finds the address of the link harmful.
Unsafe(r) ==
  /\ Quiet
  /\ phase[r] = "checking"
  /\ phase' = [phase EXCEPT ![r] = "refused"]
  /\ turn' = {}
  /\ UNCHANGED <<codePool, batch, given, batches>>

Created(r) ==
  /\ Quiet
  /\ phase[r] = "inserting"
  /\ phase' = [phase EXCEPT ![r] = "created"]
  /\ turn' = {}
  /\ UNCHANGED <<codePool, batch, given, batches>>

\* The addresses of the requests S are safe, or their last attempts have failed.
Wake(S) ==
  /\ Quiet
  /\ S # {}
  /\ \A r \in S : phase[r] \in {"checking", "inserting"}
  /\ phase' = [r \in Fillers |->
                 IF r \notin S THEN phase[r]
                 ELSE IF Len(given[r]) < RETRY_ATTEMPTS THEN "ready" ELSE "refused"]
  /\ turn' = S
  /\ UNCHANGED <<codePool, batch, given, batches>>

-----------------------------------------------------------------------------
(* getNextCode *)

\* this.codePool.pop()!
Pop(r) ==
  /\ given' = [given EXCEPT ![r] =
                 Append(@, IF codePool = <<>> THEN NoItem ELSE codePool[Len(codePool)])]
  /\ codePool' = IF codePool = <<>> THEN <<>> ELSE SubSeq(codePool, 1, Len(codePool) - 1)
  /\ phase' = [phase EXCEPT ![r] = "inserting"]
  /\ UNCHANGED <<batch, batches, turn>>

\* The slip of reading the last element instead of taking it.
Pop_At(r) ==
  /\ given' = [given EXCEPT ![r] =
                 Append(@, IF codePool = <<>> THEN NoItem ELSE codePool[Len(codePool)])]
  /\ phase' = [phase EXCEPT ![r] = "inserting"]
  /\ UNCHANGED <<codePool, batch, batches, turn>>

\* The slip of not looking whether there is a code.
getNextCode_Unfilled(r) == phase[r] = "ready" /\ Pop(r)

getNextCode(r) ==
  /\ phase[r] = "ready"
  /\ \/ codePool # <<>> /\ Pop(r)
     \/ /\ codePool = <<>>
        /\ phase' = [phase EXCEPT ![r] = "filling"]
        /\ UNCHANGED <<codePool, batch, given, batches, turn>>

\* The slip of a set that is asked before the code is generated.
generateBatch_AskedBefore(r, code) ==
  /\ phase[r] = "filling"
  /\ Len(batch[r]) < BATCH_SIZE
  /\ batch' = [batch EXCEPT ![r] = Append(@, code)]
  /\ UNCHANGED <<codePool, phase, given, batches, turn>>

\* One of the closures of generateBatch gets its code.  A code that another closure has
\* is thrown away; between has() and add() nothing is awaited.
generateBatch(r, code) ==
  /\ phase[r] = "filling"
  /\ Len(batch[r]) < BATCH_SIZE
  /\ \A i \in DOMAIN batch[r] : batch[r][i] # code
  /\ batch' = [batch EXCEPT ![r] = Append(@, code)]
  /\ UNCHANGED <<codePool, phase, given, batches, turn>>

Stamped(s) == [i \in DOMAIN s |-> [code |-> s[i], batch |-> batches + 1]]

\* this.codePool.push(...), once every closure has its code
initializeCodePool(r) ==
  /\ phase[r] = "filling"
  /\ Len(batch[r]) = BATCH_SIZE
  /\ codePool' = codePool \o Stamped(batch[r])
  /\ batches' = batches + 1
  /\ batch' = [batch EXCEPT ![r] = <<>>]
  /\ phase' = [phase EXCEPT ![r] = IF r = Constructor THEN "created" ELSE "filled"]
  /\ UNCHANGED <<given, turn>>

\* getNextCode goes on after it has filled the pool, and does not look again.
Filled(r) == phase[r] = "filled" /\ Pop(r)

Next ==
  \/ \E r \in Requests : Unsafe(r) \/ Created(r)
  \/ \E S \in SUBSET Requests : Wake(S)
  \/ \E r \in Requests : getNextCode(r) \/ Filled(r)
  \/ \E r \in Fillers : initializeCodePool(r) \/ \E code \in ShortCodes : generateBatch(r, code)

Spec == Init /\ [][Next]_vars

-----------------------------------------------------------------------------
(* Properties *)

\* Two attempts, of one request or of two, get the same code only out of two batches:
\* the pool hands nothing out twice, however its fillers overlap, and a batch does not
\* repeat itself (urls.service.ts:56-65, short-code.generator.ts:37-56).
RepeatsCrossBatches ==
  \A r, s \in Requests : \A i \in DOMAIN given[r], j \in DOMAIN given[s] :
    LET one == given[r][i]
        two == given[s][j]
    IN  <<r, i>> # <<s, j>> /\ one # NoItem /\ two # NoItem /\ one.code = two.code
          => one.batch # two.batch

\* `pop()!` is right as long as a turn wakes no more requests than a batch has codes.
\* With more, those that did not wait may empty the pool that a waiting one has just
\* filled (urls.service.ts:60-65).
PopServes ==
  \A r \in turn :
    phase[r] = "inserting" /\ given[r][Len(given[r])] = NoItem
      => Cardinality(turn) > BATCH_SIZE
=============================================================================
