-------------------------- MODULE WalletKvEngine --------------------------
(***************************************************************************)
(* The key-value engine of platform-storage (kv-engine/walletKvEngine.ts)  *)
(* on the wallet's IndexedDB store (local/indexedDbWalletStore.ts).  A     *)
(* namespace has partitions; a partition is one head record (revision and, *)
(* for every key, a reference to a value object) replaced by               *)
(* compare-and-swap; value objects have fresh ids, are never rewritten,    *)
(* and are shared by the keys of one head that hold the same content.      *)
(* Every request opens a handle of its own on the namespace, so commits,   *)
(* reads and the garbage collection interleave at every transaction of the *)
(* store.  A handle is judged before and after every transaction: it goes  *)
(* stale, at any moment, when the session gets a new epoch (lock, unlock,  *)
(* password change), and for good when the wallet is reset.                *)
(***************************************************************************)
EXTENDS Naturals, FiniteSets, Sequences

CONSTANTS
    Writers,        \* handles with a commit under way
    Readers,        \* handles with a get or a list under way
    Partitions,     \* partitions of the namespace
    Keys, Contents, \* the keys and the contents (by their hash) of values
    Ids,            \* the ids of value objects: random, never drawn twice
    Nothing, Keep, Unconditional,
    MaxAttempts,    \* MAX_AUTOMATIC_COMMIT_RETRIES: 8 in the code
    MaxCommits,     \* bound: no commit starts once so many have landed
    MaxClears       \* bound: resets of the wallet (only KvResetSpec has them)

ASSUME KvAssumption ==
    /\ MaxAttempts \in Nat \ {0}
    /\ MaxCommits \in Nat
    /\ MaxClears \in Nat
    /\ Nothing \notin Contents \cup Ids \cup [id : Ids, content : Contents]
    /\ Keep \notin Contents \cup {Nothing}
    /\ Unconditional \notin Nat

VARIABLES
    heads,      \* [Partitions -> the head record]
    stored,     \* [Ids -> the value object's content, or Nothing]
    allocated,  \* ids drawn so far
    queue,      \* write transactions the database has yet to run, in order
    writer,     \* [Writers -> where its commit stands]
    op,         \* [Writers -> what it commits]
    plan,       \* [Writers -> the head it read and the entries it will write]
    reader,     \* [Readers -> where its read stands]
    page,       \* [Readers -> the references it took from a head]
    gc,         \* where the collection stands
    gcEra,      \* the wallet its handle belongs to
    listed,     \* value objects the collection has listed
    used,       \* ids it has found in the heads
    unread,     \* heads it has yet to read
    wallet,     \* "open", or how far a reset of the wallet is
    clears,     \* resets that have emptied the store
    late        \* a commit has landed in a store emptied since it began

storeVars == <<heads, stored, allocated>>
walletVars == <<wallet, clears, late>>
gcVars == <<gc, gcEra, listed, used, unread>>
kvVars == <<heads, stored, allocated, queue, writer, op, plan, reader, page,
            gc, gcEra, listed, used, unread, wallet, clears, late>>

Ref == [id : Ids, content : Contents]
Entries == [Keys -> Ref \cup {Nothing}]
HeadRecord == [revision : Nat, entries : Entries]
NoHead == [revision |-> 0, entries |-> [k \in Keys |-> Nothing]]
Writes == [Keys -> Contents \cup {Nothing, Keep}]
NoOp == [p |-> Nothing, write |-> Nothing, cond |-> Unconditional, attempt |-> 0, era |-> 0]
NoPlan == [base |-> NoHead, next |-> NoHead.entries]
NoPage == [p |-> Nothing, revision |-> 0, refs |-> {}, era |-> 0]

\* Requests are served until a reset has emptied the store.
Serving == wallet \in {"open", "resetting"}

\* isCurrent: a handle opened before a reset is stale once that is published.
Current(era) == era = clears \/ wallet = "cleared"

RefsOf(entries) == {entries[k] : k \in {j \in Keys : entries[j] # Nothing}}
ContentsOf(entries) ==
    [k \in DOMAIN entries |-> IF entries[k] = Nothing THEN Nothing ELSE entries[k].content]
IdsOf(entries) == {r.id : r \in RefsOf(entries)}
Answered == {"idle", "ok", "conflict", "unavailable"}

KvInit ==
    /\ heads = [p \in Partitions |-> NoHead]
    /\ stored = [i \in Ids |-> Nothing]
    /\ allocated = {}
    /\ writer = [w \in Writers |-> "idle"]
    /\ op = [w \in Writers |-> NoOp]
    /\ plan = [w \in Writers |-> NoPlan]
    /\ reader = [r \in Readers |-> "idle"]
    /\ page = [r \in Readers |-> NoPage]
    /\ gc = "idle" /\ gcEra = 0 /\ listed = {} /\ used = {} /\ unread = {}
    /\ queue = <<>>
    /\ wallet = "open" /\ clears = 0 /\ late = FALSE
-----------------------------------------------------------------------------
(* Commits                                                                 *)

\* The commit of writer w ends with an answer to its caller.
AnswerCommit(w, answer) ==
    /\ writer' = [writer EXCEPT ![w] = answer]
    /\ op' = [op EXCEPT ![w] = NoOp]
    /\ plan' = [plan EXCEPT ![w] = NoPlan]

\* put, delete and commit on a freshly opened handle: one input for a
\* partition, free or bound to the revision the caller last saw.
StartCommit(w) ==
    /\ Serving
    /\ writer[w] \in Answered
    /\ writer' = [writer EXCEPT ![w] = "head"]
    /\ \E p \in Partitions, write \in Writes : \E cond \in {Unconditional, heads[p].revision} :
         /\ Cardinality({c \in Partitions \X (1 .. MaxCommits) : c[2] <= heads[c[1]].revision}) < MaxCommits
         /\ \E k \in Keys : write[k] # Keep
         /\ op' = [op EXCEPT ![w] = [p |-> p, write |-> write, cond |-> cond,
                                     attempt |-> 1, era |-> clears]]
    /\ UNCHANGED <<storeVars, queue, plan, reader, page, gcVars, walletVars>>

\* allocateReference: a content the head already refers to keeps its value
\* object, any other one gets an object of its own with a fresh id.
Allocates(idOf, base, write) ==
    LET new == {c \in DOMAIN idOf : \A r \in RefsOf(base) : r.content # c}
    IN  /\ \A c \in DOMAIN idOf \ new : [id |-> idOf[c], content |-> c] \in RefsOf(base)
        /\ \A c \in new : idOf[c] \notin allocated
        /\ \A c, d \in new : idOf[c] = idOf[d] => c = d

PutContents(write) == {write[k] : k \in Keys} \ {Nothing, Keep}

NextEntries(base, write, idOf) ==
    [k \in Keys |->
        IF write[k] = Keep THEN base[k]
        ELSE IF write[k] = Nothing THEN Nothing
        ELSE [id |-> idOf[write[k]], content |-> write[k]]]

Changed(base, write) == \E k \in Keys : write[k] \notin {Keep, ContentsOf(base)[k]}

\* commitUnlocked up to the transaction: when the head is read the commit is
\* judged and its batch queued in the same turn; a stale handle, another
\* revision and an input without effect end the commit here.
ReadHead(w) ==
    LET p == op[w].p
        write == op[w].write
        base == heads[p]
    IN  /\ writer[w] = "head"
        /\ \/ /\ AnswerCommit(w, "unavailable")
              /\ UNCHANGED <<allocated, queue>>
           \/ /\ Current(op[w].era)
              /\ op[w].cond \notin {Unconditional, base.revision}
              /\ AnswerCommit(w, "conflict")
              /\ UNCHANGED <<allocated, queue>>
           \/ /\ Current(op[w].era)
              /\ op[w].cond \in {Unconditional, base.revision}
              /\ ~Changed(base.entries, write)
              /\ AnswerCommit(w, "ok")
              /\ UNCHANGED <<allocated, queue>>
           \/ /\ Current(op[w].era)
              /\ op[w].cond \in {Unconditional, base.revision}
              /\ Changed(base.entries, write)
              /\ \E idOf \in [PutContents(write) -> Ids] :
                   /\ Allocates(idOf, base.entries, write)
                   /\ allocated' = allocated \cup {idOf[c] : c \in DOMAIN idOf}
                   /\ plan' = [plan EXCEPT ![w] =
                          [base |-> base,
                           next |-> NextEntries(base.entries, write, idOf)]]
              /\ writer' = [writer EXCEPT ![w] = "batch"]
              /\ queue' = Append(queue, w)
              /\ UNCHANGED op
        /\ UNCHANGED <<heads, stored, reader, page, gcVars, walletVars>>

\* The objects a commit writes: those of its entries its base does not have.
StoredWith(w) ==
    LET new == RefsOf(plan[w].next) \ RefsOf(plan[w].base.entries)
    IN  [i \in Ids |-> IF \E r \in new : r.id = i
                       THEN (CHOOSE r \in new : r.id = i).content
                       ELSE stored[i]]

\* Mutant of Batch: the head is put without its condition.
BatchUnconditional(w) ==
    /\ writer[w] = "batch"
    /\ queue # <<>> /\ Head(queue) = w
    /\ queue' = Tail(queue)
    /\ heads' = [heads EXCEPT ![op[w].p] =
           [revision |-> plan[w].base.revision + 1, entries |-> plan[w].next]]
    /\ stored' = StoredWith(w)
    /\ writer' = [writer EXCEPT ![w] = "landed"]
    /\ UNCHANGED <<allocated, op, plan, reader, page, gcVars, walletVars>>

\* The transaction of the batch: the head is replaced and the new objects are
\* written if the head still has the revision that was read, else nothing is.
\* A commit without condition then starts over, up to MaxAttempts times.
Batch(w) ==
    LET p == op[w].p
        base == plan[w].base
    IN  /\ writer[w] = "batch"
        /\ queue # <<>> /\ Head(queue) = w
        /\ queue' = Tail(queue)
        /\ \/ /\ heads[p].revision = base.revision
              /\ heads' = [heads EXCEPT ![p] =
                     [revision |-> base.revision + 1, entries |-> plan[w].next]]
              /\ stored' = StoredWith(w)
              /\ writer' = [writer EXCEPT ![w] = "landed"]
              /\ late' = (late \/ op[w].era # clears)
              /\ UNCHANGED <<op, plan>>
           \/ /\ heads[p].revision # base.revision
              /\ op[w].cond = Unconditional /\ op[w].attempt < MaxAttempts
              /\ writer' = [writer EXCEPT ![w] = "head"]
              /\ op' = [op EXCEPT ![w].attempt = op[w].attempt + 1]
              /\ plan' = [plan EXCEPT ![w] = NoPlan]
              /\ UNCHANGED <<heads, stored, late>>
           \/ /\ heads[p].revision # base.revision
              /\ op[w].cond # Unconditional \/ op[w].attempt >= MaxAttempts
              /\ AnswerCommit(w, "conflict")
              /\ UNCHANGED <<heads, stored, late>>
        /\ UNCHANGED <<allocated, reader, page, gcVars, wallet, clears>>

\* The transaction aborts (no room, the database fails): nothing is written.
BatchFails(w) ==
    /\ writer[w] = "batch"
    /\ queue # <<>> /\ Head(queue) = w
    /\ queue' = Tail(queue)
    /\ AnswerCommit(w, "unavailable")
    /\ UNCHANGED <<storeVars, reader, page, gcVars, walletVars>>

\* After the transaction the handle is judged once more: the caller of a
\* commit that landed on a handle gone stale is told it is unavailable.
Landed(w) ==
    /\ writer[w] = "landed"
    /\ \/ Current(op[w].era) /\ AnswerCommit(w, "ok")
       \/ AnswerCommit(w, "unavailable")
    /\ UNCHANGED <<storeVars, queue, reader, page, gcVars, walletVars>>
-----------------------------------------------------------------------------
(* Reads                                                                   *)

\* get and list: the references of the keys asked for, from one head.
Read(r) ==
    /\ Serving
    /\ reader[r] # "values"
    /\ reader' = [reader EXCEPT ![r] = "values"]
    /\ \E p \in Partitions : \E keys \in SUBSET Keys \ {{}} :
         page' = [page EXCEPT ![r] =
             [p |-> p, revision |-> heads[p].revision,
              era |-> clears,
              refs |-> {q \in RefsOf(heads[p].entries) :
                           \E k \in keys : heads[p].entries[k] = q}]]
    /\ UNCHANGED <<storeVars, queue, writer, op, plan, gcVars, walletVars>>

AnswerRead(r, answer) ==
    /\ reader' = [reader EXCEPT ![r] = answer]
    /\ page' = [page EXCEPT ![r] = NoPage]

\* loadValue, one transaction per value: one that is gone fails the read.
LoadValue(r, ref) ==
    /\ reader[r] = "values"
    /\ ref \in page[r].refs
    /\ \/ /\ Current(page[r].era)
          /\ stored[ref.id] = ref.content
          /\ page' = [page EXCEPT ![r].refs = page[r].refs \ {ref}]
          /\ UNCHANGED reader
       \/ /\ Current(page[r].era)
          /\ stored[ref.id] # ref.content
          /\ AnswerRead(r, "missing")
       \/ AnswerRead(r, "unavailable")
    /\ UNCHANGED <<storeVars, queue, writer, op, plan, gcVars, walletVars>>

ReadEnds(r) ==
    /\ reader[r] = "values"
    /\ page[r].refs = {}
    /\ AnswerRead(r, "ok")
    /\ UNCHANGED <<storeVars, queue, writer, op, plan, gcVars, walletVars>>
-----------------------------------------------------------------------------
(* Garbage collection: list the objects, read the heads, delete            *)

GcStart ==
    /\ Serving
    /\ gc = "idle"
    /\ gc' = "listing"
    /\ gcEra' = clears
    /\ UNCHANGED <<storeVars, queue, writer, op, plan, reader, page, listed, used,
                   unread, walletVars>>

\* One page of the list of value objects; they are listed by path, and an id
\* written meanwhile may lie before or after the page.
GcList ==
    /\ gc = "listing"
    /\ Current(gcEra)
    /\ \E some \in SUBSET {i \in Ids \ listed : stored[i] # Nothing} :
         /\ some # {}
         /\ listed' = listed \cup some
    /\ UNCHANGED <<storeVars, queue, gc, gcEra, used, unread, writer, op, plan, reader,
                   page, walletVars>>

\* The list is complete; the heads are listed.
GcListed ==
    /\ gc = "listing"
    /\ Current(gcEra)
    /\ gc' = "heads"
    /\ unread' = {p \in Partitions : heads[p].revision > 0}
    /\ UNCHANGED <<storeVars, queue, gcEra, listed, used, writer, op, plan, reader, page,
                   walletVars>>

GcReadHead(p) ==
    /\ gc = "heads"
    /\ Current(gcEra)
    /\ p \in unread
    /\ unread' = unread \ {p}
    /\ used' = used \cup IdsOf(heads[p].entries)
    /\ UNCHANGED <<storeVars, queue, gc, gcEra, listed, writer, op, plan, reader, page,
                   walletVars>>

\* Mutant of GcSweep: the sweep begins before every head of the namespace has
\* been read, as if the value objects belonged to one partition.
GcSweepEarly ==
    /\ gc = "heads"
    /\ Current(gcEra)
    /\ gc' = "sweep"
    /\ listed' = listed \ used
    /\ used' = {}
    /\ unread' = {}
    /\ UNCHANGED <<storeVars, queue, gcEra, writer, op, plan, reader, page,
                   walletVars>>

\* All heads are read: what is listed and not used is to be deleted.
GcSweep ==
    /\ gc = "heads"
    /\ Current(gcEra)
    /\ unread = {}
    /\ gc' = "sweep"
    /\ listed' = listed \ used
    /\ used' = {}
    /\ UNCHANGED <<storeVars, queue, gcEra, unread, writer, op, plan, reader, page,
                   walletVars>>

\* One candidate is read and deleted, or kept: it is too young, the limit of
\* deletions is reached, or the deletion fails.  Objects are never rewritten,
\* so the deletion conditional on the revision read finds it or finds nothing.
GcDelete(i) ==
    /\ gc = "sweep"
    /\ Current(gcEra)
    /\ i \in listed
    /\ listed' = listed \ {i}
    /\ stored' \in {[stored EXCEPT ![i] = Nothing], stored}
    /\ UNCHANGED <<heads, allocated, queue, gc, gcEra, used, unread, writer, op, plan,
                   reader, page, walletVars>>

\* The collection is through, or it fails: its handle has gone stale.
GcEnds ==
    /\ gc # "idle"
    /\ gc' = "idle" /\ gcEra' = 0 /\ listed' = {} /\ used' = {} /\ unread' = {}
    /\ UNCHANGED <<storeVars, queue, writer, op, plan, reader, page, walletVars>>
-----------------------------------------------------------------------------
(* Resets of the wallet (walletLifecycleService.ts)                        *)

\* resetWallet revokes the grants and queues one transaction that empties the
\* store; neither does it wait for the requests under way nor do their handles
\* go stale.
ResetWallet ==
    /\ wallet = "open"
    /\ clears < MaxClears
    /\ wallet' = "resetting"
    /\ queue' = Append(queue, "clear")
    /\ UNCHANGED <<storeVars, writer, op, plan, reader, page, gcVars, clears, late>>

ClearStore ==
    /\ queue # <<>> /\ Head(queue) = "clear"
    /\ queue' = Tail(queue)
    /\ wallet' = "cleared"
    /\ clears' = clears + 1
    /\ heads' = [p \in Partitions |-> NoHead]
    /\ stored' = [i \in Ids |-> Nothing]
    /\ UNCHANGED <<allocated, writer, op, plan, reader, page, gcVars, late>>

\* The reset is published: the wallet has no generation, no handle is current.
ResetDone ==
    /\ wallet = "cleared"
    /\ wallet' = "empty"
    /\ UNCHANGED <<storeVars, queue, writer, op, plan, reader, page, gcVars,
                   clears, late>>

\* A wallet is created; its first transaction is queued behind all others.
NewWallet ==
    /\ wallet = "empty"
    /\ queue = <<>>
    /\ wallet' = "open"
    /\ UNCHANGED <<storeVars, queue, writer, op, plan, reader, page, gcVars,
                   clears, late>>

CommitNext(w) == StartCommit(w) \/ ReadHead(w) \/ Batch(w) \/ BatchFails(w) \/ Landed(w)
ReadNext(r) == Read(r) \/ (\E ref \in page[r].refs : LoadValue(r, ref)) \/ ReadEnds(r)
GcNext ==
    \/ GcStart \/ GcList \/ GcListed \/ GcSweep \/ GcEnds
    \/ \E p \in Partitions : GcReadHead(p)
    \/ \E i \in Ids : GcDelete(i)
ResetNext == ResetWallet \/ ClearStore \/ ResetDone \/ NewWallet

KvNext ==
    \/ \E w \in Writers : CommitNext(w)
    \/ \E r \in Readers : ReadNext(r)
    \/ GcNext

KvSpec == KvInit /\ [][KvNext]_kvVars

\* The same engine under a wallet that may be reset.
KvResetSpec == KvInit /\ [][KvNext \/ ResetNext]_kvVars
-----------------------------------------------------------------------------
(* Properties                                                              *)

\* The records of the engine are well formed (kv-engine/kvValueCodec.ts).
KvTypeOK ==
    /\ heads \in [Partitions -> HeadRecord]
    /\ stored \in [Ids -> Contents \cup {Nothing}]
    /\ allocated \subseteq Ids
    /\ writer \in [Writers -> {"head", "batch", "landed"} \cup Answered]
    /\ op \in [Writers -> [p : Partitions, write : Writes, cond : Nat \cup {Unconditional},
                           attempt : Nat, era : Nat] \cup {NoOp}]
    /\ \A w \in Writers : writer[w] \in {"head", "batch"} => op[w] # NoOp
    /\ plan \in [Writers -> [base : HeadRecord, next : Entries]]
    /\ gc \in {"idle", "listing", "heads", "sweep"}
    /\ listed \subseteq Ids /\ used \subseteq Ids /\ unread \subseteq Partitions
    /\ clears \in Nat

\* Every value a head refers to is in the store, with the content the head
\* records: no collection, whatever it interleaves with, deletes a value that
\* is in use or comes into use again.
HeadsIntact ==
    \A p \in Partitions : \A r \in RefsOf(heads[p].entries) : stored[r.id] = r.content

\* The map of a partition is what its head records; a commit has taken effect
\* once its batch has landed; a read has seen the head whose values it loads.
storeMap ==
    [p \in Partitions |-> [revision |-> heads[p].revision,
                           contents |-> ContentsOf(heads[p].entries)]]
storeCall ==
    [w \in Writers |->
        [status |-> IF writer[w] \in {"head", "batch"} THEN "called"
                    ELSE IF writer[w] = "landed" THEN "applied" ELSE writer[w],
         p |-> op[w].p, write |-> op[w].write, cond |-> op[w].cond]]
storeView ==
    [r \in Readers |->
        [status |-> IF reader[r] = "values" THEN "seen" ELSE reader[r],
         p |-> page[r].p, revision |-> page[r].revision, era |-> page[r].era]]

Store == INSTANCE KvStore WITH
    map <- storeMap, call <- storeCall, view <- storeView, resets <- clears

\* The engine keeps the promise of KvStore.
KvStoreSpec == Store!StoreSpec

\* What the comments on resetWallet and on the drain of storage requests say:
\* a write that began before a reset is refused and never lands in the store
\* the reset has emptied.
LateWritesRefused == ~late
=============================================================================
