----------------------------- MODULE ContentStore -----------------------------
(***************************************************************************)
(* apps/backend: compilation into the persistent store and retrieval from   *)
(* it (compile.ts, store.ts, retrieval.ts, index.ts), with the stores and   *)
(* the retrieval engine of packages/knowledge-base behind them.             *)
(*                                                                         *)
(* A job is one call of compileIntoStore(): it lists the source, reads the  *)
(* files one after another, an await each, and then compiles and loads in   *)
(* one go.  Nothing keeps two jobs apart, nor a job from an edit of the     *)
(* source.  The block store keeps what earlier loads have put in it; the    *)
(* four indexes hold the last model only.  The source directory is flat, so *)
(* a listing is one step.                                                   *)
(***************************************************************************)
EXTENDS Compiler

CONSTANTS
  Job,       \* calls of compileIntoStore() that may go on at a time
  File,      \* contents a source file can have
  PathOrder, \* the order in which the source is listed
  PageLimit, \* page limits a consumer asks for
  TitlesWith,\* TitlesWith[t]: the titles a non-empty text t is part of
  MaxEdits,  \* bound on the edits of the source
  MaxLoadTime \* bound on the times of loads

ASSUME StoreAssumption ==
  /\ deriveDocumentId \in [Path -> Nat]
  /\ PathOrder \in Seq(Path) /\ ToSet(PathOrder) = Path /\ IsInjective(PathOrder)
  /\ \A f \in File : /\ f.headings \in Seq([level : Nat, title : Title])
                     /\ f.relationships \in Seq(ToSet(f.relationships))
  /\ \A t \in DOMAIN TitlesWith : TitlesWith[t] \subseteq Title
  /\ PageLimit \subseteq Nat \ {0}
  /\ MaxLoadTime \in Nat \ {0} /\ MaxEdits \in Nat

ASSUME NullAssumption == Null \notin Nat \union File \union (Nat \X Seq(Nat))

VARIABLES
  source,            \* the working copy: the file at a path, or Null
  edits,             \* bounded by MaxEdits
  job,               \* phase, paths still to read, what has been read
  documentsById, documentsBySlug, blocksById,  \* InMemoryBlockStore
  model,             \* what the property, text, relationship and containment indexes hold
  documentModified, blockModified, lastLoadAt, \* PersistentStore
  pager,             \* a consumer that goes through query-blocks by cursor
  seen,              \* history: the asOf of a response and the model served then
  undisturbed,       \* history: jobs beside which no edit and no other job has been
  fresh              \* history: the last load was by such a job and no edit has come since

blockStoreVars == <<documentsById, documentsBySlug, blocksById>>
storeVars == <<blockStoreVars, model, documentModified, blockModified, lastLoadAt>>
contentVars == <<source, edits, job, storeVars, pager, seen, undisturbed, fresh>>

Empty == [documents |-> <<>>, blocks |-> <<>>]
IdleJob == [phase |-> "idle", todo |-> <<>>, read |-> <<>>]
Reading == {j \in Job : job[j].phase = "reading"}

Ids(entries) == [i \in DOMAIN entries |-> entries[i].id]
Slugs(documents) == [i \in DOMAIN documents |-> documents[i].slug]

(* A Map filled with entries under their keys: the last entry of a key counts. *)
MapOf(keys, entries) ==
  [k \in ToSet(keys) |-> entries[Max({i \in DOMAIN keys : keys[i] = k})]]

ContentInit ==
  /\ source \in [Path -> File \union {Null}]
  /\ edits = 0
  /\ job = [j \in Job |-> IdleJob]
  /\ documentsById = <<>> /\ documentsBySlug = <<>> /\ blocksById = <<>>
  /\ model = Empty
  /\ documentModified = <<>> /\ blockModified = <<>> /\ lastLoadAt = 0
  /\ pager = [cursor |-> Null, got |-> <<>>, steady |-> FALSE]
  /\ seen = [asOf |-> 0, model |-> Empty]
  /\ undisturbed = {}
  /\ fresh = FALSE

-----------------------------------------------------------------------------
(* Compilation and loading *)

(* The authors' push, which the working copy follows. *)
Edit(p, f) ==
  /\ edits < MaxEdits
  /\ f # source[p]
  /\ source' = [source EXCEPT ![p] = f]
  /\ edits' = edits + 1
  /\ undisturbed' = {}
  /\ fresh' = FALSE
  /\ UNCHANGED <<job, storeVars, pager, seen>>

Listing == Only(PathOrder, {p \in Path : source[p] # Null})

(* A Map in which entries are set. *)
Overlaid(map, entries) ==
  [k \in DOMAIN map \union DOMAIN entries |-> IF k \in DOMAIN entries THEN entries[k] ELSE map[k]]

(* Mutant: what is already in the block store is kept. *)
BulkLoadKeeps(m) ==
  /\ documentsById' = Overlaid(MapOf(Ids(m.documents), m.documents), documentsById)
  /\ documentsBySlug' = Overlaid(MapOf(Slugs(m.documents), m.documents), documentsBySlug)
  /\ blocksById' = Overlaid(MapOf(Ids(m.blocks), m.blocks), blocksById)

(* InMemoryBlockStore.bulkLoad() *)
BulkLoad(m) ==
  /\ documentsById' = Overlaid(documentsById, MapOf(Ids(m.documents), m.documents))
  /\ documentsBySlug' = Overlaid(documentsBySlug, MapOf(Slugs(m.documents), m.documents))
  /\ blocksById' = Overlaid(blocksById, MapOf(Ids(m.blocks), m.blocks))

(* The blocks of query-blocks in the order of the engine's sort: by document,
   then by id. *)
PathBefore(p, q) ==
  \/ IsStrictPrefix(p, q)
  \/ \E k \in DOMAIN p \intersect DOMAIN q : p[k] < q[k] /\ \A i \in 1 .. k - 1 : p[i] = q[i]
IdBefore(a, b) == a[1] < b[1] \/ (a[1] = b[1] /\ PathBefore(a[2], b[2]))
Queried(m) ==
  LET before(i, k) == \/ IdBefore(m.blocks[i].id, m.blocks[k].id)
                      \/ m.blocks[i].id = m.blocks[k].id /\ i < k
      earlier(k) == {i \in DOMAIN m.blocks : before(i, k)}
  IN  [n \in DOMAIN m.blocks |->
         m.blocks[CHOOSE k \in DOMAIN m.blocks : Cardinality(earlier(k)) = n - 1].id]

(* Mutant: only what is new in the model gets a time. *)
StampedNew(ids, now, before) == [x \in ids |-> IF x \in DOMAIN before THEN before[x] ELSE now]

(* The times of PersistentStore.load(): everything in the model gets this one. *)
Stamped(ids, now, before) == [x \in ids |-> now]

(* Mutant: a model without documents is taken for a failure. *)
LoadSome(m) ==
  IF m.documents = <<>> THEN UNCHANGED <<storeVars, pager>>
  ELSE /\ BulkLoad(m)
       /\ model' = m
       /\ lastLoadAt' \in {lastLoadAt, lastLoadAt + 1} \intersect (1 .. MaxLoadTime)
       /\ documentModified' = Stamped({d.id : d \in ToSet(m.documents)}, lastLoadAt', documentModified)
       /\ blockModified' = Stamped({b.id : b \in ToSet(m.blocks)}, lastLoadAt', blockModified)
       /\ pager' = [pager EXCEPT !.steady = @ /\ Queried(m) = Queried(model)]

(* PersistentStore.load(), at some time on a clock that may not have moved. *)
Load(m) ==
  /\ BulkLoad(m)
  /\ model' = m
  /\ lastLoadAt' \in {lastLoadAt, lastLoadAt + 1} \intersect (1 .. MaxLoadTime)
  /\ documentModified' = Stamped({d.id : d \in ToSet(m.documents)}, lastLoadAt', documentModified)
  /\ blockModified' = Stamped({b.id : b \in ToSet(m.blocks)}, lastLoadAt', blockModified)
  /\ pager' = [pager EXCEPT !.steady = @ /\ Queried(m) = Queried(model)]

(* A webhook, or the start of the server: the source is listed; if there is
   nothing to read, an empty model is loaded. *)
Webhook(j) ==
  /\ j \notin Reading
  /\ undisturbed' = IF Reading = {} THEN {j} ELSE {}
  /\ IF Listing = <<>>
     THEN /\ Load(Compile(<<>>))
          /\ job' = [job EXCEPT ![j] = IdleJob]
          /\ fresh' = (Reading = {})
     ELSE /\ job' = [job EXCEPT ![j] = [phase |-> "reading", todo |-> Listing, read |-> <<>>]]
          /\ UNCHANGED <<storeVars, pager, fresh>>
  /\ UNCHANGED <<source, edits, seen>>

(* The next file.  One that has gone since the listing fails the job, which
   leaves the store alone; after the last one the model is loaded. *)
ReadFile(j) ==
  LET path == Head(job[j].todo)
      read == Append(job[j].read, [path |-> path, file |-> source[path]])
      rest == Tail(job[j].todo)
  IN  /\ j \in Reading
      /\ \/ /\ source[path] = Null
            /\ job' = [job EXCEPT ![j] = IdleJob]
            /\ UNCHANGED <<storeVars, pager, fresh>>
         \/ /\ source[path] # Null /\ rest # <<>>
            /\ job' = [job EXCEPT ![j] = [phase |-> "reading", todo |-> rest, read |-> read]]
            /\ UNCHANGED <<storeVars, pager, fresh>>
         \/ /\ source[path] # Null /\ rest = <<>>
            /\ Load(Compile(read))
            /\ job' = [job EXCEPT ![j] = IdleJob]
            /\ fresh' = (j \in undisturbed)
      /\ UNCHANGED <<source, edits, seen, undisturbed>>

-----------------------------------------------------------------------------
(* Retrieval.  A request is answered in one synchronous handler. *)

(* A response that carries asOf, which the consumer keeps for its next since. *)
Respond ==
  /\ seen' = [asOf |-> lastLoadAt, model |-> model]
  /\ seen' # seen
  /\ UNCHANGED <<source, edits, job, storeVars, pager, undisturbed, fresh>>

(* PersistentStore.invalidationsSince() *)
invalidationsSince(since) ==
  [documents |-> {d \in DOMAIN documentModified : documentModified[d] > since},
   blocks |-> {b \in DOMAIN blockModified : blockModified[b] > since}]

(* Traversal: what the relationship index has of the last model, as far as the
   block store resolves it. *)
Served(related) == {r \in related : r.blockId \in DOMAIN blocksById}
traverseOutbound(id) ==
  Served({[type |-> r.type, blockId |-> r.target] :
            r \in UNION {ToSet(b.relationships) : b \in {x \in ToSet(model.blocks) : x.id = id}}})
traverseInbound(id) ==
  Served(UNION {{[type |-> r.type, blockId |-> b.id] :
                   r \in {x \in ToSet(b.relationships) : x.target = id}} : b \in ToSet(model.blocks)})

(* Retrieval by properties.  A criterion compares a title by part, anything
   else exactly; the index has the documents of the last model, and the block
   store has their titles. *)
documentTitles ==
  [d \in {x \in DOMAIN documentsById : documentsById[x].rootBlock \in DOMAIN blocksById} |->
     blocksById[documentsById[d].rootBlock].title]

documentMatchesCriterion(document, criterion) ==
  \/ /\ criterion.property = "title"
     /\ document.id \in DOMAIN documentTitles
     /\ documentTitles[document.id] \in TitlesWith[criterion.value]
  \/ criterion.property = "slug" /\ document.slug = criterion.value

blockMatchesCriterion(block, criterion) ==
  \/ criterion.property = "title" /\ block.title \in TitlesWith[criterion.value]
  \/ criterion.property = "document" /\ block.document = criterion.value

queryDocuments(criteria) ==
  {d \in ToSet(model.documents) : \A c \in criteria : documentMatchesCriterion(d, c)}
queryBlocks(criteria) ==
  {b \in ToSet(model.blocks) : \A c \in criteria : blockMatchesCriterion(b, c)}

(* What a consumer is given of a document. *)
toDocumentResult(document) ==
  [id |-> document.id, slug |-> document.slug, rootBlock |-> document.rootBlock,
   title |-> IF document.rootBlock \in DOMAIN blocksById
               THEN blocksById[document.rootBlock].title ELSE Null]

(* RetrievalEngine.paginate(); a cursor is an offset. *)
Page(items, offset, limit) ==
  LET slice == SubSeq(items, offset + 1, Min({offset + limit, Len(items)}))
      nextOffset == offset + Len(slice)
  IN  [items |-> slice, nextCursor |-> IF nextOffset < Len(items) THEN nextOffset ELSE Null]

(* The consumer asks for the first page, or for the one its cursor names. *)
QueryPage(limit) ==
  LET first == pager.cursor = Null
      page == Page(Queried(model), IF first THEN 0 ELSE pager.cursor, limit)
  IN  /\ pager' = [cursor |-> page.nextCursor,
                   got |-> IF first THEN page.items ELSE pager.got \o page.items,
                   steady |-> first \/ pager.steady]
      /\ UNCHANGED <<source, edits, job, storeVars, seen, undisturbed, fresh>>

-----------------------------------------------------------------------------
ContentNext ==
  \/ \E p \in Path, f \in File \union {Null} : Edit(p, f)
  \/ \E j \in Job : Webhook(j) \/ ReadFile(j)
  \/ Respond
  \/ \E limit \in PageLimit : QueryPage(limit)

ContentSpec == ContentInit /\ [][ContentNext]_contentVars

-----------------------------------------------------------------------------
(* Properties *)

Blocks(m) == ToSet(m.blocks)
Documents(m) == ToSet(m.documents)

(* Types; the indexes, the times and the block store speak of the same ids. *)
ContentTypeOK ==
  /\ source \in [Path -> File \union {Null}] /\ edits \in 0 .. MaxEdits
  /\ job \in [Job -> [phase : {"idle", "reading"}, todo : Seq(Path),
                     read : Seq([path : Path, file : File])]]
  /\ \A j \in Job : (job[j].phase = "reading") = (job[j].todo # <<>>)
  /\ lastLoadAt \in 0 .. MaxLoadTime
  /\ documentModified \in [{d.id : d \in Documents(model)} -> 1 .. lastLoadAt]
  /\ blockModified \in [{b.id : b \in Blocks(model)} -> 1 .. lastLoadAt]
  /\ pager.cursor \in Nat \union {Null}
  /\ seen.asOf \in 0 .. lastLoadAt /\ undisturbed \subseteq Job /\ fresh \in BOOLEAN

(* The heading a heading stands under: the nearest before it of a smaller
   level; 0 if there is none. *)
Above(headings, i) ==
  Max({0} \union {k \in 1 .. i - 1 : headings[k].level < headings[i].level})

(* Whatever levels the headings of a file have, in whatever order, each
   becomes one block, placed under the block of the heading above it, and a
   block lists as children exactly the blocks that name it their parent.  This
   is what the compiler does.  Two specifications of the repository ask for
   something else: where a level is skipped, "a level-N heading is a child of
   the nearest preceding heading of level N-1 (or the root, if none)"
   (specs/authoring-tooling.spec.md, line 42), and where a file has several top
   headings, all blocks but the one its document references "must have a parent"
   (specs/content-model.spec.md, line 130). *)
HeadingsContained ==
  \A p \in Path : source[p] # Null =>
    LET headings == source[p].headings
        blocks == compileFile(p, source[p]).blocks
    IN  /\ Len(blocks) = Len(headings)
        /\ \A i, k \in DOMAIN blocks : blocks[i].id = blocks[k].id => i = k
        /\ \A i \in DOMAIN blocks :
             /\ blocks[i].parent = IF Above(headings, i) = 0 THEN Null
                                   ELSE blocks[Above(headings, i)].id
             /\ ToSet(blocks[i].children)
                  = {blocks[k].id : k \in {n \in DOMAIN blocks : Above(headings, n) = i}}

Criterion(property, value) == [property |-> property, value |-> value]

(* What an index finds the block store serves, in the same version: although
   the stores are loaded in different ways and compilations overlap, no hit
   is dropped by a search and none resolves to an older text; a document is
   found by its slug and a part of its title if, and only if, one of its
   blocks is its root under such a title, and its result shows that title. *)
IndexesServed ==
  /\ \A d \in Documents(model), t \in DOMAIN TitlesWith :
       LET titled == queryBlocks({Criterion("title", t), Criterion("document", d.id)})
           found == queryDocuments({Criterion("slug", d.slug), Criterion("title", t)})
       IN  /\ d \in found <=> \E b \in titled : b.id = d.rootBlock
           /\ d \in found => toDocumentResult(d).title \in TitlesWith[t]
  /\ \A b \in Blocks(model) : b.id \in DOMAIN blocksById /\ blocksById[b.id] = b
  /\ \A d \in Documents(model) :
       /\ documentsById[d.id] = d
       /\ d.rootBlock # Null => blocksById[d.rootBlock].document = d.id

(* No traversal loses a relationship, even if the file that had its target was
   removed or rewritten while the others were read, and traversing it back
   leads to where it started. *)
TraversalSymmetric ==
  \A b \in Blocks(model) : \A r \in ToSet(b.relationships) :
    /\ [type |-> r.type, blockId |-> r.target] \in traverseOutbound(b.id)
    /\ [type |-> r.type, blockId |-> b.id] \in traverseInbound(r.target)

(* The slug of a document finds that document as it is in the last model, if
   its slug was given to no other: neither an earlier owner of the slug nor
   an earlier state of the document is found. *)
SlugFinds ==
  \A d \in Documents(model) :
    (\A other \in Documents(model) : other.slug = d.slug => other = d)
    => documentsBySlug[d.slug] = d

(* Going through a query by its cursors gives every block once and in order,
   also across loads, as long as they change no ids: titles and texts may be
   rewritten on the way. *)
PagesComplete ==
  /\ pager.steady /\ pager.cursor = Null => pager.got = Queried(model)
  /\ pager.steady => IsPrefix(pager.got, Queried(model))

(* All ways into the last model lead to the same blocks and documents. *)
RetrievalSound == ContentTypeOK /\ IndexesServed /\ TraversalSymmetric /\ SlugFinds /\ PagesComplete

(* What is in the model now and was not so in an earlier response is listed
   as invalid for that response's asOf, unless a load has happened in the
   same millisecond. *)
ModifiedListed ==
  seen.asOf < lastLoadAt =>
    /\ \A d \in Documents(model) \ Documents(seen.model) : d.id \in invalidationsSince(seen.asOf).documents
    /\ \A b \in Blocks(model) \ Blocks(seen.model) : b.id \in invalidationsSince(seen.asOf).blocks

(* A compilation beside which nothing was edited and no other compilation
   ran leaves the indexes as the source is now, with every heading of it in
   its place, whatever failed or overlapped before. *)
QuietCompileCurrent ==
  /\ HeadingsContained
  /\ fresh => model = Compile([i \in DOMAIN Listing |->
                                 [path |-> Listing[i], file |-> source[Listing[i]]]])
=============================================================================
