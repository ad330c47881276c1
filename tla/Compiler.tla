------------------------------- MODULE Compiler -------------------------------
(***************************************************************************)
(* packages/knowledge-base/src/compiler: what a list of source files        *)
(* compiles to.  A file is the sequence of its headings and the             *)
(* relationships of its front matter.  A document id is a number that       *)
(* stands for its place in the order of localeCompare(); a slug is the      *)
(* sequence of its parts between hyphens; a heading path "1.2" is <<1, 2>>. *)
(* The body of a section is left out: a title stands for both.              *)
(***************************************************************************)
EXTENDS Integers, Sequences, SequencesExt, Selection

CONSTANTS
  Path,              \* paths of source files
  Title,             \* texts of headings
  deriveDocumentId,  \* [Path -> Nat]: drops extension and case, so several paths may share an id
  slugify,           \* [Title -> slugs]: drops case and punctuation, so titles may share a slug
  Vocabulary,        \* the relationship types of the compiler
  Null               \* null

deriveBlockId(document, path) == <<document, path>>

-----------------------------------------------------------------------------
(* Sections *)

(* What the loop that pops the stack leaves. *)
Ancestors(stack, level) ==
  SubSeq(stack, 1, Max({0} \union {n \in DOMAIN stack : stack[n].level < level}))

(* One heading of collectSections(). *)
Opened(acc, heading) ==
  LET stack == Ancestors(acc.stack, heading.level)
      parent == IF stack = <<>> THEN <<>> ELSE Last(stack).path
      count == acc.counters[parent] + 1
      path == Append(parent, count)
  IN  [sections |-> Append(acc.sections, [title |-> heading.title, path |-> path, parent |-> parent]),
       stack |-> Append(stack, [level |-> heading.level, path |-> path]),
       counters |-> [x \in DOMAIN acc.counters \union {path} |->
                       IF x = path THEN 0 ELSE IF x = parent THEN count ELSE acc.counters[x]]]

collectSections(headings) ==
  LET acc[n \in 0 .. Len(headings)] ==
        IF n = 0 THEN [sections |-> <<>>, stack |-> <<>>, counters |-> [x \in {<<>>} |-> 0]]
        ELSE Opened(acc[n - 1], headings[n])
  IN  acc[Len(headings)].sections

-----------------------------------------------------------------------------
(* One file *)

(* The section a relationship comes from: a heading path or else a slug. *)
resolveRelationshipSource(from, sections, document) ==
  LET found == Only(sections, {s \in ToSet(sections) : s.path = from})
               \o Only(sections, {s \in ToSet(sections) : slugify[s.title] = from})
  IN  IF found = <<>> THEN Null ELSE deriveBlockId(document, Head(found).path)

BlockOf(section, sections, document) ==
  LET below == Only(sections, {s \in ToSet(sections) : s.parent = section.path})
  IN  [id |-> deriveBlockId(document, section.path),
       title |-> section.title,
       document |-> document,
       parent |-> IF section.parent = <<>> THEN Null ELSE deriveBlockId(document, section.parent),
       children |-> [i \in DOMAIN below |-> deriveBlockId(document, below[i].path)],
       relationships |-> <<>>]

(* A file without headings has a document all the same, with an empty slug
   and no block. *)
compileFile(path, file) ==
  LET document == deriveDocumentId[path]
      sections == collectSections(file.headings)
      sourced(r) == [source |-> resolveRelationshipSource(r.from, sections, document),
                     type |-> r.type, target |-> r.to]
  IN  [document |-> [id |-> document,
                     slug |-> IF sections = <<>> THEN <<>> ELSE slugify[Head(sections).title],
                     rootBlock |-> IF sections = <<>> THEN Null
                                   ELSE deriveBlockId(document, Head(sections).path)],
       blocks |-> [i \in DOMAIN sections |-> BlockOf(sections[i], sections, document)],
       relationships |-> [i \in DOMAIN file.relationships |-> sourced(file.relationships[i])]]

-----------------------------------------------------------------------------
(* All files *)

(* resolveSlugCollisions() goes through the documents in the order of their
   ids; documents that share an id share the slug of the last of them. *)
resolveSlugCollisions(documents) ==
  LET before(i, j) == \/ documents[i].id < documents[j].id
                      \/ documents[i].id = documents[j].id /\ i < j
      named(i) == Max({j \in DOMAIN documents : documents[j].id = documents[i].id})
      count(i) == Cardinality({j \in DOMAIN documents :
                                 before(j, i) /\ documents[j].slug = documents[i].slug})
      slug(i) == IF count(i) = 0 THEN documents[i].slug
                 ELSE Append(documents[i].slug, count(i) + 1)
  IN  [i \in DOMAIN documents |->
         IF slug(named(i)) = <<>> THEN documents[i].slug ELSE slug(named(i))]

(* The relationships of the file that start from the block, have a
   recognised type and lead to a block of the same compilation. *)
Admitted(block, raw, known) ==
  Only(raw, {r \in ToSet(raw) : /\ r.source = block.id
                                /\ r.type \in Vocabulary
                                /\ r.target \in known})

(* The blocks of the files, one file after another. *)
Flat(seqs) ==
  LET flat[n \in 0 .. Len(seqs)] == IF n = 0 THEN <<>> ELSE flat[n - 1] \o seqs[n]
  IN  flat[Len(seqs)]

(* Compiler.compile(), for the files as they were read. *)
Compile(read) ==
  LET files == [i \in DOMAIN read |-> compileFile(read[i].path, read[i].file)]
      documents == [i \in DOMAIN files |-> files[i].document]
      slugs == resolveSlugCollisions(documents)
      known == UNION {{b.id : b \in ToSet(files[i].blocks)} : i \in DOMAIN files}
      related(block, raw) ==
        LET admitted == Admitted(block, raw, known)
        IN  [block EXCEPT !.relationships =
               [k \in DOMAIN admitted |-> [type |-> admitted[k].type, target |-> admitted[k].target]]]
  IN  [documents |-> [i \in DOMAIN files |-> [documents[i] EXCEPT !.slug = slugs[i]]],
       blocks |-> Flat([i \in DOMAIN files |->
                    [k \in DOMAIN files[i].blocks |->
                       related(files[i].blocks[k], files[i].relationships)]])]
=============================================================================
