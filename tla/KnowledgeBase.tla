---------------------------- MODULE KnowledgeBase ----------------------------
(***************************************************************************)
(* What the knowledge base stores and what its lexical index knows:        *)
(* app/kb/service.py, kb/graph_rag.py, services/graphify_kb.py,            *)
(* services/light_rag.py, the policy upload of api/governance/admin.py and *)
(* the synchronisation loop of app/main.py.                                *)
(*                                                                         *)
(* Every handler runs on the event loop and gives it up in one place, the  *)
(* insertion into the knowledge graph (ENABLE_GRAPH_RAG, on by default).   *)
(* The stores and the files are shared by the processes; the index is an   *)
(* lru_cache of each.  A document's markdown is truncated before it is     *)
(* written, also when it is there already from an earlier ingestion of the *)
(* same content, and the other processes may read it meanwhile.            *)
(*                                                                         *)
(* A document is its content, which its id is a hash of; a paragraph is    *)
(* its size and has no heading line.                                       *)
(***************************************************************************)
EXTENDS Integers, Sequences, SequencesExt, FiniteSetsExt

CONSTANTS
  Servers,
  Names, Docs,     \* bounds: files of the directory, contents
  Sizes,           \* of a content, the sizes of its paragraphs
  ArtifactCap, IndexCap,      \* 1200 and 1400 characters
  Nothing, NoDirectory,
  MaxUploads,      \* bound: policy documents
  MaxSteps         \* bound: requests, rounds of the loop, restarts and changes to the directory

ASSUME KnowledgeAssumption ==
  /\ Sizes \in [Docs -> Seq(Nat)]
  /\ ArtifactCap \in Nat /\ IndexCap \in Nat /\ ArtifactCap <= IndexCap
  /\ MaxUploads \in Nat /\ MaxSteps \in Nat

VARIABLES
  directory,       \* KB_AUTO_SYNC_DIR: of a name, a content or Nothing; or NoDirectory
  vectors,         \* of a content, the name its chunks carry in Chroma, or Nothing
  graph,           \* contents in the LightRAG graph
  artifacts,       \* markdown files of the distilled directory
  torn,            \* those of them that are empty or cut
  writing,         \* of a process, the artifact it is writing, or Nothing
  policies,        \* committed rows of policy_documents
  index,           \* of a process, the cached chunks, or Nothing
  missed,          \* history: of a process, the files that were torn when it built the index
  reported,        \* of a process, the artifacts it reported as written
  ingestions,      \* of a process and a place in it, the ingestion under way, or Nothing
  loop,            \* of a process, its synchronisation loop
  steps

files == <<artifacts, torn, writing>>
known == <<index, missed, reported>>
knowledge == <<directory, vectors, graph, files, policies, known, ingestions, loop, steps>>

Places == Servers \X {"request", "loop"}
\* The artifact of an ingested content has an id derived from it; a policy
\* document gets a new one, its number here, at every upload.
Artifact == [doc : Docs, upload : 0..MaxUploads]
\* "alone" as long as no other process writes the same file.
Write == [of : Artifact, alone : BOOLEAN]
Job == [todo : SUBSET Names, failed : SUBSET Names, doc : Docs \cup {Nothing}]

-----------------------------------------------------------------------------
(***************************************************************************)
(* chunk_text and _chunk_section: paragraphs are packed into chunks of at  *)
(* most cap characters, two of which separate paragraphs, and one that     *)
(* does not fit into a chunk of its own loses its end.                     *)
(***************************************************************************)
ChunkSize(chunk) == FoldLeft(LAMBDA n, p : n + p.size + 2, 0, chunk)

WithParagraph(packed, p, cap) ==
  IF (IF packed.current = <<>> THEN 0 ELSE ChunkSize(packed.current) - 2) + p.size + 2 <= cap
  THEN [packed EXCEPT !.current = Append(@, p)]
  ELSE [ chunks  |-> IF packed.current = <<>> THEN packed.chunks
                     ELSE Append(packed.chunks, packed.current),
         current |-> <<[p EXCEPT !.size = Min({@, cap})]>> ]

Packed(paragraphs, cap) ==
  LET packed[n \in 0..Len(paragraphs)] ==
        IF n = 0 THEN [chunks |-> <<>>, current |-> <<>>]
        ELSE WithParagraph(packed[n - 1], paragraphs[n], cap)
      all == packed[Len(paragraphs)]
  IN IF all.current = <<>> THEN all.chunks ELSE Append(all.chunks, all.current)

ParagraphsOf(doc) == [i \in 1..Len(Sizes[doc]) |-> [at |-> i, size |-> Sizes[doc][i]]]

\* An artifact has a section for each of its chunks; the index chunks each again.
Built(whole) ==
  UNION { UNION { { [of |-> a, body |-> body] : body \in Range(Packed(section, IndexCap)) }
                  : section \in Range(Packed(ParagraphsOf(a.doc), ArtifactCap)) }
          : a \in whole }

-----------------------------------------------------------------------------
KnowledgeOK ==
  /\ directory \in [Names -> Docs \cup {Nothing}] \cup {NoDirectory}
  /\ vectors \in [Docs -> Names \cup {Nothing}]
  /\ graph \subseteq Docs
  /\ artifacts \subseteq Artifact /\ torn \subseteq artifacts
  /\ writing \in [Servers -> Write \cup {Nothing}]
  /\ policies \subseteq 1..MaxUploads
  /\ DOMAIN index = Servers
  /\ \A p \in Servers : index[p] = Nothing \/ \A chunk \in index[p] : chunk.of \in Artifact
  /\ missed \in [Servers -> SUBSET Artifact]
  /\ reported \in [Servers -> SUBSET Artifact]
  /\ ingestions \in [Places -> Job \cup {Nothing}]
  /\ loop \in [Servers -> {"waiting", "running", "ended"}]
  /\ steps \in 0..MaxSteps

KnowledgeInit ==
  /\ directory \in [Names -> Docs \cup {Nothing}]
  /\ vectors = [d \in Docs |-> Nothing]
  /\ graph = {} /\ artifacts = {} /\ torn = {} /\ policies = {}
  /\ writing = [p \in Servers |-> Nothing]
  /\ index = [p \in Servers |-> Nothing]
  /\ missed = [p \in Servers |-> {}]
  /\ reported = [p \in Servers |-> {}]
  /\ ingestions = [w \in Places |-> Nothing]
  /\ loop = [p \in Servers |-> "waiting"]
  /\ steps = 0

-----------------------------------------------------------------------------
Counted == steps < MaxSteps /\ steps' = steps + 1

\* A process that is writing a file does nothing else.
Free(p) == writing[p] = Nothing

\* The vector store is written before the graph is awaited.  The ids of the
\* chunks are those of the content, so the last name given to it stays.
Embed(name, doc) == vectors' = [vectors EXCEPT ![doc] = name]

Upload(p, name, doc) ==
  /\ Free(p) /\ Counted
  /\ ingestions[<<p, "request">>] = Nothing
  /\ Embed(name, doc)
  /\ ingestions' = [ingestions EXCEPT ![<<p, "request">>] = [todo |-> {}, failed |-> {}, doc |-> doc]]
  /\ UNCHANGED <<directory, graph, files, policies, known, loop>>

FilesThere == { n \in Names : directory # NoDirectory /\ directory[n] # Nothing }
Scan == [todo |-> FilesThere, failed |-> {}, doc |-> Nothing]

\* A directory that is not there is answered with 404.
Reindex(p) ==
  /\ Free(p) /\ Counted
  /\ ingestions[<<p, "request">>] = Nothing /\ directory # NoDirectory
  /\ ingestions' = [ingestions EXCEPT ![<<p, "request">>] = Scan]
  /\ UNCHANGED <<directory, vectors, graph, files, policies, known, loop>>

\* The loop has no handler for the exception, which ends its task for good.
Wake(p) ==
  /\ Free(p) /\ Counted
  /\ loop[p] = "waiting"
  /\ \/ directory = NoDirectory /\ loop' = [loop EXCEPT ![p] = "ended"] /\ UNCHANGED ingestions
     \/ /\ directory # NoDirectory
        /\ loop' = [loop EXCEPT ![p] = "running"]
        /\ ingestions' = [ingestions EXCEPT ![<<p, "loop">>] = Scan]
  /\ UNCHANGED <<directory, vectors, graph, files, policies, known>>

\* A file is read when its turn comes; it may be gone, or not be parsed.
NextFile(w, name) ==
  /\ Free(w[1])
  /\ ingestions[w] # Nothing /\ ingestions[w].doc = Nothing /\ name \in ingestions[w].todo
  /\ \/ ingestions' = [ingestions EXCEPT ![w].todo = @ \ {name}, ![w].failed = @ \cup {name}]
        /\ UNCHANGED vectors
     \/ /\ name \notin FilesThere
        /\ ingestions' = [ingestions EXCEPT ![w].todo = @ \ {name}]
        /\ UNCHANGED vectors
     \/ /\ name \in FilesThere
        /\ Embed(name, directory[name])
        /\ ingestions' = [ingestions EXCEPT ![w].todo = @ \ {name}, ![w].doc = directory[name]]
  /\ UNCHANGED <<directory, graph, files, policies, known, loop, steps>>

\* write_text truncates the file before it writes, if it can be opened at all.
Open(p, a) ==
  \/ UNCHANGED files
  \/ LET Same(q) == writing[q] # Nothing /\ writing[q].of = a
     IN /\ artifacts' = artifacts \cup {a} /\ torn' = torn \cup {a}
        /\ writing' = [q \in Servers |->
             IF q = p THEN [of |-> a, alone |-> \A r \in Servers \ {p} : ~Same(r)]
             ELSE IF Same(q) THEN [writing[q] EXCEPT !.alone = FALSE] ELSE writing[q]]

\* The markdown is written.  The texts of two processes that write one file may
\* have got mixed, as their title lines differ.
Written(p) ==
  /\ torn' \in {torn \ {writing[p].of}} \cup (IF writing[p].alone THEN {} ELSE {torn})
  /\ writing' = [writing EXCEPT ![p] = Nothing]
  /\ UNCHANGED artifacts

\* ... or not: what is there stays, or is damaged if another had written it.
GivenUp(p) ==
  /\ torn' \in {torn, torn \cup {writing[p].of}}
  /\ writing' = [writing EXCEPT ![p] = Nothing]
  /\ UNCHANGED artifacts

\* Variant: the index is not built again
ReportKeepsIndex(p, a) ==
  /\ reported' = [reported EXCEPT ![p] = @ \cup {a}]
  /\ UNCHANGED <<index, missed>>

\* The graph file is there too, and the cache is cleared.
Report(p, a) ==
  /\ index' = [index EXCEPT ![p] = Nothing]
  /\ missed' = [missed EXCEPT ![p] = {}]
  /\ reported' = [reported EXCEPT ![p] = @ \cup {a}]

\* Only a policy document has a row, whose commit may fail; its files stay.
WriteArtifacts(p) ==
  /\ ~Free(p)
  /\ Written(p)
  /\ Report(p, writing[p].of)
  /\ policies' \in {policies} \cup
       (IF writing[p].of.upload > 0 THEN {policies \cup {writing[p].of.upload}} ELSE {})
  /\ UNCHANGED <<directory, vectors, graph, ingestions, loop, steps>>

\* An exception: at the graph file, or in the writing of the markdown.  Of an
\* ingestion it is only logged; the upload of a policy is refused.
WriteFails(p) ==
  /\ ~Free(p)
  /\ Written(p) \/ GivenUp(p)
  /\ UNCHANGED <<directory, vectors, graph, policies, known, ingestions, loop, steps>>

\* An insertion that fails, or a graph that is not configured, is only logged.
GraphInsert(doc) == graph' \in {graph, graph \cup {doc}}

\* The graph has answered.
GraphAnswers(w) ==
  /\ Free(w[1])
  /\ ingestions[w] # Nothing /\ ingestions[w].doc # Nothing
  /\ GraphInsert(ingestions[w].doc)
  /\ Open(w[1], [doc |-> ingestions[w].doc, upload |-> 0])
  /\ ingestions' = [ingestions EXCEPT ![w].doc = Nothing]
  /\ UNCHANGED <<directory, vectors, policies, known, loop, steps>>

Finish(w) ==
  /\ Free(w[1])
  /\ ingestions[w] # Nothing /\ ingestions[w].doc = Nothing /\ ingestions[w].todo = {}
  /\ ingestions' = [ingestions EXCEPT ![w] = Nothing]
  /\ loop' = IF w[2] = "loop" THEN [loop EXCEPT ![w[1]] = "waiting"] ELSE loop
  /\ UNCHANGED <<directory, vectors, graph, files, policies, known, steps>>

UploadPolicy(p, doc) ==
  /\ Free(p) /\ Counted
  /\ LET n == Max({ a.upload : a \in artifacts } \cup {0}) + 1
     IN n <= MaxUploads /\ Open(p, [doc |-> doc, upload |-> n])
  /\ UNCHANGED <<directory, vectors, graph, policies, known, ingestions, loop>>

\* _build_index reads what is there.  Of a torn file it gets some of the chunks;
\* one that is cut counts as missing.
Search(p) ==
  /\ Free(p)
  /\ index[p] = Nothing
  /\ \E some \in SUBSET Built(torn) :
       index' = [index EXCEPT ![p] = Built(artifacts \ torn) \cup some]
  /\ missed' = [missed EXCEPT ![p] = torn]
  /\ UNCHANGED <<directory, vectors, graph, files, policies, reported, ingestions, loop, steps>>

-----------------------------------------------------------------------------
ChangeDirectory ==
  /\ Counted
  /\ \/ directory' = NoDirectory
     \/ directory' \in [Names -> Docs \cup {Nothing}]
  /\ directory' # directory
  /\ UNCHANGED <<vectors, graph, files, policies, known, ingestions, loop>>

\* A process that stops while it writes leaves the file as it is then.
RestartServer(p) ==
  /\ Counted
  /\ \/ Free(p) /\ UNCHANGED files
     \/ ~Free(p) /\ GivenUp(p)
  /\ index' = [index EXCEPT ![p] = Nothing]
  /\ missed' = [missed EXCEPT ![p] = {}]
  /\ ingestions' = [w \in Places |-> IF w[1] = p THEN Nothing ELSE ingestions[w]]
  /\ loop' = [loop EXCEPT ![p] = "waiting"]
  /\ UNCHANGED <<directory, vectors, graph, policies, reported>>

KnowledgeNext ==
  \/ \E p \in Servers :
       \/ Reindex(p) \/ Wake(p) \/ Search(p) \/ RestartServer(p)
       \/ WriteArtifacts(p) \/ WriteFails(p)
       \/ \E doc \in Docs : UploadPolicy(p, doc) \/ \E name \in Names : Upload(p, name, doc)
  \/ \E w \in Places : GraphAnswers(w) \/ Finish(w) \/ \E name \in Names : NextFile(w, name)
  \/ ChangeDirectory

KnowledgeSpec == KnowledgeInit /\ [][KnowledgeNext]_knowledge

-----------------------------------------------------------------------------
\* A document that a process reported as written is found by the searches of
\* that process: its index has every paragraph that an artifact's chunk can
\* hold, whole and once, whatever was uploaded, reindexed or failed since; but
\* for a file that a later write of the same document, one that failed, was
\* stopped or was under way elsewhere, had torn when the index was built
\* (write_artifacts, _build_index).
ConfirmedIsSearchable ==
  \A p \in Servers : index[p] # Nothing =>
    \A a \in reported[p] \ missed[p] : \A i \in 1..Len(Sizes[a.doc]) :
      Sizes[a.doc][i] <= ArtifactCap =>
        Quantify(index[p], LAMBDA chunk : chunk.of = a
                              /\ [at |-> i, size |-> Sizes[a.doc][i]] \in Range(chunk.body)) = 1
=============================================================================
