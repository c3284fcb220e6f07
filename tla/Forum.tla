-------------------------------- MODULE Forum --------------------------------
(***************************************************************************)
(* The SpaceTime forum (src/spacetime): threads and posts are documents of *)
(* one collection of a storage node, and their texts are blobs at one of   *)
(* several endpoints.  A new document's id is the largest one listed plus  *)
(* one; the listing, and every other request, is awaited.                  *)
(* Every reader takes a document with a number for an id both for a thread *)
(* and for a post, so both kinds draw from one sequence of ids.            *)
(* The node is external; a request that rejects was carried out before, or *)
(* never is.  Messages for the chat change nothing here.                   *)
(***************************************************************************)
EXTENDS Integers

CONSTANTS
  FmCallers,     \* agents, each with one message or call at a time
  FmTexts,       \* contents; a blob's name is a digest of its text
  FmEndpoints,   \* the baseUrls of the fallback
  FmFirst,       \* the first of them
  FmMaxId        \* bound: ids

ASSUME ForumAssumption == FmFirst \in FmEndpoints /\ FmMaxId \in Nat

VARIABLES
  fmDocs,    \* documents at the node
  fmBlobs,   \* texts at each endpoint
  fmAt,      \* the endpoint each agent's blob storage is at
  fmCall,    \* each agent's call
  fmKept     \* history: documents put by a call that no other overlapped

fmVars == <<fmDocs, fmBlobs, fmAt, fmCall, fmKept>>

FmKinds == {"thread", "post"}
FmDoc(call, author) == [kind |-> call.kind, id |-> call.id, text |-> call.text, author |-> author]
FmIdle == [step |-> "idle"]

FmInit ==
  /\ fmDocs = {}
  /\ fmBlobs = [e \in FmEndpoints |-> {}]
  /\ fmAt = [c \in FmCallers |-> FmFirst]
  /\ fmCall = [c \in FmCallers |-> FmIdle]
  /\ fmKept = {}

\* createSpaceTimeStorageNodeWithFallback: the first endpoint that answers its probe, or the
\* first of all.
Probe(c, e) ==
  /\ fmCall[c] = FmIdle
  /\ fmAt' = [fmAt EXCEPT ![c] = e]
  /\ UNCHANGED <<fmDocs, fmBlobs, fmCall, fmKept>>

FmGoes(c, call) ==
  /\ fmCall' = [fmCall EXCEPT ![c] = call]
  /\ UNCHANGED <<fmDocs, fmBlobs, fmAt, fmKept>>

-----------------------------------------------------------------------------
(* Messages *)

\* ingestSpacekitTextMessage asks the classifier, and routeSpaceTimeMessage asks it again.
Ingest(c) ==
  /\ fmCall[c] = FmIdle
  /\ FmGoes(c, [step |-> "classifying"])

\* Another intent goes to the messaging adapter, or nowhere; the classifier may reject.
Classified(c) ==
  /\ fmCall[c].step = "classifying"
  /\ \/ FmGoes(c, [step |-> "routing"])
     \/ FmGoes(c, FmIdle)

\* An unclear or another intent, a missing DID or a malformed command ends the call.
Routed(c) ==
  /\ fmCall[c].step = "routing"
  /\ \/ FmGoes(c, FmIdle)
     \/ \E kind \in FmKinds, text \in FmTexts :
          FmGoes(c, [step |-> "storing", kind |-> kind, text |-> text])

\* SpaceTimeClient.createThread or reply, called directly or by routeSpacekitMessage.
Act(c, kind, text) ==
  /\ fmCall[c] = FmIdle
  /\ FmGoes(c, [step |-> "storing", kind |-> kind, text |-> text])

-----------------------------------------------------------------------------
(* The client and the contract *)

OnForum == {c \in FmCallers : fmCall[c].step \in {"listing", "putting"}}

\* putBlob is answered; callContract asks for the listing.
BlobStored(c) ==
  /\ fmCall[c].step = "storing"
  /\ fmBlobs' = [fmBlobs EXCEPT ![fmAt[c]] = @ \cup {fmCall[c].text}]
  /\ fmCall' = [d \in FmCallers |->
       IF d = c THEN [step |-> "listing", kind |-> fmCall[c].kind, text |-> fmCall[c].text,
                      alone |-> OnForum = {}, refused |-> FALSE, id |-> 0]
       ELSE IF d \in OnForum THEN [fmCall[d] EXCEPT !.alone = FALSE] ELSE fmCall[d]]
  /\ UNCHANGED <<fmDocs, fmAt, fmKept>>

\* A blob, a listing or a document is refused with an exception: the call rejects.
FmRejects(c) ==
  /\ fmCall[c].step \in {"storing", "listing", "putting"}
  /\ FmGoes(c, FmIdle)

\* extractThread and extractPost: any document whose payload has a number for an id.
Extracted(docs) == {d.id : d \in docs}

\* Bug for the mutant: one more than the largest id is forgotten.
NextIdTaken(docs) ==
  IF Extracted(docs) = {} THEN 1 ELSE CHOOSE i \in Extracted(docs) : \A j \in Extracted(docs) : j <= i

NextId(docs) ==
  IF Extracted(docs) = {} THEN 1
  ELSE (CHOOSE i \in Extracted(docs) : \A j \in Extracted(docs) : j <= i) + 1

\* listDocuments is answered; an error status is taken for an empty list.
Listed(c, refused) ==
  LET docs == IF refused THEN {} ELSE fmDocs
  IN  /\ fmCall[c].step = "listing"
      /\ NextId(docs) <= FmMaxId
      /\ FmGoes(c, [fmCall[c] EXCEPT !.step = "putting", !.refused = refused, !.id = NextId(docs)])

\* putDocument is carried out, and the call resolves to the id, or its answer is lost.
DocumentPut(c) ==
  LET call == fmCall[c]
      doc == FmDoc(call, c)
  IN  /\ call.step = "putting"
      /\ fmDocs' = {d \in fmDocs : d.kind # doc.kind \/ d.id # doc.id} \cup {doc}
      /\ fmKept' = IF call.refused THEN {d \in fmKept : d.id # doc.id}
                   ELSE IF call.alone THEN fmKept \cup {doc} ELSE fmKept
      /\ fmCall' = [fmCall EXCEPT ![c] = FmIdle]
      /\ UNCHANGED <<fmBlobs, fmAt>>

\* An error status: putDocument answers false, nobody looks, and the call resolves to an id.
DocumentRefused(c) ==
  /\ fmCall[c].step = "putting"
  /\ FmGoes(c, FmIdle)

FmNext ==
  \E c \in FmCallers :
    \/ \E e \in FmEndpoints : Probe(c, e)
    \/ \E kind \in FmKinds, text \in FmTexts : Act(c, kind, text)
    \/ Ingest(c) \/ Classified(c) \/ Routed(c)
    \/ BlobStored(c) \/ FmRejects(c)
    \/ \E refused \in BOOLEAN : Listed(c, refused)
    \/ DocumentPut(c) \/ DocumentRefused(c)

FmSpec == FmInit /\ [][FmNext]_fmVars

-----------------------------------------------------------------------------
FmDocuments == [kind : FmKinds, id : 1 .. FmMaxId, text : FmTexts, author : FmCallers]

FmTypeOK ==
  /\ fmDocs \subseteq FmDocuments /\ fmKept \subseteq FmDocuments
  /\ fmBlobs \in [FmEndpoints -> SUBSET FmTexts]
  /\ fmAt \in [FmCallers -> FmEndpoints]
  /\ \A c \in FmCallers :
       /\ fmCall[c].step \in {"idle", "classifying", "routing", "storing", "listing", "putting"}
       /\ fmCall[c].step = "putting" => fmCall[c].id \in 1 .. FmMaxId

\* getThread and getPost of an id: the first document listed that has it, whichever it is.
GetDocument(id) == {d \in fmDocs : d.id = id}

\* A thread or a post put by a call that overlapped no other stays what get_thread and get_post find
\* under its id, and its text stays at an endpoint, through calls that overlap each other, are
\* refused or reject; only a call whose listing was refused may take its id (create_thread, reply).
ForumKeeps ==
  \A d \in fmKept :
    /\ GetDocument(d.id) = {d}
    /\ \E e \in FmEndpoints : d.text \in fmBlobs[e]
=============================================================================
