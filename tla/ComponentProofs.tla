---- MODULE ComponentProofs ----
(***************************************************************************)
(* Theorems about single components: the login limiter for any number of   *)
(* requests and any limit, the library for any number of uploads, parses   *)
(* and reviewers, retrieval for any library, any queries and whatever the  *)
(* remote calls answer, and the vector index for every number of chunks,   *)
(* processes and threads.                                                  *)
(***************************************************************************)
EXTENDS LoginLimiter, DocumentContent, Retrieval, VectorIndex, SequencePartsProofs, FiniteSetTheorems

-----------------------------------------------------------------------------
(* Login limiter.                                                          *)

\* The requests between their check and their record.
InFlight == {r \in LoginRequest : loginStep[r] # "new"}

LoginTyped ==
    /\ loginFailures \in Nat
    /\ loginStep \in [LoginRequest -> {"new", "checked", "wrong", "right"}]

LEMMA InFlightCounts ==
    /\ Cardinality(InFlight) \in Nat /\ Cardinality(LoginRequest) \in Nat
    /\ Cardinality(InFlight) <= Cardinality(LoginRequest)
BY LoginAssumption, FS_CardinalityType, FS_Subset DEF InFlight

\* The inductive invariant is the property itself, with the types.
LEMMA LoginStep ==
    ASSUME LoginTyped, LoginsBounded, [LoginNext]_loginVars
    PROVE  LoginTyped' /\ LoginsBounded'
<1> USE LoginAssumption DEF LoginTyped
<1> DEFINE N == Cardinality(LoginRequest)
           busy == Cardinality(InFlight)
<1>0. IsFiniteSet(InFlight) /\ busy \in Nat /\ N \in Nat /\ busy <= N /\ loginFailures + busy < MaxLoginFailures + N
  <2>1. IsFiniteSet(InFlight)
    BY FS_Subset DEF InFlight
  <2> QED
    BY <2>1, InFlightCounts DEF LoginsBounded, InFlight
<1>1. ASSUME NEW r \in LoginRequest, CheckLogin(r) PROVE LoginTyped' /\ LoginsBounded'
  <2>1. LoginTyped'
    BY <1>1 DEF CheckLogin
  <2>2. InFlight' = InFlight \cup {r} /\ r \notin InFlight
    BY <1>1 DEF CheckLogin, InFlight
  <2>3. busy' = busy + 1
    BY <1>0, <2>2, FS_AddElement
  <2>4. InFlight' \subseteq LoginRequest
    BY <2>2 DEF InFlight
  <2>5. busy' <= N
    BY <2>4, FS_Subset
  <2>6. loginFailures' = loginFailures /\ loginFailures < MaxLoginFailures
    BY <1>1 DEF CheckLogin, Allowed
  <2>7. loginFailures' + busy' < MaxLoginFailures + N
    BY <1>0, <2>3, <2>5, <2>6
  <2> QED
    BY <2>1, <2>7 DEF LoginsBounded, InFlight
<1>2. ASSUME NEW r \in LoginRequest, ComparePassword(r) PROVE LoginTyped' /\ LoginsBounded'
  <2>1. LoginTyped' /\ InFlight' = InFlight /\ loginFailures' = loginFailures
    BY <1>2 DEF ComparePassword, InFlight
  <2> QED
    BY <1>0, <2>1 DEF LoginsBounded, InFlight
<1>3. ASSUME NEW r \in LoginRequest, RecordLogin(r) PROVE LoginTyped' /\ LoginsBounded'
  <2>1. LoginTyped'
    BY <1>3 DEF RecordLogin
  <2>2. InFlight' = InFlight \ {r} /\ r \in InFlight
    BY <1>3 DEF RecordLogin, InFlight
  <2>3. busy' = busy - 1
    BY <1>0, <2>2, FS_RemoveElement
  <2>4. loginFailures' \in {loginFailures + 1, 0}
    BY <1>3 DEF RecordLogin
  <2>5. loginFailures' + busy' < MaxLoginFailures + N
    BY <1>0, <2>3, <2>4
  <2> QED
    BY <2>1, <2>5 DEF LoginsBounded, InFlight
<1>4. ASSUME ForgetFailure PROVE LoginTyped' /\ LoginsBounded'
  <2>1. LoginTyped' /\ InFlight' = InFlight /\ loginFailures' = loginFailures - 1
    BY <1>4 DEF ForgetFailure, InFlight
  <2> QED
    BY <1>0, <2>1 DEF LoginsBounded, InFlight
<1>5. ASSUME RestartLogin PROVE LoginTyped' /\ LoginsBounded'
  <2>1. LoginTyped' /\ InFlight' = {} /\ loginFailures' = 0
    BY <1>5 DEF RestartLogin, InFlight
  <2>2. busy' = 0
    BY <2>1, FS_EmptySet
  <2> QED
    BY <1>0, <2>1, <2>2 DEF LoginsBounded, InFlight
<1>6. ASSUME UNCHANGED loginVars PROVE LoginTyped' /\ LoginsBounded'
  BY <1>6 DEF loginVars, LoginsBounded
<1> QED
  BY <1>1, <1>2, <1>3, <1>4, <1>5, <1>6 DEF LoginNext

\* Failures inside the window and passwords still being compared never exceed
\* the limit by more than the requests that passed the check together, over
\* expiry, resets and restarts (LoginRateLimiter, the login route).
THEOREM LoginsStayBounded == LoginSpec => []LoginsBounded
<1>1. LoginInit => LoginTyped /\ LoginsBounded
  <2> SUFFICES ASSUME LoginInit PROVE LoginTyped /\ LoginsBounded
    OBVIOUS
  <2>1. LoginTyped /\ InFlight = {}
    BY DEF LoginInit, LoginTyped, InFlight
  <2> QED
    BY <2>1, LoginAssumption, FS_EmptySet, InFlightCounts DEF LoginInit, LoginsBounded, InFlight
<1>2. LoginTyped /\ LoginsBounded /\ [LoginNext]_loginVars => (LoginTyped /\ LoginsBounded)'
  BY LoginStep
<1> QED
  BY <1>1, <1>2, PTL DEF LoginSpec

-----------------------------------------------------------------------------
(* Library.                                                                *)

VersionRow == [digest : Digest, document : Nat]
ReviewRow == [status : {"pending", "in_review", "resolved", "dismissed"},
              by : Reviewer \cup {NoReviewer}, revisions : Nat]

\* An element of a parse there is; its rows go with the parse.
Placed(element) ==
    /\ VersionOf(element) \in DOMAIN versions /\ VersionOf(element) \in 1 .. MaxVersions
    /\ element[2] \in 1 .. Len(parses[VersionOf(element)])

ContentTyped ==
    /\ versions \in Seq(VersionRow) /\ Len(versions) <= MaxVersions
    /\ parses \in [1 .. MaxVersions -> Seq(ParsedSlide)]
    /\ \A c \in chunks : c = ChunkRow(c.element, c.content, c.active) /\ c.active \in BOOLEAN
    /\ \A r \in ftsRows : r = FtsRow(r.element, r.content)
    /\ reviews \in [DOMAIN reviews -> ReviewRow]

PlacedInv ==
    /\ \A c \in chunks : Placed(c.element)
    /\ \A r \in ftsRows : Placed(r.element)
    /\ \A e \in DOMAIN reviews : Placed(e)

\* The chunk of an element is the only one, and its full-text row is there
\* exactly while the chunk is active.
ChunkInv ==
    /\ \A c \in chunks, d \in chunks : c.element = d.element => c = d
    /\ \A c \in chunks : c.active <=> FtsRow(c.element, c.content) \in ftsRows
    /\ \A r \in ftsRows : \E c \in chunks : c.element = r.element /\ c.content = r.content

Resolved(element) == element \in DOMAIN reviews /\ reviews[element].status = "resolved"
CorrectedInv == \A r \in ftsRows : r.content = "corrected" <=> Resolved(r.element)

ReviewInv ==
    \A e \in DOMAIN reviews :
        /\ reviews[e].status \in {"pending", "in_review"} => reviews[e].revisions = 0
        /\ reviews[e].status \in {"resolved", "dismissed"} =>
              /\ reviews[e].by # NoReviewer
              /\ reviews[e].revisions = IF reviews[e].status = "resolved" THEN 1 ELSE 0

LibraryInv == ContentTyped /\ PlacedInv /\ ChunkInv /\ CorrectedInv /\ ReviewInv

LEMMA LibraryShown == LibraryInv => SearchShowsReviewedParse
<1> SUFFICES ASSUME LibraryInv PROVE SearchShowsReviewedParse
  OBVIOUS
<1>1. ASSUME NEW r \in ftsRows, NEW q \in ftsRows, r.element = q.element PROVE r = q
  <2>1. PICK c \in chunks : c.element = r.element /\ c.content = r.content
    BY DEF LibraryInv, ChunkInv
  <2>2. PICK d \in chunks : d.element = q.element /\ d.content = q.content
    BY DEF LibraryInv, ChunkInv
  <2>3. c = d
    BY <1>1, <2>1, <2>2 DEF LibraryInv, ChunkInv
  <2> QED
    BY <1>1, <2>1, <2>2, <2>3 DEF LibraryInv, ContentTyped
<1>2. Found \subseteq ftsRows
  BY DEF Found
<1> QED
  BY <1>1, <1>2 DEF LibraryInv, ChunkInv, CorrectedInv, Resolved, ReviewInv, SearchShowsReviewedParse

\* A set of numbers that is not empty has a least one, and a greatest one when
\* it is bounded.
LEMMA SmallestExists ==
    ASSUME NEW T, T \subseteq Nat, T # {} PROVE \E i \in T : \A j \in T : i <= j
<1> DEFINE Below == OpToRel(<, Nat)
<1>1. PICK i \in T : \A j \in T : <<j, i>> \notin Below
  <2>1. IsWellFoundedOn(Below, Nat)
    BY NatLessThanWellFounded
  <2> HIDE DEF Below
  <2> QED
    BY <2>1, WFMin
<1>2. \A j \in T : ~(j < i)
  BY <1>1 DEF OpToRel
<1> QED
  BY <1>2

LEMMA GreatestExists ==
    ASSUME NEW n \in Nat, NEW T \in SUBSET (1 .. n), T # {} PROVE \E i \in T : \A j \in T : j <= i
<1> DEFINE Bounds == {m \in Nat : \A j \in T : j <= m}
<1>1. n \in Bounds
  OBVIOUS
<1>2. PICK m \in Bounds : \A b \in Bounds : m <= b
  BY <1>1, SmallestExists
<1>3. ASSUME m \notin T PROVE FALSE
  <2>1. \A j \in T : j \in Nat /\ j >= 1 /\ j <= m - 1
    BY <1>3
  <2>2. \E j \in T : TRUE
    OBVIOUS
  <2>3. m - 1 \in Bounds
    BY <2>1, <2>2
  <2> QED
    BY <1>2, <2>3
<1> QED
  BY <1>3

\* An upload adds a version that has no rows yet.
LEMMA ImportKeeps == ASSUME LibraryInv, NEW digest \in Digest, ImportFile(digest) PROVE LibraryInv'
<1> USE ContentAssumption DEF LibraryInv
<1> DEFINE same == {v \in DOMAIN versions : Live(v) /\ versions[v].digest = digest}
           document == IF same = {} THEN Len(versions) + 1
                       ELSE DocumentOf(CHOOSE v \in same : \A w \in same : w <= v)
           row == [digest |-> digest, document |-> document]
<1>1. /\ versions' = Append(versions, row) /\ Len(versions) < MaxVersions
      /\ UNCHANGED <<parses, chunks, ftsRows, reviews>>
  BY DEF ImportFile
<1>2. document \in Nat
  <2>1. CASE same = {}
    BY <2>1 DEF ContentTyped
  <2>2. CASE same # {}
    <3>1. same \subseteq 1 .. Len(versions)
      BY DEF ContentTyped
    <3>2. (CHOOSE v \in same : \A w \in same : w <= v) \in 1 .. Len(versions)
      <4> HIDE DEF same
      <4>1. Len(versions) \in Nat
        BY DEF ContentTyped
      <4>2. \E v \in same : \A w \in same : w <= v
        BY <2>2, <3>1, <4>1, GreatestExists
      <4> QED
        BY <3>1, <4>2
    <3>3. \A v \in 1 .. Len(versions) : versions[v] \in VersionRow
      BY DEF ContentTyped
    <3> QED
      BY <2>2, <3>2, <3>3 DEF DocumentOf, VersionRow
  <2> QED
    BY <2>1, <2>2
<1> HIDE DEF document
<1>3. versions' \in Seq(VersionRow) /\ Len(versions') = Len(versions) + 1
  BY <1>1, <1>2 DEF ContentTyped, VersionRow
<1>4. ContentTyped'
  BY <1>1, <1>3 DEF ContentTyped
<1>5. DOMAIN versions \subseteq DOMAIN versions'
  BY <1>3 DEF ContentTyped
<1>6. PlacedInv'
  BY <1>1, <1>5 DEF PlacedInv, Placed, VersionOf
<1> QED
  BY <1>1, <1>4, <1>6 DEF ChunkInv, CorrectedInv, Resolved, ReviewInv

LEMMA HideKeeps == ASSUME LibraryInv, NEW doc \in DOMAIN versions, HideDocument(doc) PROVE LibraryInv'
<1> USE DEF LibraryInv
<1> DEFINE Gone(e) == DocumentOf(VersionOf(e)) = doc
           Hidden(c) == IF Gone(c.element) THEN ChunkRow(c.element, c.content, FALSE) ELSE c
<1>1. UNCHANGED <<versions, parses, reviews>>
  BY DEF HideDocument
<1>2. /\ \A r : r \in ftsRows' <=> r \in ftsRows /\ ~Gone(r.element)
      /\ \A c \in chunks' : \E d \in chunks : c = Hidden(d)
      /\ \A c \in chunks : Hidden(c) \in chunks'
  BY DEF HideDocument, RowsOf
<1>3. \A c \in chunks : Hidden(c).element = c.element /\ Hidden(c).content = c.content
  BY DEF ChunkRow
<1>4. \A c \in chunks : Hidden(c).active = IF Gone(c.element) THEN FALSE ELSE c.active
  BY DEF ChunkRow
<1>5. \A c \in chunks : Hidden(c) = ChunkRow(Hidden(c).element, Hidden(c).content, Hidden(c).active)
  BY DEF ChunkRow, ContentTyped
<1> HIDE DEF Gone, Hidden
<1>6. ContentTyped'
  <2>1. ASSUME NEW c \in chunks' PROVE c = ChunkRow(c.element, c.content, c.active) /\ c.active \in BOOLEAN
    <3>1. PICK d \in chunks : c = Hidden(d)
      BY <1>2
    <3>2. d.active \in BOOLEAN
      BY DEF ContentTyped
    <3> QED
      BY <1>4, <1>5, <3>1, <3>2
  <2> QED
    BY <1>1, <1>2, <2>1 DEF ContentTyped
<1>7. PlacedInv'
  BY <1>1, <1>2, <1>3 DEF PlacedInv, Placed, VersionOf
<1>8. ChunkInv'
  <2>1. \A c \in chunks', d \in chunks' : c.element = d.element => c = d
    BY <1>2, <1>3 DEF ChunkInv
  <2>2. ASSUME NEW c \in chunks' PROVE c.active <=> FtsRow(c.element, c.content) \in ftsRows'
    <3>1. PICK d \in chunks : c = Hidden(d)
      BY <1>2
    <3>2. FtsRow(c.element, c.content) = FtsRow(d.element, d.content)
      BY <1>3, <3>1
    <3>3. FtsRow(d.element, d.content) \in ftsRows' <=> FtsRow(d.element, d.content) \in ftsRows /\ ~Gone(d.element)
      BY <1>2 DEF FtsRow
    <3>4. d.active <=> FtsRow(d.element, d.content) \in ftsRows
      BY DEF ChunkInv
    <3>5. c.active = IF Gone(d.element) THEN FALSE ELSE d.active
      BY <1>4, <3>1
    <3> QED
      BY <3>2, <3>3, <3>4, <3>5
  <2>3. \A r \in ftsRows' : \E c \in chunks' : c.element = r.element /\ c.content = r.content
    BY <1>2, <1>3 DEF ChunkInv
  <2> QED
    BY <2>1, <2>2, <2>3 DEF ChunkInv
<1>9. CorrectedInv' /\ ReviewInv'
  BY <1>1, <1>2 DEF CorrectedInv, Resolved, ReviewInv
<1> QED
  BY <1>6, <1>7, <1>8, <1>9

LEMMA PurgeKeeps == ASSUME LibraryInv, NEW doc \in DOMAIN versions, PurgeRows(doc) PROVE LibraryInv'
<1> USE DEF LibraryInv
<1> DEFINE Gone(e) == DocumentOf(VersionOf(e)) = doc
<1>1. /\ versions' = versions
      /\ \A r : r \in ftsRows' <=> r \in ftsRows /\ ~Gone(r.element)
      /\ \A c : c \in chunks' <=> c \in chunks /\ ~Gone(c.element)
      /\ reviews' = [e \in {x \in DOMAIN reviews : ~Gone(x)} |-> reviews[e]]
      /\ parses' = [v \in DOMAIN parses |-> IF v \in DOMAIN versions /\ DocumentOf(v) = doc THEN <<>> ELSE parses[v]]
  BY DEF PurgeRows, RowsOf
<1>2. ASSUME NEW e, Placed(e), ~Gone(e) PROVE Placed(e)'
  BY <1>1, <1>2 DEF Placed, VersionOf, ContentTyped, Gone
<1> HIDE DEF Gone
<1>3. \A e : e \in DOMAIN reviews' <=> e \in DOMAIN reviews /\ ~Gone(e)
  BY <1>1
<1>4. \A e \in DOMAIN reviews' : reviews'[e] = reviews[e]
  BY <1>1
<1>5. ContentTyped'
  <2>1. parses' \in [1 .. MaxVersions -> Seq(ParsedSlide)]
    BY <1>1 DEF ContentTyped
  <2>2. reviews' \in [DOMAIN reviews' -> ReviewRow]
    BY <1>1, <1>3, <1>4 DEF ContentTyped
  <2> QED
    BY <1>1, <2>1, <2>2 DEF ContentTyped
<1>6. PlacedInv'
  <2>1. \A c \in chunks' : Placed(c.element)'
    BY <1>1, <1>2 DEF PlacedInv
  <2>2. \A r \in ftsRows' : Placed(r.element)'
    BY <1>1, <1>2 DEF PlacedInv
  <2>3. \A e \in DOMAIN reviews' : Placed(e)'
    BY <1>2, <1>3 DEF PlacedInv
  <2> QED
    BY <2>1, <2>2, <2>3 DEF PlacedInv, Placed
<1>7. ChunkInv'
  BY <1>1 DEF ChunkInv, FtsRow
<1>8. CorrectedInv'
  BY <1>1, <1>3, <1>4 DEF CorrectedInv, Resolved
<1>9. ReviewInv'
  BY <1>3, <1>4 DEF ReviewInv
<1> QED
  BY <1>5, <1>6, <1>7, <1>8, <1>9

\* The elements of a new parse are new, so its rows and tasks meet no others.
LEMMA PersistKeeps ==
    ASSUME LibraryInv, NEW v \in DOMAIN parses, NEW slide \in ParsedSlide, PersistParse(v, slide)
    PROVE  LibraryInv'
<1> USE ContentAssumption DEF LibraryInv
<1> DEFINE run == Len(parses[v]) + 1
           Id(name) == <<v, run, name>>
           searchable == {Id(p) : p \in {<<part, 0>> : part \in slide.parts \ slide.blank} \cup Charts(slide)}
           tasks == {Id(ChartName(i)) : i \in {k \in DOMAIN slide.charts : Doubtful(slide.charts[k])}}
           NewChunk(e) == ChunkRow(e, "parsed", TRUE)
           NewRow(e) == FtsRow(e, "parsed")
           Pending == [status |-> "pending", by |-> NoReviewer, revisions |-> 0]
<1>1. /\ v \in 1 .. MaxVersions /\ v \in DOMAIN versions /\ versions' = versions
      /\ parses' = [parses EXCEPT ![v] = Append(@, slide)]
  BY DEF PersistParse, Kept, ContentTyped
<1>2. /\ chunks' = chunks \cup {ChunkRow(e, "parsed", TRUE) : e \in searchable}
      /\ ftsRows' = ftsRows \cup {FtsRow(e, "parsed") : e \in searchable}
      /\ reviews' = [e \in DOMAIN reviews \cup tasks |-> IF e \in tasks THEN Pending ELSE reviews[e]]
  BY DEF PersistParse
<1>3. \A e \in searchable \cup tasks : VersionOf(e) = v /\ e[2] = run
  BY DEF VersionOf
<1>4. run \in Nat \ {0}
  BY <1>1 DEF ContentTyped
<1> HIDE DEF searchable, tasks
<1>5. /\ parses' \in [1 .. MaxVersions -> Seq(ParsedSlide)] /\ Len(parses'[v]) = run
      /\ \A w \in 1 .. MaxVersions : w # v => parses'[w] = parses[w]
  BY <1>1 DEF ContentTyped
<1>6. ASSUME NEW e, Placed(e) PROVE Placed(e)' /\ e \notin searchable \cup tasks
  <2>1. e \notin searchable \cup tasks
    BY <1>3, <1>4, <1>6 DEF Placed
  <2>2. CASE VersionOf(e) = v
    BY <1>1, <1>4, <1>5, <1>6, <2>1, <2>2 DEF Placed, VersionOf
  <2>3. CASE VersionOf(e) # v
    BY <1>1, <1>5, <1>6, <2>1, <2>3 DEF Placed, VersionOf
  <2> QED
    BY <2>2, <2>3
<1>7. \A e \in searchable \cup tasks : Placed(e)'
  BY <1>1, <1>3, <1>4, <1>5 DEF Placed, VersionOf
<1> HIDE DEF run
<1>8. /\ \A c \in chunks' : c \in chunks \/ \E e \in searchable : c = NewChunk(e)
      /\ chunks \subseteq chunks' /\ \A e \in searchable : NewChunk(e) \in chunks'
  BY <1>2
<1>9. /\ \A r \in ftsRows' : r \in ftsRows \/ \E e \in searchable : r = NewRow(e)
      /\ ftsRows \subseteq ftsRows' /\ \A e \in searchable : NewRow(e) \in ftsRows'
  BY <1>2
<1>10. \A e : /\ NewChunk(e).element = e /\ NewChunk(e).content = "parsed"
              /\ NewRow(e).element = e /\ NewRow(e).content = "parsed"
              /\ NewRow(e) = FtsRow(NewRow(e).element, NewRow(e).content)
              /\ NewRow(e) = FtsRow(NewChunk(e).element, NewChunk(e).content)
  BY DEF ChunkRow, FtsRow
<1>11. \A e : NewChunk(e).active = TRUE
  BY DEF ChunkRow
<1>12. \A e : NewChunk(e) = ChunkRow(NewChunk(e).element, NewChunk(e).content, NewChunk(e).active)
  BY DEF ChunkRow
<1> HIDE DEF NewChunk, NewRow
<1>13. DOMAIN reviews' = DOMAIN reviews \cup tasks
       /\ \A e \in DOMAIN reviews' : reviews'[e] = IF e \in tasks THEN Pending ELSE reviews[e]
  BY <1>2
<1>14. ContentTyped'
  <2>1. ASSUME NEW c \in chunks' PROVE c = ChunkRow(c.element, c.content, c.active) /\ c.active \in BOOLEAN
    <3>1. CASE c \in chunks
      BY <3>1 DEF ContentTyped
    <3>2. ASSUME NEW e \in searchable, c = NewChunk(e)
          PROVE  c = ChunkRow(c.element, c.content, c.active) /\ c.active \in BOOLEAN
      <4>1. c.active \in BOOLEAN
        BY <1>11, <3>2
      <4>2. c = ChunkRow(c.element, c.content, c.active)
        BY <1>12, <3>2
      <4> QED
        BY <4>1, <4>2
    <3> QED
      BY <1>8, <3>1, <3>2
  <2>2. \A r \in ftsRows' : r = FtsRow(r.element, r.content)
    BY <1>9, <1>10 DEF ContentTyped
  <2>3. Pending \in ReviewRow
    BY DEF ReviewRow
  <2>4. reviews' \in [DOMAIN reviews' -> ReviewRow]
    <3> HIDE DEF Pending
    <3> QED
      BY <1>2, <2>3 DEF ContentTyped
  <2> QED
    BY <1>1, <1>5, <2>1, <2>2, <2>4 DEF ContentTyped
<1>15. PlacedInv'
  <2>1. \A c \in chunks' : Placed(c.element)'
    BY <1>6, <1>7, <1>8, <1>10 DEF PlacedInv
  <2>2. \A r \in ftsRows' : Placed(r.element)'
    BY <1>6, <1>7, <1>9, <1>10 DEF PlacedInv
  <2>3. \A e \in DOMAIN reviews' : Placed(e)'
    BY <1>6, <1>7, <1>13 DEF PlacedInv
  <2> QED
    BY <2>1, <2>2, <2>3 DEF PlacedInv, Placed
<1>16. ChunkInv'
  <2>1. \A c \in chunks : c.element \notin searchable
    BY <1>6 DEF PlacedInv
  <2>2. \A c \in chunks', d \in chunks' : c.element = d.element => c = d
    BY <1>8, <1>10, <2>1 DEF ChunkInv
  <2>3. ASSUME NEW c \in chunks' PROVE c.active <=> FtsRow(c.element, c.content) \in ftsRows'
    <3>1. CASE c \in chunks
      <4>1. \A e \in searchable : FtsRow(c.element, c.content) # NewRow(e)
        BY <1>10, <2>1, <3>1 DEF FtsRow
      <4> QED
        BY <1>9, <3>1, <4>1 DEF ChunkInv
    <3>2. CASE \E e \in searchable : c = NewChunk(e)
      BY <1>9, <1>10, <1>11, <3>2
    <3> QED
      BY <1>8, <3>1, <3>2
  <2>4. \A r \in ftsRows' : \E c \in chunks' : c.element = r.element /\ c.content = r.content
    BY <1>8, <1>9, <1>10 DEF ChunkInv
  <2> QED
    BY <2>2, <2>3, <2>4 DEF ChunkInv
<1>17. CorrectedInv'
  <2>1. \A e : Placed(e) => (Resolved(e)' <=> Resolved(e))
    BY <1>6, <1>13 DEF Resolved
  <2>2. \A e \in searchable : ~Resolved(e)'
    BY <1>6, <1>13 DEF Resolved, PlacedInv
  <2>3. ASSUME NEW r \in ftsRows' PROVE r.content = "corrected" <=> Resolved(r.element)'
    <3>1. CASE r \in ftsRows
      BY <2>1, <3>1 DEF CorrectedInv, PlacedInv
    <3>2. CASE \E e \in searchable : r = NewRow(e)
      BY <1>10, <2>2, <3>2
    <3> QED
      BY <1>9, <3>1, <3>2
  <2> QED
    BY <2>3 DEF CorrectedInv, Resolved
<1>18. ReviewInv'
  BY <1>13 DEF ReviewInv
<1> QED
  BY <1>14, <1>15, <1>16, <1>17, <1>18

\* A reviewer takes or closes the task of an element, which leaves it placed.
LEMMA ClaimKeeps ==
    ASSUME LibraryInv, NEW element \in DOMAIN reviews, NEW user \in Reviewer,
           ClaimReview(element, user) \/ DismissReview(element, user)
    PROVE  LibraryInv'
<1> USE ContentAssumption DEF LibraryInv
<1>1. /\ UNCHANGED <<versions, parses, chunks, ftsRows>> /\ reviews[element].status \in {"pending", "in_review"}
      /\ \E status \in {"in_review", "dismissed"} :
            reviews' = [reviews EXCEPT ![element].status = status, ![element].by = user]
  BY DEF ClaimReview, DismissReview, Open
<1>2. DOMAIN reviews' = DOMAIN reviews /\ \A e \in DOMAIN reviews \ {element} : reviews'[e] = reviews[e]
  BY <1>1 DEF ContentTyped
<1>3. /\ reviews'[element].status \in {"in_review", "dismissed"} /\ reviews'[element].by = user
      /\ reviews'[element].revisions = reviews[element].revisions
      /\ reviews'[element] \in ReviewRow
  <2>1. PICK status \in {"in_review", "dismissed"} :
          reviews' = [reviews EXCEPT ![element].status = status, ![element].by = user]
    BY <1>1
  <2>2. reviews[element] \in ReviewRow
    BY DEF ContentTyped
  <2>3. reviews'[element] = [[reviews[element] EXCEPT !.status = status] EXCEPT !.by = user]
    BY <2>1 DEF ContentTyped
  <2> QED
    BY <2>2, <2>3 DEF ReviewRow
<1>4. ContentTyped'
  <2>1. reviews' \in [DOMAIN reviews' -> ReviewRow]
    BY <1>1, <1>2, <1>3 DEF ContentTyped
  <2> QED
    BY <1>1, <2>1 DEF ContentTyped
<1>5. PlacedInv'
  BY <1>1, <1>2 DEF PlacedInv, Placed, VersionOf
<1>6. \A e : Resolved(e)' <=> Resolved(e)
  BY <1>1, <1>2, <1>3 DEF Resolved
<1>7. ChunkInv' /\ CorrectedInv'
  BY <1>1, <1>6 DEF ChunkInv, CorrectedInv
<1>8. ReviewInv'
  BY <1>1, <1>2, <1>3 DEF ReviewInv
<1> QED
  BY <1>4, <1>5, <1>7, <1>8

LEMMA ResolveKeeps ==
    ASSUME LibraryInv, NEW element \in DOMAIN reviews, NEW user \in Reviewer, ResolveReview(element, user)
    PROVE  LibraryInv'
<1> USE ContentAssumption DEF LibraryInv
<1> DEFINE row == FtsRow(element, "corrected")
           fresh == ChunkRow(element, "corrected", TRUE)
<1>1. /\ UNCHANGED <<versions, parses>> /\ reviews[element].status \in {"pending", "in_review"}
      /\ reviews' = [reviews EXCEPT ![element] =
            [status |-> "resolved", by |-> user, revisions |-> reviews[element].revisions + 1]]
  BY DEF ResolveReview, Open
<1>2. /\ \A c : c \in chunks' <=> (c \in chunks /\ c.element # element) \/ c = fresh
      /\ \A r : r \in ftsRows' <=> (r \in ftsRows /\ r.element # element) \/ r = row
  BY DEF ResolveReview, Superseded
<1>3. /\ fresh.element = element /\ fresh.content = "corrected" /\ fresh.active = TRUE
      /\ row.element = element /\ row.content = "corrected"
      /\ fresh = ChunkRow(fresh.element, fresh.content, fresh.active) /\ row = FtsRow(row.element, row.content)
  BY DEF ChunkRow, FtsRow
<1>4. FtsRow(fresh.element, fresh.content) = row
  BY <1>3
<1> HIDE DEF row, fresh
<1>5. DOMAIN reviews' = DOMAIN reviews /\ \A e \in DOMAIN reviews \ {element} : reviews'[e] = reviews[e]
  BY <1>1 DEF ContentTyped
<1>6. /\ reviews'[element].status = "resolved" /\ reviews'[element].by = user
      /\ reviews'[element].revisions = 1 /\ reviews'[element] \in ReviewRow
  <2>1. reviews[element].revisions = 0
    BY <1>1 DEF ReviewInv
  <2> QED
    BY <1>1, <2>1 DEF ContentTyped, ReviewRow
<1>7. ContentTyped'
  <2>1. reviews' \in [DOMAIN reviews' -> ReviewRow]
    BY <1>1, <1>5, <1>6 DEF ContentTyped
  <2> QED
    BY <1>1, <1>2, <1>3, <2>1 DEF ContentTyped
<1>8. PlacedInv'
  BY <1>1, <1>2, <1>3, <1>5 DEF PlacedInv, Placed, VersionOf
<1>9. ChunkInv'
  <2>1. \A c \in chunks', d \in chunks' : c.element = d.element => c = d
    BY <1>2, <1>3 DEF ChunkInv
  <2>2. ASSUME NEW c \in chunks' PROVE c.active <=> FtsRow(c.element, c.content) \in ftsRows'
    <3>1. CASE c = fresh
      BY <1>2, <1>3, <1>4, <3>1
    <3>2. CASE c \in chunks /\ c.element # element
      <4>1. FtsRow(c.element, c.content).element # element /\ FtsRow(c.element, c.content) # row
        BY <1>3, <3>2 DEF FtsRow
      <4> QED
        BY <1>2, <3>2, <4>1 DEF ChunkInv
    <3> QED
      BY <1>2, <3>1, <3>2
  <2>3. ASSUME NEW r \in ftsRows' PROVE \E c \in chunks' : c.element = r.element /\ c.content = r.content
    BY <1>2, <1>3 DEF ChunkInv
  <2> QED
    BY <2>1, <2>2, <2>3 DEF ChunkInv
<1>10. CorrectedInv'
  BY <1>2, <1>3, <1>5, <1>6 DEF CorrectedInv, Resolved
<1>11. ReviewInv'
  BY <1>5, <1>6 DEF ReviewInv
<1> QED
  BY <1>7, <1>8, <1>9, <1>10, <1>11

LEMMA LibraryStep == LibraryInv /\ [ContentNext]_contentVars => LibraryInv'
<1> SUFFICES ASSUME LibraryInv, [ContentNext]_contentVars PROVE LibraryInv'
  OBVIOUS
<1>1. CASE UNCHANGED contentVars
  BY <1>1 DEF contentVars, LibraryInv, ContentTyped, PlacedInv, Placed, VersionOf, ChunkInv, CorrectedInv, Resolved,
              ReviewInv
<1> QED
  BY <1>1, ImportKeeps, PersistKeeps, HideKeeps, PurgeKeeps, ClaimKeeps, ResolveKeeps DEF ContentNext

\* What a search finds of a document is the parse that is active, each element
\* once, and it reads "corrected" exactly where a reviewer resolved the task;
\* chunks and full-text rows agree, and a closed task names who closed it
\* (persist_parsed, ReviewService, delete and purge of a document).
THEOREM SearchesShowReviewedParses == ContentSpec => []SearchShowsReviewedParse
<1>1. ContentInit => LibraryInv
  <2> SUFFICES ASSUME ContentInit PROVE LibraryInv
    OBVIOUS
  <2>1. ContentTyped
    BY ContentAssumption DEF ContentInit, ContentTyped
  <2> QED
    BY <2>1 DEF ContentInit, LibraryInv, PlacedInv, ChunkInv, CorrectedInv, ReviewInv
<1> QED
  BY <1>1, LibraryShown, LibraryStep, PTL DEF ContentSpec

-----------------------------------------------------------------------------
(* Retrieval: lists of rows.                                               *)

LEMMA MaxOfTwo ==
    ASSUME NEW a \in Nat, NEW b \in Nat PROVE Max({a, b}) \in Nat /\ Max({a, b}) >= a /\ Max({a, b}) >= b
<1>1. a <= a + b /\ b <= a + b /\ a + b \in Nat
  OBVIOUS
<1>2. Max({a, b}) \in {a, b} /\ \A i \in {a, b} : i <= Max({a, b})
  BY <1>1, BoundedMax
<1> QED
  BY <1>2

LEMMA UptoHolds ==
    ASSUME NEW S, NEW rows \in Seq(S), NEW n \in Nat
    PROVE  /\ Upto(rows, n) \in Seq(S)
           /\ \A i \in DOMAIN Upto(rows, n) : i \in DOMAIN rows /\ Upto(rows, n)[i] = rows[i]
           /\ Upto(rows, n) # <<>> <=> n > 0 /\ rows # <<>>
BY FirstFew DEF Upto

-----------------------------------------------------------------------------
(* Retrieval: the lanes of a query.                                        *)

LEMMA ScopedHolds ==
    ASSUME NEW S, NEW req, req.library \in Seq(S) PROVE Scoped(req) \in Seq(S)
BY KeptHolds DEF Scoped

\* More room does not lose what was found.
LEMMA LexicalHolds ==
    ASSUME NEW S, NEW req, req.library \in Seq(S), NEW query, NEW k \in Nat, NEW limit \in Nat, k <= limit
    PROVE  /\ LexicalSearch(req, query, limit) \in Seq(S)
           /\ LexicalSearch(req, query, k) # <<>> => LexicalSearch(req, query, limit) # <<>>
<1> DEFINE rows == Scoped(req)
           matches == KeepAt(rows, {i \in DOMAIN rows : query.terms \cap rows[i].text # {}})
           score == [c \in ToSet(matches) |-> LexicalScore(query, c)]
           ranked == Sorted(matches, Above(matches, score))
<1>1. LexicalSearch(req, query, limit) = Upto(ranked, limit) /\ LexicalSearch(req, query, k) = Upto(ranked, k)
  BY Zenon DEF LexicalSearch
<1>2. rows \in Seq(S)
  BY ScopedHolds
<1> HIDE DEF rows
<1>3. matches \in Seq(S)
  BY <1>2, KeptHolds
<1> HIDE DEF matches
<1>4. ranked \in Seq(S)
  BY <1>3, SortedHolds
<1> HIDE DEF ranked
<1> QED
  BY <1>1, <1>4, UptoHolds

LEMMA VectorHolds ==
    ASSUME NEW S, NEW req, req.library \in Seq(S), NEW limit \in Nat
    PROVE  VectorSearch(req, limit) \in Seq(S)
<1> DEFINE rows == Scoped(req)
           near == KeepAt(rows, {i \in DOMAIN rows : rows[i].similarity >= MinSimilarity})
           ranked == Sorted(near, Nearer(near))
<1>1. VectorSearch(req, limit) = Upto(ranked, limit)
  BY Zenon DEF VectorSearch
<1>2. near \in Seq(S)
  BY ScopedHolds, KeptHolds
<1> HIDE DEF near
<1>3. ranked \in Seq(S)
  BY <1>2, SortedHolds
<1> HIDE DEF ranked
<1> QED
  BY <1>1, <1>3, UptoHolds

LEMMA FuseHolds ==
    ASSUME NEW S, NEW lexical \in Seq(S), NEW vector \in Seq(S), NEW limit \in Nat \ {0}
    PROVE  Fuse(lexical, vector, limit) \in Seq(S) /\ (lexical # <<>> => Fuse(lexical, vector, limit) # <<>>)
<1> DEFINE kept == KeepAt(vector, {i \in DOMAIN vector : \A k \in DOMAIN lexical : lexical[k].id # vector[i].id})
           rows == lexical \o kept
           score == [c \in ToSet(rows) |-> Contribution(lexical, LexicalWeight, RrfK, c)
                                             + Contribution(vector, VectorWeight, RrfK, c)]
           ranked == Sorted(rows, AboveById(rows, score))
<1>1. Fuse(lexical, vector, limit) = Upto(ranked, limit)
  BY Zenon DEF Fuse
<1>2. kept \in Seq(S)
  BY KeptHolds
<1> HIDE DEF kept
<1>3. rows \in Seq(S) /\ (lexical # <<>> => rows # <<>>)
  BY <1>2
<1> HIDE DEF rows
<1>4. ranked \in Seq(S) /\ ToSet(ranked) = ToSet(rows)
  BY <1>3, SortedHolds
<1> HIDE DEF ranked
<1>5. lexical # <<>> => ranked # <<>>
  BY <1>3, <1>4, ToSetHolds
<1> QED
  BY <1>1, <1>4, <1>5, UptoHolds

\* Whatever the vector store answers, what the full-text lane found is not for nothing.
LEMMA LanesHold ==
    ASSUME NEW S, NEW lexical \in Seq(S), NEW vector \in Seq(S), NEW limit \in Nat \ {0}, NEW mode
    PROVE  /\ SelectLanes(mode, lexical, vector, limit) \in Seq(S)
           /\ lexical # <<>> => SelectLanes(mode, lexical, vector, limit) # <<>>
<1>1. CASE mode = "fts" \/ vector = <<>>
  BY <1>1 DEF SelectLanes
<1>2. CASE mode # "fts" /\ vector # <<>> /\ (mode = "vector" \/ lexical = <<>>)
  BY <1>2 DEF SelectLanes
<1>3. CASE ~(mode = "fts" \/ vector = <<>>) /\ ~(mode # "fts" /\ vector # <<>> /\ (mode = "vector" \/ lexical = <<>>))
  <2>1. SelectLanes(mode, lexical, vector, limit) = Fuse(lexical, vector, limit)
    BY <1>3 DEF SelectLanes
  <2> QED
    BY <2>1, FuseHolds
<1> QED
  BY <1>1, <1>2, <1>3

-----------------------------------------------------------------------------
(* Retrieval: the passes of SelectDiverse.                                 *)

\* The steps of a pass, which have a value.
Picks(taken, S, first, rows, topK, pass) ==
    /\ taken[0] = first
    /\ \A i \in 1 .. Len(rows) : taken[i] = TakeRow(taken[i - 1], rows[i], topK, pass)
    /\ \A i \in 0 .. Len(rows) : taken[i] \in Seq(S)

LEMMA TakeSteps ==
    ASSUME NEW S, NEW first \in Seq(S), NEW rows \in Seq(S), NEW topK, NEW pass
    PROVE  \E taken : Picks(taken, S, first, rows, topK, pass) /\ Take(first, rows, topK, pass) = taken[Len(rows)]
<1> DEFINE N == Len(rows)
           X == Seq(S)
           Step(i, s) == TakeRow(s, rows[i], topK, pass)
           Takes(f) == f = [n \in 0 .. N |-> IF n = 0 THEN first ELSE Step(n, f[n - 1])]
           taken == CHOOSE f : Takes(f)
<1>1. N \in Nat /\ first \in X /\ \A i \in 1 .. N : \A s \in X : Step(i, s) \in X
  <2>1. ASSUME NEW i \in 1 .. N, NEW s \in X PROVE Append(s, rows[i]) \in X
    OBVIOUS
  <2> QED
    BY <2>1 DEF TakeRow
<1>2. Take(first, rows, topK, pass) = taken[N]
  BY DEF Take
<1> HIDE DEF N, X, Step
<1>3. \E f \in [0 .. N -> X] : Takes(f)
  <2> DEFINE next == [i \in 1 .. N |-> [s \in X |-> Step(i, s)]]
  <2>1. next \in StepsOn(X, N)
    BY <1>1 DEF StepsOn
  <2>2. \A i \in 1 .. N : \A s \in X : next[i][s] = Step(i, s)
    OBVIOUS
  <2> HIDE DEF next
  <2>3. PICK f : Follows(f, X, N, first, next)
    BY <1>1, <2>1, Recursion
  <2>4. \A i \in 1 .. N : f[i] = Step(i, f[i - 1])
    <3>1. \A i \in 1 .. N : f[i - 1] \in X
      BY <1>1, <2>3 DEF Follows
    <3> QED
      BY <2>2, <2>3, <3>1 DEF Follows
  <2>5. ASSUME NEW n \in 0 .. N PROVE f[n] = IF n = 0 THEN first ELSE Step(n, f[n - 1])
    <3>1. n = 0 \/ n \in 1 .. N
      BY <1>1
    <3> QED
      BY <2>3, <2>4, <3>1 DEF Follows
  <2>6. Takes(f)
    BY <2>3, <2>5 DEF Follows
  <2> QED
    BY <2>3, <2>6 DEF Follows
<1>4. Takes(taken)
  BY <1>3
<1> HIDE DEF taken
<1>5. taken[0] = first /\ \A i \in 1 .. N : taken[i] = Step(i, taken[i - 1])
  <2>1. 0 \in 0 .. N /\ \A i \in 1 .. N : i \in 0 .. N /\ i # 0
    BY <1>1
  <2> QED
    BY <1>4, <2>1
<1> HIDE DEF Takes
<1>6. \A i \in 0 .. N : taken[i] \in X
  <2> DEFINE T == {i \in 0 .. N : taken[i] \in X}
  <2>1. 0 \in T
    BY <1>1, <1>5
  <2>2. \A i \in 1 .. N : i - 1 \in T => i \in T
    BY <1>1, <1>5
  <2> HIDE DEF T
  <2>3. \A i \in 0 .. N : i \in T
    BY <1>1, <2>1, <2>2, Induction
  <2> QED
    BY <2>3 DEF T
<1> QED
  BY <1>2, <1>5, <1>6 DEF N, X, Step, Picks

\* A pass goes on from what there is, has room for topK rows, and takes from the list.
LEMMA TakeExtends ==
    ASSUME NEW S, NEW first \in Seq(S), NEW rows \in Seq(S), NEW topK \in Nat, Len(first) <= topK, NEW pass
    PROVE  LET all == Take(first, rows, topK, pass)
           IN /\ all \in Seq(S) /\ Len(all) <= topK
              /\ ToSet(first) \subseteq ToSet(all)
              /\ ToSet(all) \subseteq ToSet(first) \cup ToSet(rows)
              /\ Len(first) = topK => all = first
              /\ topK > 0 /\ rows # <<>> => all # <<>>
<1> DEFINE N == Len(rows)
<1>1. N \in Nat
  OBVIOUS
<1>2. PICK taken : Picks(taken, S, first, rows, topK, pass) /\ Take(first, rows, topK, pass) = taken[N]
  BY TakeSteps
<1> DEFINE Holds(n, s) == /\ Len(s) <= topK /\ ToSet(first) \subseteq ToSet(s)
                          /\ ToSet(s) \subseteq ToSet(first) \cup ToSet(rows)
                          /\ Len(first) = topK => s = first
                          /\ topK > 0 /\ n > 0 => s # <<>>
           T == {n \in 0 .. N : Holds(n, taken[n])}
<1>3. 0 \in T
  BY <1>1, <1>2 DEF Picks
<1>4. ASSUME NEW n \in 1 .. N, n - 1 \in T PROVE n \in T
  <2> DEFINE before == taken[n - 1]
             row == rows[n]
             longer == Append(before, row)
  <2>1. before \in Seq(S) /\ row \in S /\ row \in ToSet(rows)
    BY <1>1, <1>2 DEF ToSet, Picks
  <2>2. taken[n] = TakeRow(before, row, topK, pass) /\ Holds(n - 1, before)
    BY <1>2, <1>4 DEF Picks
  <2> HIDE DEF before, row
  <2>3. /\ longer \in Seq(S) /\ Len(longer) = Len(before) + 1 /\ Len(before) \in Nat /\ longer # <<>>
        /\ ToSet(longer) = ToSet(before) \cup {row}
    <3>1. /\ longer \in Seq(S) /\ Len(longer) = Len(before) + 1 /\ Len(before) \in Nat
          /\ \A i \in 1 .. Len(before) : longer[i] = before[i]
          /\ longer[Len(before) + 1] = row
          /\ DOMAIN longer = 1 .. Len(before) + 1 /\ DOMAIN before = 1 .. Len(before)
      BY <2>1
    <3> HIDE DEF longer
    <3> QED
      BY <3>1 DEF ToSet
  <2> HIDE DEF longer
  <2>4. CASE taken[n] = longer /\ Len(before) < topK
    <3>1. Len(first) # topK
      BY <2>2, <2>4
    <3> QED
      BY <2>1, <2>2, <2>3, <2>4, <3>1
  <2>5. CASE taken[n] = before /\ ~(before = <<>> /\ topK > 0)
    BY <2>1, <2>2, <2>3, <2>5
  <2>6. before = <<>> /\ topK > 0 => taken[n] = longer /\ Len(before) < topK
    BY <2>2 DEF TakeRow, longer
  <2>7. (taken[n] = longer /\ Len(before) < topK) \/ taken[n] = before
    BY <2>2 DEF TakeRow, longer
  <2> QED
    BY <2>4, <2>5, <2>6, <2>7
<1>5. N \in T
  <2> HIDE DEF T
  <2>1. \A i \in 1 .. N : i - 1 \in T => i \in T
    BY <1>4
  <2>2. \A i \in 0 .. N : i \in T
    BY <1>1, <1>3, <2>1, Induction
  <2> QED
    BY <1>1, <2>2
<1>6. rows # <<>> => N > 0
  OBVIOUS
<1>7. taken[N] \in Seq(S) /\ Holds(N, taken[N])
  BY <1>1, <1>2, <1>5 DEF Picks
<1> HIDE DEF N, T
<1> QED
  BY <1>2, <1>6, <1>7

\* No two rows of a class from a place on, where there were none.
Distinct(rows, pass, from) ==
    \A i \in DOMAIN rows, k \in DOMAIN rows :
      from <= i /\ from <= k /\ ClassOf(rows[i], pass) = ClassOf(rows[k], pass) => i = k

LEMMA TakeRowDistinct ==
    ASSUME NEW S, NEW taken \in Seq(S), NEW c \in S, NEW topK, NEW pass, NEW class \in {pass, "rest"}, NEW from,
           Distinct(taken, class, from)
    PROVE  Distinct(TakeRow(taken, c, topK, pass), class, from)
<1> DEFINE longer == Append(taken, c)
<1>1. CASE TakeRow(taken, c, topK, pass) = taken
  BY <1>1
<1>2. CASE TakeRow(taken, c, topK, pass) # taken
  <2>1. /\ TakeRow(taken, c, topK, pass) = longer
        /\ \A i \in DOMAIN taken : taken[i].id # c.id /\ ClassOf(taken[i], pass) # ClassOf(c, pass)
    BY <1>2 DEF TakeRow
  <2>2. \A i \in DOMAIN taken : ClassOf(taken[i], class) # ClassOf(c, class)
    <3>1. CASE class = pass
      BY <2>1, <3>1
    <3>2. CASE class = "rest"
      BY <2>1, <3>2 DEF ClassOf
    <3> QED
      BY <3>1, <3>2
  <2>3. /\ Len(taken) \in Nat /\ DOMAIN taken = 1 .. Len(taken) /\ DOMAIN longer = 1 .. Len(taken) + 1
        /\ \A i \in DOMAIN taken : longer[i] = taken[i]
        /\ longer[Len(taken) + 1] = c
    OBVIOUS
  <2> HIDE DEF longer
  <2>4. ASSUME NEW i \in DOMAIN longer, NEW k \in DOMAIN longer, from <= i, from <= k, ClassOf(longer[i], class) = ClassOf(longer[k], class)
        PROVE  i = k
    <3>1. (i \in DOMAIN taken \/ i = Len(taken) + 1) /\ (k \in DOMAIN taken \/ k = Len(taken) + 1)
      BY <2>3
    <3> QED
      BY <2>2, <2>3, <2>4, <3>1 DEF Distinct
  <2> QED
    BY <2>1, <2>4 DEF Distinct
<1> QED
  BY <1>1, <1>2

LEMMA TakeDistinct ==
    ASSUME NEW S, NEW first \in Seq(S), NEW rows \in Seq(S), NEW topK, NEW pass, NEW class \in {pass, "rest"}, NEW from,
           Distinct(first, class, from)
    PROVE  Distinct(Take(first, rows, topK, pass), class, from)
<1> DEFINE N == Len(rows)
<1>1. N \in Nat /\ \A i \in 1 .. N : rows[i] \in S
  OBVIOUS
<1>2. PICK taken : Picks(taken, S, first, rows, topK, pass) /\ Take(first, rows, topK, pass) = taken[N]
  BY TakeSteps
<1> DEFINE T == {n \in 0 .. N : Distinct(taken[n], class, from)}
<1>3. 0 \in T
  BY <1>1, <1>2 DEF Picks
<1>4. ASSUME NEW n \in 1 .. N, n - 1 \in T PROVE n \in T
  <2>1. taken[n - 1] \in Seq(S) /\ taken[n] = TakeRow(taken[n - 1], rows[n], topK, pass)
    BY <1>1, <1>2, <1>4 DEF Picks
  <2>2. Distinct(TakeRow(taken[n - 1], rows[n], topK, pass), class, from)
    BY <1>1, <1>4, <2>1, TakeRowDistinct
  <2> QED
    BY <1>1, <2>1, <2>2
<1> HIDE DEF T
<1>5. \A i \in 1 .. N : i - 1 \in T => i \in T
  BY <1>4
<1>6. \A i \in 0 .. N : i \in T
  BY <1>1, <1>3, <1>5, Induction
<1> QED
  BY <1>1, <1>2, <1>6 DEF T

\* An id names one row.
ById(rows) == \A c \in rows, d \in rows : c.id = d.id => c = d

\* A pass that ends with room left has a row of every class.
LEMMA TakeCovers ==
    ASSUME NEW S, NEW first \in Seq(S), NEW rows \in Seq(S), NEW topK \in Nat, NEW pass, ById(S),
           Len(Take(first, rows, topK, pass)) < topK
    PROVE  LET all == Take(first, rows, topK, pass)
           IN \A i \in DOMAIN rows : \E k \in DOMAIN all : ClassOf(all[k], pass) = ClassOf(rows[i], pass)
<1> DEFINE N == Len(rows)
<1>1. N \in Nat /\ DOMAIN rows = 1 .. N /\ \A i \in 1 .. N : rows[i] \in S
  OBVIOUS
<1>2. PICK taken : Picks(taken, S, first, rows, topK, pass) /\ Take(first, rows, topK, pass) = taken[N]
  BY TakeSteps
<1> DEFINE Covered(s, n) == \A i \in 1 .. n : \E k \in DOMAIN s : ClassOf(s[k], pass) = ClassOf(rows[i], pass)
           T == {n \in 0 .. N : Len(taken[n]) < topK => Covered(taken[n], n)}
<1>3. 0 \in T
  BY <1>1
<1>4. ASSUME NEW n \in 1 .. N, n - 1 \in T PROVE n \in T
  <2> DEFINE before == taken[n - 1]
             row == rows[n]
             longer == Append(before, row)
  <2>1. before \in Seq(S) /\ row \in S /\ taken[n] = TakeRow(before, row, topK, pass)
    BY <1>1, <1>2 DEF Picks
  <2>2. Len(before) < topK => Covered(before, n - 1)
    BY <1>4
  <2>3. \A i \in 1 .. n : i \in 1 .. n - 1 \/ i = n
    BY <1>1
  <2> HIDE DEF before
  <2>4. /\ Len(longer) = Len(before) + 1 /\ Len(before) \in Nat
        /\ Len(before) + 1 \in DOMAIN longer /\ longer[Len(before) + 1] = row
        /\ \A k \in DOMAIN before : k \in DOMAIN longer /\ longer[k] = before[k] /\ before[k] \in S
    BY <2>1
  <2> HIDE DEF longer
  <2>5. ASSUME Len(taken[n]) < topK PROVE Covered(taken[n], n)
    <3>1. CASE taken[n] = longer
      <4>1. Covered(before, n - 1)
        BY <2>2, <2>4, <2>5, <3>1
      <4>2. ASSUME NEW i \in 1 .. n PROVE \E k \in DOMAIN longer : ClassOf(longer[k], pass) = ClassOf(rows[i], pass)
        <5>1. CASE i \in 1 .. n - 1
          BY <2>4, <4>1, <5>1
        <5>2. CASE i = n
          BY <2>4, <5>2
        <5> QED
          BY <2>3, <5>1, <5>2
      <4> QED
        BY <3>1, <4>2
    <3>2. CASE taken[n] # longer
      <4>1. taken[n] = before
        BY <2>1, <3>2 DEF TakeRow, longer
      <4>2. PICK k \in DOMAIN before : before[k].id = row.id \/ ClassOf(before[k], pass) = ClassOf(row, pass)
        BY <2>1, <2>5, <3>2, <4>1 DEF TakeRow, longer
      <4>3. before[k].id = row.id => before[k] = row
        BY <2>1, <2>4 DEF ById
      <4>4. ClassOf(before[k], pass) = ClassOf(rows[n], pass)
        BY <4>2, <4>3
      <4> QED
        BY <2>2, <2>3, <2>5, <4>1, <4>4
    <3> QED
      BY <3>1, <3>2
  <2> QED
    BY <1>1, <2>5
<1>5. N \in T
  <2> HIDE DEF T
  <2>1. \A i \in 1 .. N : i - 1 \in T => i \in T
    BY <1>4
  <2>2. \A i \in 0 .. N : i \in T
    BY <1>1, <1>3, <2>1, Induction
  <2> QED
    BY <1>1, <2>2
<1> QED
  BY <1>1, <1>2, <1>5

\* What is chosen for a provenance class has its place as long as there is room,
\* and a class that has a row has one among them.
Tells(rows, class) == \E c \in rows : class \in c.tells

LEMMA BestHolds ==
    ASSUME NEW S, NEW rows \in Seq(S), NEW taken \in Seq(S), NEW topK \in Nat, Len(taken) <= topK, NEW class
    PROVE  LET new == TakeBest(taken, rows, topK, class)
           IN /\ new \in Seq(S) /\ Len(new) <= topK /\ Len(new) <= Len(taken) + 1
              /\ ToSet(taken) \subseteq ToSet(new)
              /\ Distinct(taken, "rest", 1) => Distinct(new, "rest", 1)
              /\ ById(S) /\ Len(taken) < topK /\ Tells(ToSet(rows), class) => Tells(ToSet(new), class)
<1> DEFINE places == {i \in DOMAIN rows : class \in rows[i].tells /\ \A k \in DOMAIN taken : taken[k].id # rows[i].id}
           left == KeepAt(rows, places)
           near == {i \in DOMAIN left : left[i].slide \in PreferredSlides(class)}
           preferred == KeepAt(left, near)
           best == preferred \o left
           longer == Append(taken, best[1])
           L == {rows[i] : i \in places}
           new == TakeBest(taken, rows, topK, class)
<1>1. new = IF left = <<>> \/ Len(taken) >= topK THEN taken ELSE longer
  BY Zenon DEF TakeBest
<1>2. /\ left \in Seq(L) /\ ToSet(left) = L /\ L \subseteq S
      /\ \A c \in L : c \in S /\ class \in c.tells /\ \A k \in DOMAIN taken : taken[k].id # c.id
  <2>1. places \subseteq DOMAIN rows /\ \A i \in DOMAIN rows : rows[i] \in S
    OBVIOUS
  <2>2. \A c \in L : c \in S /\ class \in c.tells /\ \A k \in DOMAIN taken : taken[k].id # c.id
    BY <2>1
  <2> HIDE DEF places
  <2> QED
    BY <2>1, <2>2, KeptSet
<1>3. Tells(ToSet(rows), class) /\ ById(S) => Tells(ToSet(taken), class) \/ L # {}
  <2> SUFFICES ASSUME Tells(ToSet(rows), class), ById(S), L = {} PROVE Tells(ToSet(taken), class)
    OBVIOUS
  <2>1. PICK i \in DOMAIN rows : class \in rows[i].tells
    BY DEF Tells, ToSet
  <2>2. i \notin places
    OBVIOUS
  <2>3. PICK k \in DOMAIN taken : taken[k].id = rows[i].id
    BY <2>1, <2>2
  <2>4. taken[k] = rows[i]
    BY <2>1, <2>3 DEF ById
  <2> QED
    BY <2>1, <2>4 DEF Tells, ToSet
<1> HIDE DEF places, L, left
<1>4. left # <<>> <=> L # {}
  BY <1>2, ToSetHolds
<1>5. preferred \in Seq(L)
  BY <1>2, KeptHolds
<1> HIDE DEF preferred
<1>6. CASE left = <<>> \/ Len(taken) >= topK
  <2>1. new = taken
    BY <1>1, <1>6
  <2>2. Len(taken) \in Nat
    OBVIOUS
  <2>3. Len(taken) < topK => L = {}
    BY <1>4, <1>6, <2>2
  <2>4. Len(taken) <= Len(taken) + 1
    BY <2>2
  <2>5. ById(S) /\ Len(taken) < topK /\ Tells(ToSet(rows), class) => Tells(ToSet(taken), class)
    BY Zenon, <1>3, <2>3
  <2>6. ToSet(taken) \subseteq ToSet(taken)
    OBVIOUS
  <2> QED
    BY Zenon, <2>1, <2>4, <2>5, <2>6
<1>7. CASE ~(left = <<>> \/ Len(taken) >= topK)
  <2>1. best[1] \in L
    BY <1>2, <1>5, <1>7
  <2> DEFINE c == best[1]
  <2> HIDE DEF c
  <2>2. c \in S /\ class \in c.tells /\ \A k \in DOMAIN taken : taken[k].id # c.id
    BY <1>2, <2>1 DEF c
  <2> DEFINE more == Append(taken, c)
  <2>3. new = more
    BY <1>1, <1>7 DEF c
  <2>4. /\ more \in Seq(S) /\ Len(more) = Len(taken) + 1 /\ Len(taken) \in Nat
        /\ DOMAIN taken = 1 .. Len(taken) /\ DOMAIN more = 1 .. Len(taken) + 1
        /\ \A i \in DOMAIN taken : more[i] = taken[i]
        /\ more[Len(taken) + 1] = c
    BY <2>2
  <2> HIDE DEF more
  <2>5. ToSet(taken) \subseteq ToSet(more) /\ c \in ToSet(more)
    BY <2>4 DEF ToSet
  <2>6. Tells(ToSet(more), class)
    BY <2>2, <2>5 DEF Tells
  <2>7. ASSUME Distinct(taken, "rest", 1), NEW i \in DOMAIN more, NEW k \in DOMAIN more, more[i].id = more[k].id
        PROVE  i = k
    <3>1. (i \in DOMAIN taken \/ i = Len(taken) + 1) /\ (k \in DOMAIN taken \/ k = Len(taken) + 1)
      BY <2>4
    <3>2. \A a \in DOMAIN taken, b \in DOMAIN taken : taken[a].id = taken[b].id => a = b
      BY <2>4, <2>7 DEF Distinct, ClassOf
    <3> QED
      BY <2>2, <2>4, <2>7, <3>1, <3>2
  <2>8. Distinct(taken, "rest", 1) => Distinct(more, "rest", 1)
    BY <2>7 DEF Distinct, ClassOf
  <2>9. Len(more) <= topK
    BY <1>7, <2>4
  <2>10. Len(more) <= Len(taken) + 1
    BY <2>4
  <2> QED
    BY Zenon, <2>3, <2>4, <2>5, <2>6, <2>8, <2>9, <2>10
<1> QED
  BY <1>6, <1>7

\* The rows chosen for provenance, three at most.
LEMMA ProvenanceHolds ==
    ASSUME NEW S, NEW rows \in Seq(S), NEW topK \in Nat
    PROVE  LET chosen == ProvenanceRows(rows, topK)
           IN /\ chosen \in Seq(S) /\ Len(chosen) <= topK /\ Len(chosen) <= 3 /\ Distinct(chosen, "rest", 1)
              /\ ById(S) /\ topK >= 3 =>
                   \A class \in ProvenanceClass : Tells(ToSet(rows), class) => Tells(ToSet(chosen), class)
<1> DEFINE none == <<>>
           one == TakeBest(none, rows, topK, "official")
           two == TakeBest(one, rows, topK, "monthly")
           chosen == TakeBest(two, rows, topK, "tables")
<1>1. ProvenanceRows(rows, topK) = chosen
  BY Zenon DEF ProvenanceRows
<1>2. none \in Seq(S) /\ Len(none) = 0 /\ Len(none) <= topK /\ Distinct(none, "rest", 1)
  BY DEF Distinct
<1> HIDE DEF none
<1>3. /\ one \in Seq(S) /\ Len(one) <= topK /\ Len(one) <= 1 /\ Distinct(one, "rest", 1)
      /\ ById(S) /\ 0 < topK /\ Tells(ToSet(rows), "official") => Tells(ToSet(one), "official")
  <2>1. /\ one \in Seq(S) /\ Len(one) <= topK /\ Len(one) <= Len(none) + 1
        /\ Distinct(none, "rest", 1) => Distinct(one, "rest", 1)
        /\ ById(S) /\ Len(none) < topK /\ Tells(ToSet(rows), "official") => Tells(ToSet(one), "official")
    BY <1>2, BestHolds
  <2> HIDE DEF one
  <2> QED
    BY <1>2, <2>1
<1> HIDE DEF one
<1>4. /\ two \in Seq(S) /\ Len(two) <= topK /\ Len(two) <= 2 /\ Distinct(two, "rest", 1)
      /\ ToSet(one) \subseteq ToSet(two)
      /\ ById(S) /\ 1 < topK /\ Tells(ToSet(rows), "monthly") => Tells(ToSet(two), "monthly")
  <2>1. /\ two \in Seq(S) /\ Len(two) <= topK /\ Len(two) <= Len(one) + 1 /\ ToSet(one) \subseteq ToSet(two)
        /\ Distinct(one, "rest", 1) => Distinct(two, "rest", 1)
        /\ ById(S) /\ Len(one) < topK /\ Tells(ToSet(rows), "monthly") => Tells(ToSet(two), "monthly")
    BY <1>3, BestHolds
  <2>2. Len(one) \in Nat /\ Len(two) \in Nat
    BY <1>3, <2>1
  <2> HIDE DEF two
  <2> QED
    BY <1>3, <2>1, <2>2
<1> HIDE DEF two
<1>5. /\ chosen \in Seq(S) /\ Len(chosen) <= topK /\ Len(chosen) <= 3 /\ Distinct(chosen, "rest", 1)
      /\ ToSet(two) \subseteq ToSet(chosen)
      /\ ById(S) /\ 2 < topK /\ Tells(ToSet(rows), "tables") => Tells(ToSet(chosen), "tables")
  <2>1. /\ chosen \in Seq(S) /\ Len(chosen) <= topK /\ Len(chosen) <= Len(two) + 1 /\ ToSet(two) \subseteq ToSet(chosen)
        /\ Distinct(two, "rest", 1) => Distinct(chosen, "rest", 1)
        /\ ById(S) /\ Len(two) < topK /\ Tells(ToSet(rows), "tables") => Tells(ToSet(chosen), "tables")
    BY <1>4, BestHolds
  <2>2. Len(two) \in Nat /\ Len(chosen) \in Nat
    BY <1>4, <2>1
  <2> HIDE DEF chosen
  <2> QED
    BY <1>4, <2>1, <2>2
<1> HIDE DEF chosen
<1>6. \A some, all, class : some \subseteq all /\ Tells(some, class) => Tells(all, class)
  BY DEF Tells
<1>7. ToSet(one) \subseteq ToSet(chosen)
  BY <1>4, <1>5
<1> QED
  BY <1>1, <1>3, <1>4, <1>5, <1>6, <1>7 DEF ProvenanceClass

LEMMA DiverseSeq ==
    ASSUME NEW S, NEW rows \in Seq(S), NEW topK \in Nat, NEW documents, NEW provenance \in BOOLEAN
    PROVE  LET all == SelectDiverse(rows, topK, documents, provenance)
           IN all \in Seq(S) /\ (topK > 0 /\ rows # <<>> => all # <<>>)
<1> DEFINE chosen == IF provenance THEN ProvenanceRows(rows, topK) ELSE <<>>
           perDocument == IF documents > 1 THEN Take(chosen, rows, topK, "document") ELSE chosen
           perSlide == Take(perDocument, rows, topK, "slide")
           all == Take(perSlide, rows, topK, "rest")
<1>1. SelectDiverse(rows, topK, documents, provenance) = all
  BY Zenon DEF SelectDiverse
<1>2. chosen \in Seq(S) /\ Len(chosen) <= topK
  <2>1. <<>> \in Seq(S) /\ Len(<<>>) <= topK
    OBVIOUS
  <2> QED
    BY <2>1, ProvenanceHolds
<1> HIDE DEF chosen
<1>3. perDocument \in Seq(S) /\ Len(perDocument) <= topK
  BY <1>2, TakeExtends
<1> HIDE DEF perDocument
<1>4. perSlide \in Seq(S) /\ Len(perSlide) <= topK
  BY <1>3, TakeExtends
<1> HIDE DEF perSlide
<1>5. all \in Seq(S) /\ (topK > 0 /\ rows # <<>> => all # <<>>)
  BY <1>4, TakeExtends
<1> HIDE DEF all
<1> QED
  BY <1>1, <1>5

\* What a pass leaves of a class: one row of each, or no two of any.
Classes(rows, pass) == {ClassOf(c, pass) : c \in rows}

LEMMA PassHolds ==
    ASSUME NEW first, NEW rows, IsList(rows), first \in Seq(ToSet(rows)), ById(ToSet(rows)),
           NEW topK \in Nat, Len(first) <= topK, NEW pass, NEW from, Distinct(first, pass, from), Distinct(first, "rest", 1)
    PROVE  LET all == Take(first, rows, topK, pass)
           IN /\ all \in Seq(ToSet(rows)) /\ Len(all) <= topK
              /\ Distinct(all, pass, from) /\ Distinct(all, "rest", 1)
              /\ Len(all) = topK \/ Classes(ToSet(all), pass) = Classes(ToSet(rows), pass)
<1> DEFINE S == ToSet(rows)
           all == Take(first, rows, topK, pass)
<1>1. rows \in Seq(S)
  BY DEF IsList, ToSet
<1>2. all \in Seq(S) /\ Len(all) <= topK
  BY <1>1, TakeExtends
<1>3. Distinct(all, pass, from) /\ Distinct(all, "rest", 1)
  BY <1>1, TakeDistinct
<1>4. ASSUME Len(all) # topK PROVE Classes(ToSet(all), pass) = Classes(S, pass)
  <2>1. Len(all) < topK
    BY <1>2, <1>4
  <2>2. \A i \in DOMAIN rows : \E k \in DOMAIN all : ClassOf(all[k], pass) = ClassOf(rows[i], pass)
    BY <1>1, <2>1, TakeCovers
  <2> HIDE DEF all
  <2>3. \A k \in DOMAIN all : \E i \in DOMAIN rows : all[k] = rows[i]
    BY <1>2 DEF ToSet
  <2>4. \A c \in ToSet(rows) : \E d \in ToSet(all) : ClassOf(c, pass) = ClassOf(d, pass)
    BY <2>2 DEF ToSet
  <2>5. \A d \in ToSet(all) : d \in ToSet(rows)
    BY <2>3 DEF ToSet
  <2> QED
    BY <2>4, <2>5 DEF Classes
<1> QED
  BY <1>2, <1>3, <1>4

\* The passes, for rows of which each has its own id: from the third on, or from
\* the first when no provenance is asked for.
LEMMA DiverseHolds ==
    ASSUME NEW rows, IsList(rows), ById(ToSet(rows)), NEW topK \in Nat, NEW documents, NEW provenance \in BOOLEAN
    PROVE  LET all == SelectDiverse(rows, topK, documents, provenance)
               from == IF provenance THEN 3 ELSE 1
           IN /\ all \in Seq(ToSet(rows)) /\ Len(all) <= topK /\ Distinct(all, "rest", 1)
              /\ Len(all) = topK \/ ToSet(all) = ToSet(rows)
              /\ documents > 1 =>
                   (Len(all) = topK /\ Distinct(all, "document", from))
                     \/ Classes(ToSet(all), "document") = Classes(ToSet(rows), "document")
              /\ Distinct(all, "slide", from) \/ Classes(ToSet(all), "slide") = Classes(ToSet(rows), "slide")
              /\ provenance /\ topK >= 3 =>
                   \A class \in ProvenanceClass : Tells(ToSet(rows), class) => Tells(ToSet(all), class)
<1> DEFINE S == ToSet(rows)
           from == IF provenance THEN 3 ELSE 1
           chosen == IF provenance THEN ProvenanceRows(rows, topK) ELSE <<>>
           perDocument == IF documents > 1 THEN Take(chosen, rows, topK, "document") ELSE chosen
           perSlide == Take(perDocument, rows, topK, "slide")
           all == Take(perSlide, rows, topK, "rest")
           Served(some) == \A class \in ProvenanceClass : Tells(S, class) => Tells(some, class)
<1>1. SelectDiverse(rows, topK, documents, provenance) = all
  BY Zenon DEF SelectDiverse
<1>2. rows \in Seq(S)
  BY DEF IsList, ToSet
<1>3. /\ chosen \in Seq(S) /\ Len(chosen) <= topK /\ Distinct(chosen, "rest", 1)
      /\ Len(chosen) <= (IF provenance THEN 3 ELSE 0)
      /\ provenance /\ topK >= 3 => Served(ToSet(chosen))
  <2>1. CASE provenance
    <3> DEFINE some == ProvenanceRows(rows, topK)
    <3>1. chosen = some
      BY <2>1
    <3> HIDE DEF S
    <3>2. /\ some \in Seq(S) /\ Len(some) <= topK /\ Len(some) <= 3 /\ Distinct(some, "rest", 1)
          /\ ById(S) /\ topK >= 3 =>
               \A class \in ProvenanceClass : Tells(ToSet(rows), class) => Tells(ToSet(some), class)
      BY <1>2, ProvenanceHolds
    <3>3. ById(S) /\ ToSet(rows) = S
      BY DEF S
    <3> HIDE DEF some, chosen
    <3> QED
      BY <2>1, <3>1, <3>2, <3>3
  <2>2. CASE ~provenance
    <3>1. chosen = <<>>
      BY <2>2
    <3>2. <<>> \in Seq(S) /\ Len(<<>>) = 0 /\ Distinct(<<>>, "rest", 1)
      BY DEF Distinct
    <3> HIDE DEF chosen
    <3> QED
      BY <2>2, <3>1, <3>2
  <2> QED
    BY <2>1, <2>2
<1> HIDE DEF chosen
<1>4. \A pass : Distinct(chosen, pass, from)
  <2>1. DOMAIN chosen = 1 .. Len(chosen) /\ Len(chosen) \in Nat
    BY <1>3
  <2>2. ASSUME NEW i \in DOMAIN chosen, NEW k \in DOMAIN chosen, from <= i, from <= k PROVE i = k
    BY <1>3, <2>1, <2>2
  <2> QED
    BY <2>2 DEF Distinct
<1> HIDE DEF from
<1>5. /\ perDocument \in Seq(S) /\ Len(perDocument) <= topK
      /\ Distinct(perDocument, "document", from) /\ Distinct(perDocument, "rest", 1)
      /\ documents > 1 => Len(perDocument) = topK \/ Classes(ToSet(perDocument), "document") = Classes(S, "document")
      /\ ToSet(chosen) \subseteq ToSet(perDocument)
  <2> DEFINE first == Take(chosen, rows, topK, "document")
  <2>1. perDocument = IF documents > 1 THEN first ELSE chosen
    OBVIOUS
  <2>2. /\ first \in Seq(S) /\ Len(first) <= topK
        /\ Distinct(first, "document", from) /\ Distinct(first, "rest", 1)
        /\ Len(first) = topK \/ Classes(ToSet(first), "document") = Classes(S, "document")
    BY <1>3, <1>4, PassHolds
  <2>3. ToSet(chosen) \subseteq ToSet(first)
    BY <1>2, <1>3, TakeExtends
  <2> HIDE DEF first, perDocument, S
  <2> QED
    BY <1>3, <1>4, <2>1, <2>2, <2>3
<1> HIDE DEF perDocument
<1>6. Distinct(perDocument, "slide", from)
  <2>1. \A c, d : ClassOf(c, "slide") = ClassOf(d, "slide") => ClassOf(c, "document") = ClassOf(d, "document")
    BY DEF ClassOf
  <2> QED
    BY <1>5, <2>1 DEF Distinct
<1>7. /\ perSlide \in Seq(S) /\ Len(perSlide) <= topK
      /\ Distinct(perSlide, "slide", from) /\ Distinct(perSlide, "rest", 1)
      /\ Len(perSlide) = topK \/ Classes(ToSet(perSlide), "slide") = Classes(S, "slide")
  BY <1>5, <1>6, PassHolds
<1>8. /\ ToSet(perDocument) \subseteq ToSet(perSlide)
      /\ Len(perDocument) = topK => perSlide = perDocument
  BY <1>2, <1>5, TakeExtends
<1> HIDE DEF perSlide
<1>9. /\ all \in Seq(S) /\ Len(all) <= topK /\ Distinct(all, "rest", 1)
      /\ Len(all) = topK \/ Classes(ToSet(all), "rest") = Classes(S, "rest")
  BY <1>7, PassHolds
<1>10. /\ ToSet(perSlide) \subseteq ToSet(all)
       /\ Len(perSlide) = topK => all = perSlide
  BY <1>2, <1>7, TakeExtends
<1> HIDE DEF all
<1>11. ToSet(all) \subseteq S
  BY <1>9, ToSetHolds
<1>12. Classes(ToSet(all), "rest") = Classes(S, "rest") => ToSet(all) = S
  <2> SUFFICES ASSUME Classes(ToSet(all), "rest") = Classes(S, "rest"), NEW c \in S PROVE c \in ToSet(all)
    BY <1>11
  <2>1. ClassOf(c, "rest") \in Classes(S, "rest")
    BY DEF Classes
  <2>2. PICK d \in ToSet(all) : ClassOf(c, "rest") = ClassOf(d, "rest")
    BY <2>1 DEF Classes
  <2>3. c.id = d.id
    BY <2>2 DEF ClassOf
  <2> QED
    BY <1>11, <2>3 DEF ById
<1>13. \A some, pass : some \subseteq ToSet(all) /\ Classes(some, pass) = Classes(S, pass)
                         => Classes(ToSet(all), pass) = Classes(S, pass)
  BY <1>11 DEF Classes
<1>14. documents > 1 => \/ Len(all) = topK /\ Distinct(all, "document", from)
                        \/ Classes(ToSet(all), "document") = Classes(S, "document")
  BY <1>5, <1>8, <1>10, <1>13
<1>15. Distinct(all, "slide", from) \/ Classes(ToSet(all), "slide") = Classes(S, "slide")
  BY <1>7, <1>10, <1>13
<1>16. provenance /\ topK >= 3 => Served(ToSet(all))
  <2>1. \A some, more, class : some \subseteq more /\ Tells(some, class) => Tells(more, class)
    BY DEF Tells
  <2>2. ToSet(chosen) \subseteq ToSet(all)
    BY <1>5, <1>8, <1>10
  <2> HIDE DEF S
  <2> QED
    BY <1>3, <2>1, <2>2
<1> QED
  BY <1>1, <1>9, <1>12, <1>14, <1>15, <1>16 DEF from

-----------------------------------------------------------------------------
(* Retrieval: how many rows.                                               *)

LEMMA Counted ==
    ASSUME NEW S, NEW rows \in Seq(S), NEW pass, NEW from \in Nat \ {0}
    PROVE  /\ IsFiniteSet(ToSet(rows)) /\ Cardinality(ToSet(rows)) <= Len(rows)
           /\ Distinct(rows, "rest", 1) => Cardinality(ToSet(rows)) = Len(rows)
           /\ IsFiniteSet(Classes(ToSet(rows), pass)) /\ Cardinality(Classes(ToSet(rows), pass)) <= Len(rows)
           /\ Distinct(rows, pass, from) => Cardinality(Classes(ToSet(rows), pass)) >= Len(rows) - from + 1
<1> DEFINE N == Len(rows)
           places == [i \in 1 .. N |-> rows[i]]
           classes == [i \in 1 .. N |-> ClassOf(rows[i], pass)]
           C == Classes(ToSet(rows), pass)
<1>1. N \in Nat /\ DOMAIN rows = 1 .. N
  OBVIOUS
<1>2. IsFiniteSet(1 .. N) /\ Cardinality(1 .. N) = N
  <2> HIDE DEF N, C, classes, places
  <2>1. IsFiniteSet(1 .. N) /\ Cardinality(1 .. N) = IF 1 > N THEN 0 ELSE N - 1 + 1
    BY <1>1, FS_Interval
  <2> QED
    BY <1>1, <2>1
<1>3. places \in Surjection(1 .. N, ToSet(rows))
  BY <1>1 DEF Surjection, ToSet
<1>4. classes \in Surjection(1 .. N, C)
  BY <1>1 DEF Surjection, Classes, ToSet
<1>5. Distinct(rows, "rest", 1) => places \in Injection(1 .. N, ToSet(rows))
  <2>1. Distinct(rows, "rest", 1) => \A a, b \in 1 .. N : places[a] = places[b] => a = b
    BY <1>1 DEF Distinct
  <2> HIDE DEF places
  <2> QED
    BY <1>3, <2>1 DEF Surjection, Injection, IsInjective
<1>6. Distinct(rows, pass, from) => Cardinality(C) >= N - from + 1
  <2> DEFINE T == from .. N
             tail == [i \in T |-> ClassOf(rows[i], pass)]
  <2> SUFFICES ASSUME Distinct(rows, pass, from) PROVE Cardinality(C) >= N - from + 1
    OBVIOUS
  <2>1. \A i \in T : tail[i] \in C
    BY <1>1 DEF Classes, ToSet
  <2>2. \A i \in T, k \in T : tail[i] = tail[k] => i = k
    BY <1>1 DEF Distinct
  <2>3. tail \in [T -> C]
    BY <2>1
  <2> HIDE DEF tail
  <2>4. tail \in Injection(T, C)
    BY <2>2, <2>3 DEF Injection, IsInjective
  <2>5. IsFiniteSet(C) /\ Cardinality(C) \in Nat
    <3> HIDE DEF C, N, classes
    <3> QED
      BY <1>2, <1>4, FS_Surjection, FS_CardinalityType
  <2>6. Cardinality(T) = IF from > N THEN 0 ELSE N - from + 1
    <3> HIDE DEF N
    <3> QED
      BY <1>1, FS_Interval
  <2> HIDE DEF T, C, N
  <2>7. Cardinality(T) <= Cardinality(C)
    BY <2>4, <2>5, FS_Injection
  <2> QED
    BY <1>1, <2>5, <2>6, <2>7
<1> HIDE DEF places, classes, C, N
<1> QED
  BY <1>2, <1>3, <1>4, <1>5, <1>6, FS_Surjection DEF C, N

-----------------------------------------------------------------------------
(* Retrieval: candidates and their order.                                  *)

LEMMA CandidatesHold ==
    ASSUME NEW S, NEW found \in Seq(Seq(S))
    PROVE  /\ Candidates(found) \in Seq(S) /\ ById(ToSet(Candidates(found)))
           /\ \A k \in DOMAIN found : found[k] # <<>> => Candidates(found) # <<>>
<1> DEFINE rows == FlattenSeq(found)
           places == {i \in DOMAIN rows : \A k \in 1 .. i - 1 : rows[k].id # rows[i].id}
           T == {rows[i] : i \in places \cap DOMAIN rows}
           all == KeepAt(rows, places)
<1>1. Candidates(found) = all
  BY Zenon DEF Candidates
<1>2. rows \in Seq(S) /\ \A k \in DOMAIN found : found[k] # <<>> => rows # <<>>
  BY FlattenSeqSeq
<1> HIDE DEF rows
<1>3. all \in Seq(T) /\ all \in Seq(S)
  BY <1>2, KeepAtSeq, KeptHolds
<1>4. ById(T)
  <2> SUFFICES ASSUME NEW i \in places, NEW k \in places, rows[i].id = rows[k].id PROVE i = k
    BY DEF ById
  <2>1. Len(rows) \in Nat /\ DOMAIN rows = 1 .. Len(rows)
    BY <1>2
  <2>2. i \in Nat /\ k \in Nat /\ ~(k \in 1 .. i - 1) /\ ~(i \in 1 .. k - 1) /\ i > 0 /\ k > 0
    BY <2>1
  <2> QED
    BY <2>2
<1>5. rows # <<>> => 1 \in places /\ 1 \in DOMAIN rows
  BY <1>2
<1> HIDE DEF places
<1>6. rows # <<>> => \E i \in DOMAIN all : all[i] = rows[1]
  BY <1>2, <1>5, KeepAtAll
<1>7. rows # <<>> => all # <<>>
  BY <1>6
<1> HIDE DEF all
<1>8. ToSet(all) \subseteq T
  <2> HIDE DEF T
  <2> QED
    BY <1>3, ToSetHolds
<1>9. ById(ToSet(all))
  <2> HIDE DEF T
  <2> QED
    BY <1>4, <1>8 DEF ById
<1> QED
  BY <1>1, <1>2, <1>3, <1>7, <1>9

LEMMA RankedHolds ==
    ASSUME NEW S, NEW req, NEW found \in Seq(Seq(S))
    PROVE  IsList(TaskRanked(req, found)) /\ ById(ToSet(TaskRanked(req, found)))
<1> DEFINE rows == Candidates(found)
           R == ToSet(rows)
           eligible == KeepAt(rows, {i \in DOMAIN rows : Admissible(req, rows[i])})
           score == [c \in ToSet(eligible) |-> TaskScore(req, found, c)]
           ranked == Sorted(eligible, AboveById(eligible, score))
<1>1. TaskRanked(req, found) = ranked
  BY Zenon DEF TaskRanked
<1>2. rows \in Seq(S) /\ ById(R)
  BY CandidatesHold
<1> HIDE DEF rows
<1>3. rows \in Seq(R)
  BY <1>2, ListOf DEF IsList, ToSet
<1> HIDE DEF R
<1>4. eligible \in Seq(R)
  BY <1>3, KeptHolds
<1> HIDE DEF eligible
<1>5. ranked \in Seq(R)
  BY <1>4, SortedHolds
<1> HIDE DEF ranked
<1>6. ToSet(ranked) \subseteq R /\ IsList(ranked)
  BY <1>5, ToSetHolds, ListOf
<1> QED
  BY <1>1, <1>2, <1>6 DEF ById

\* Whatever places the reranker names, and as often: it changes the order only.
LEMMA RerankHolds ==
    ASSUME NEW S, NEW rows \in Seq(S), NEW scores \in RerankAnswers(rows) \cup {<<>>}
    PROVE  Rerank(rows, scores) \in Seq(S) /\ ToSet(Rerank(rows, scores)) = ToSet(rows)
<1> DEFINE candidates == Upto(rows, RerankK)
           places == DOMAIN candidates
           A == [index : places, score : 1 .. 2]
           byScore == Sorted(scores, ByScore(scores))
           named == [i \in DOMAIN byScore |-> candidates[byScore[i].index]]
           taken == {s.index : s \in ToSet(scores)}
           unnamed == KeepAt(candidates, DOMAIN candidates \ taken)
           rest == SubSeq(rows, Len(candidates) + 1, Len(rows))
<1>1. Rerank(rows, scores) = IF scores = <<>> THEN rows ELSE named \o unnamed \o rest
  BY Zenon DEF Rerank
<1>2. scores \in Seq(A)
  <2>1. RerankAnswers(rows) = UNION {[1 .. n -> A] : n \in 0 .. 2}
    BY Zenon DEF RerankAnswers
  <2> HIDE DEF A
  <2> DEFINE lists == {[1 .. n -> A] : n \in 0 .. 2}
  <2>2. ASSUME scores # <<>> PROVE \E n \in 0 .. 2 : scores \in [1 .. n -> A]
    <3>1. scores \in UNION lists
      BY <2>1, <2>2
    <3>2. PICK l \in lists : scores \in l
      BY <3>1
    <3> QED
      BY <3>2
  <2>3. CASE scores = <<>>
    BY <2>3
  <2>4. CASE scores # <<>>
    <3>1. PICK n \in 0 .. 2 : scores \in [1 .. n -> A]
      BY <2>2, <2>4
    <3>2. n \in Nat
      OBVIOUS
    <3> QED
      BY <3>1, <3>2
  <2> QED
    BY <2>3, <2>4
<1>3. candidates \in Seq(S) /\ \A i \in DOMAIN candidates : i \in DOMAIN rows /\ candidates[i] = rows[i]
  BY RetrievalAssumption, UptoHolds
<1> HIDE DEF candidates
<1>4. byScore \in Seq(A) /\ ToSet(byScore) = ToSet(scores)
  BY <1>2, SortedHolds
<1> HIDE DEF byScore
<1>5. \A i \in DOMAIN byScore : byScore[i].index \in places
  <2>1. \A a \in A : a.index \in places
    OBVIOUS
  <2> HIDE DEF A
  <2>2. \A i \in DOMAIN byScore : byScore[i] \in A
    BY <1>4
  <2> QED
    BY <2>1, <2>2
<1>6. named \in Seq(S) /\ DOMAIN named = DOMAIN byScore
  <2>1. Len(byScore) \in Nat /\ DOMAIN byScore = 1 .. Len(byScore)
    BY <1>4
  <2>2. \A i \in 1 .. Len(byScore) : candidates[byScore[i].index] \in S
    BY <1>3, <1>5, <2>1
  <2> QED
    BY <2>1, <2>2
<1>7. ToSet(named) = {candidates[k] : k \in taken}
  <2>1. ToSet(named) = {candidates[byScore[i].index] : i \in DOMAIN byScore}
    BY <1>6 DEF ToSet
  <2>2. taken = {byScore[i].index : i \in DOMAIN byScore}
    <3>1. \A a \in ToSet(scores) : \E i \in DOMAIN byScore : byScore[i] = a
      BY <1>4 DEF ToSet
    <3>2. \A i \in DOMAIN byScore : byScore[i] \in ToSet(scores)
      BY <1>4 DEF ToSet
    <3> QED
      BY <3>1, <3>2
  <2> HIDE DEF named, taken
  <2> QED
    BY <2>1, <2>2
<1>8. taken \subseteq places
  BY <1>4, <1>5 DEF ToSet
<1> HIDE DEF taken, named
<1>9. unnamed \in Seq(S) /\ ToSet(unnamed) = {candidates[k] : k \in places \ taken}
  <2> DEFINE T == {candidates[i] : i \in (DOMAIN candidates \ taken) \cap DOMAIN candidates}
  <2>1. unnamed \in Seq(S) /\ unnamed \in Seq(T)
    BY <1>3, KeptHolds, KeepAtSeq
  <2>2. \A k \in DOMAIN candidates \ taken : \E i \in DOMAIN unnamed : unnamed[i] = candidates[k]
    BY <1>3, KeepAtAll, SMTT(30)
  <2> HIDE DEF unnamed
  <2>3. T = {candidates[k] : k \in places \ taken}
    OBVIOUS
  <2> HIDE DEF T
  <2>4. ToSet(unnamed) \subseteq T
    BY <2>1, ToSetHolds
  <2>5. T \subseteq ToSet(unnamed)
    BY <2>2, <2>3 DEF ToSet
  <2> QED
    BY <2>1, <2>3, <2>4, <2>5
<1> HIDE DEF unnamed
<1>10. /\ rest \in Seq(S)
       /\ ToSet(rest) = {rows[i] : i \in DOMAIN rows \ places}
  <2> DEFINE m == Len(candidates)
             n == Len(rows)
  <2>1. m \in Nat /\ n \in Nat /\ places = 1 .. m /\ DOMAIN rows = 1 .. n /\ \A i \in 1 .. n : rows[i] \in S
    BY <1>3
  <2>2. m <= n
    BY <1>3, <2>1
  <2> HIDE DEF m, n, places
  <2>3. m + 1 \in Int /\ n \in Int /\ \A i \in m + 1 .. n : rows[i] \in S
    BY <2>1
  <2>4. /\ SubSeq(rows, m + 1, n) \in Seq(S)
        /\ Len(SubSeq(rows, m + 1, n)) = IF m + 1 <= n THEN n - (m + 1) + 1 ELSE 0
        /\ \A i \in 1 .. n - (m + 1) + 1 : SubSeq(rows, m + 1, n)[i] = rows[m + 1 + i - 1]
    BY <2>3, SubSeqProperties
  <2>5. rest = SubSeq(rows, m + 1, n)
    BY DEF m, n
  <2> HIDE DEF rest
  <2>6. Len(rest) = n - m /\ DOMAIN rest = 1 .. n - m /\ \A i \in 1 .. n - m : rest[i] = rows[m + i]
    <3>1. (IF m + 1 <= n THEN n - (m + 1) + 1 ELSE 0) = n - m /\ n - (m + 1) + 1 = n - m
      BY <2>1, <2>2
    <3>2. \A i \in 1 .. n - m : m + 1 + i - 1 = m + i
      BY <2>1, <2>2
    <3>3. rest \in Seq(S) /\ Len(rest) = n - m
      BY <2>4, <2>5, <3>1
    <3>4. \A i \in 1 .. n - m : rest[i] = rows[m + i]
      BY <2>4, <2>5, <3>1, <3>2
    <3> QED
      BY <3>3, <3>4
  <2>7. ASSUME NEW i \in DOMAIN rest PROVE m + i \in DOMAIN rows \ places /\ rest[i] = rows[m + i]
    BY <2>1, <2>2, <2>6
  <2>8. ASSUME NEW i \in DOMAIN rows \ places PROVE i - m \in DOMAIN rest /\ rest[i - m] = rows[i]
    <3>1. i - m \in 1 .. n - m /\ m + (i - m) = i
      BY <2>1, <2>2
    <3> QED
      BY <2>6, <3>1
  <2>9. {rest[i] : i \in DOMAIN rest} = {rows[i] : i \in DOMAIN rows \ places}
    BY <2>7, <2>8
  <2> QED
    BY <2>4, <2>5, <2>9 DEF ToSet
<1> HIDE DEF rest
<1>11. /\ named \o unnamed \o rest \in Seq(S)
       /\ ToSet(named \o unnamed \o rest) = ToSet(named) \cup ToSet(unnamed) \cup ToSet(rest)
  <2> DEFINE front == named \o unnamed
  <2>1. front \in Seq(S) /\ ToSet(front) = ToSet(named) \cup ToSet(unnamed)
    BY <1>6, <1>9, JoinHolds
  <2> HIDE DEF front
  <2>2. front \o rest \in Seq(S) /\ ToSet(front \o rest) = ToSet(front) \cup ToSet(rest)
    BY <1>10, <2>1, JoinHolds
  <2> QED
    BY <2>1, <2>2 DEF front
<1>12. ToSet(named) \cup ToSet(unnamed) \cup ToSet(rest) = {rows[i] : i \in DOMAIN rows}
  <2>1. {candidates[k] : k \in taken} = {rows[k] : k \in taken}
    BY <1>3, <1>8
  <2>2. {candidates[k] : k \in places \ taken} = {rows[k] : k \in places \ taken}
    BY <1>3
  <2>3. DOMAIN rows = taken \cup (places \ taken) \cup (DOMAIN rows \ places)
    BY <1>3, <1>8
  <2> HIDE DEF places
  <2> QED
    BY <1>7, <1>9, <1>10, <2>1, <2>2, <2>3
<1> QED
  BY <1>1, <1>11, <1>12 DEF ToSet

-----------------------------------------------------------------------------
(* Retrieval: the invariant.                                               *)

Chunks == ToSet(request.library)

\* A lane has rows of the library, and some if the full-text search had.
LanesInv ==
    /\ request \in Request
    /\ lanes \in Seq(Seq(Chunks))
    /\ \A i \in DOMAIN lanes : LexicalSearch(request, request.queries[i], LexicalK) # <<>> => lanes[i] # <<>>
    /\ retrieved # NoRetrieval => Len(lanes) = Len(request.queries)

LEMMA SearchKeeps ==
    ASSUME LanesInv, RetrievalDegradesSafely, SearchQuery PROVE LanesInv' /\ RetrievalDegradesSafely'
<1> DEFINE next == Len(lanes) + 1
           query == request.queries[next]
           room == Max({CandidateK, LexicalK})
           lexical == LexicalSearch(request, query, room)
           wide == VectorSearch(request, Max({CandidateK, VectorK}))
           S == Chunks
<1>1. request \in Request /\ request.library \in Seq(S) /\ request.topK \in Nat \ {0}
  BY RetrievalAssumption DEF LanesInv, IsList, Chunks, ToSet
<1>2. Len(lanes) < Len(request.queries) /\ UNCHANGED <<request, retrieved>>
  BY DEF SearchQuery
<1>3. retrieved = NoRetrieval /\ retrieved' = NoRetrieval
  BY <1>2 DEF LanesInv
<1>4. CandidateK \in Nat \ {0} /\ room \in Nat \ {0} /\ LexicalK <= room /\ Max({CandidateK, VectorK}) \in Nat
  <2>1. Max({LexicalK, VectorK}) \in Nat
    BY RetrievalAssumption, MaxOfTwo
  <2>2. Min({Max({LexicalK, VectorK}), 32}) \in Nat
    <3> DEFINE most == Max({LexicalK, VectorK})
    <3>1. most \in Int /\ 32 \in Int /\ most \in Nat
      BY <2>1
    <3> HIDE DEF most
    <3>2. Min({most, 32}) \in {most, 32}
      BY <3>1, MinOfTwo
    <3> QED
      BY <3>1, <3>2 DEF most
  <2>3. CandidateK \in Nat /\ CandidateK >= request.topK
    BY <1>1, <2>2, MaxOfTwo DEF CandidateK
  <2>4. CandidateK \in Nat \ {0}
    BY <1>1, <2>3
  <2>5. room \in Nat /\ room >= CandidateK /\ room >= LexicalK
    BY <2>3, RetrievalAssumption, MaxOfTwo
  <2>6. Max({CandidateK, VectorK}) \in Nat
    BY <2>3, RetrievalAssumption, MaxOfTwo
  <2> HIDE DEF room
  <2> QED
    BY <2>4, <2>5, <2>6, RetrievalAssumption
<1>5. PICK vector \in {<<>>, IF request.mode = "fts" THEN <<>> ELSE wide} :
        lanes' = Append(lanes, SelectDiverse(SelectLanes(request.mode, lexical, vector, room),
                                             CandidateK, Cardinality(request.scope), query.provenance))
  BY Zenon DEF SearchQuery
<1> HIDE DEF room, S
<1>6. wide \in Seq(S)
  BY <1>1, <1>4, VectorHolds
<1>7. vector \in Seq(S)
  <2>1. vector = <<>> \/ vector = wide
    BY <1>5
  <2> HIDE DEF wide
  <2>2. CASE vector = <<>>
    BY <2>2
  <2>3. CASE vector = wide
    BY <1>6, <2>3
  <2> QED
    BY <2>1, <2>2, <2>3
<1>16. query.provenance \in BOOLEAN
  <2>1. \A i \in DOMAIN request.queries : request.queries[i].provenance \in BOOLEAN
    BY <1>1, RetrievalAssumption
  <2>2. IsList(request.queries)
    BY <1>1, RetrievalAssumption
  <2>3. DOMAIN request.queries = 1 .. Len(request.queries) /\ Len(request.queries) \in Nat
    BY <2>2, ListShape
  <2>4. Len(lanes) \in Nat
    BY DEF LanesInv
  <2>5. next \in DOMAIN request.queries
    BY <1>2, <2>3, <2>4
  <2> QED
    BY <2>1, <2>5
<1>8. lexical \in Seq(S) /\ (LexicalSearch(request, query, LexicalK) # <<>> => lexical # <<>>)
  BY <1>1, <1>4, RetrievalAssumption, LexicalHolds
<1> DEFINE rows == SelectLanes(request.mode, lexical, vector, room)
           lane == SelectDiverse(rows, CandidateK, Cardinality(request.scope), query.provenance)
<1> HIDE DEF lexical, wide
<1>9. rows \in Seq(S) /\ (lexical # <<>> => rows # <<>>)
  BY <1>4, <1>7, <1>8, LanesHold
<1> HIDE DEF rows
<1>10. lane \in Seq(S) /\ (rows # <<>> => lane # <<>>)
  BY <1>4, <1>9, <1>16, DiverseSeq
<1>11. lanes' = Append(lanes, lane)
  BY <1>5 DEF rows, lane
<1> HIDE DEF lane
<1>12. lanes \in Seq(Seq(S))
  BY DEF LanesInv, S
<1>13. /\ lanes' \in Seq(Seq(S)) /\ DOMAIN lanes' = 1 .. next
       /\ \A i \in 1 .. Len(lanes) : lanes'[i] = lanes[i]
       /\ lanes'[next] = lane /\ Len(lanes) \in Nat /\ DOMAIN lanes = 1 .. Len(lanes)
  BY <1>10, <1>11, <1>12
<1>14. S' = S
  BY <1>2 DEF S, Chunks
<1>15. ASSUME NEW i \in DOMAIN lanes', LexicalSearch(request, request.queries[i], LexicalK) # <<>>
       PROVE  lanes'[i] # <<>>
  <2>1. i \in DOMAIN lanes \/ i = next
    BY <1>13
  <2>2. CASE i = next
    BY <1>8, <1>9, <1>10, <1>13, <1>15, <2>2
  <2>3. CASE i \in DOMAIN lanes
    BY <1>13, <1>15, <2>3 DEF LanesInv
  <2> QED
    BY <2>1, <2>2, <2>3
<1> QED
  BY <1>1, <1>2, <1>3, <1>13, <1>14, <1>15 DEF LanesInv, RetrievalDegradesSafely, S

\* What SelectEvidence finds: every row of the eligible ones there is room for.
LEMMA EvidenceKeeps ==
    ASSUME LanesInv, SelectEvidence PROVE LanesInv' /\ RetrievalDegradesSafely'
<1> DEFINE S == Chunks
           ranked == TaskRanked(request, lanes)
           E == ToSet(ranked)
           K == request.topK
           D == Cardinality(request.scope)
           P == request.provenance
<1>1. request \in Request /\ lanes \in Seq(Seq(S)) /\ K \in Nat \ {0} /\ P \in BOOLEAN
  BY RetrievalAssumption DEF LanesInv
<1>2. UNCHANGED <<request, lanes>> /\ Len(lanes) = Len(request.queries)
  BY DEF SelectEvidence
<1>3. LanesInv'
  BY <1>2 DEF LanesInv, Chunks
<1>4. IsList(ranked) /\ ById(E)
  BY <1>1, RankedHolds
<1>5. PICK scores \in RerankAnswers(ranked) \cup {<<>>} : retrieved' = SelectDiverse(Rerank(ranked, scores), K, D, P)
  <2>1. \E scores \in IF request.reranker /\ Len(ranked) >= 2 THEN RerankAnswers(ranked) ELSE {<<>>} :
          retrieved' = SelectDiverse(Rerank(ranked, scores), K, D, P)
    BY Zenon DEF SelectEvidence
  <2> HIDE DEF ranked, K, D, P
  <2> QED
    BY <2>1
<1> DEFINE reranked == Rerank(ranked, scores)
           all == SelectDiverse(reranked, K, D, P)
           from == IF P THEN 3 ELSE 1
           doubled == Doubled
<1> HIDE DEF ranked
<1>6. reranked \in Seq(E) /\ ToSet(reranked) = E
  <2>1. ranked \in Seq(E)
    BY <1>4 DEF IsList, ToSet
  <2> QED
    BY <2>1, RerankHolds
<1> HIDE DEF reranked, E, K, D, P
<1>7. IsList(reranked)
  BY <1>6, ListOf
<1>8. /\ all \in Seq(E) /\ Len(all) <= K /\ Distinct(all, "rest", 1)
      /\ Len(all) = K \/ ToSet(all) = E
      /\ D > 1 => \/ Len(all) = K /\ Distinct(all, "document", from)
                  \/ Classes(ToSet(all), "document") = Classes(E, "document")
      /\ Distinct(all, "slide", from) \/ Classes(ToSet(all), "slide") = Classes(E, "slide")
      /\ P /\ K >= 3 => \A class \in ProvenanceClass : Tells(E, class) => Tells(ToSet(all), class)
  BY <1>1, <1>4, <1>6, <1>7, DiverseHolds
<1> HIDE DEF all
<1> DEFINE rows == ToSet(all)
           N == Len(all)
<1>9. N \in Nat /\ rows \subseteq E /\ from \in Nat \ {0} /\ doubled \in Nat /\ doubled + 1 = from
  BY <1>8, ToSetHolds DEF Doubled, P
<1> HIDE DEF from, doubled
<1>10. /\ Cardinality(rows) = N
       /\ Cardinality(Classes(rows, "document")) <= N
       /\ Distinct(all, "document", from) => Cardinality(Classes(rows, "document")) >= N - from + 1
       /\ Distinct(all, "slide", from) => Cardinality(Classes(rows, "slide")) >= N - from + 1
  BY <1>8, <1>9, Counted
<1>11. /\ IsFiniteSet(E) /\ Cardinality(E) \in Nat /\ N <= Cardinality(E)
       /\ IsFiniteSet(Classes(E, "document")) /\ Cardinality(Classes(E, "document")) \in Nat
       /\ Cardinality(Classes(rows, "document")) <= Cardinality(Classes(E, "document"))
       /\ Cardinality(Classes(rows, "document")) \in Nat /\ Cardinality(Classes(rows, "slide")) \in Nat
  <2>1. IsFiniteSet(E) /\ IsFiniteSet(Classes(E, "document"))
    <3>1. 1 \in Nat \ {0}
      OBVIOUS
    <3> QED
      BY <1>6, <3>1, Counted
  <2>2. Classes(rows, "document") \subseteq Classes(E, "document")
    BY <1>9 DEF Classes
  <2>3. IsFiniteSet(Classes(rows, "document")) /\ IsFiniteSet(Classes(rows, "slide"))
    <3>1. 1 \in Nat \ {0}
      OBVIOUS
    <3> QED
      BY <1>8, <3>1, Counted
  <2> HIDE DEF rows
  <2> QED
    BY <1>9, <1>10, <2>1, <2>2, <2>3, FS_Subset, FS_CardinalityType
<1>12. N = Min({K, Cardinality(E)})
  <2> DEFINE e == Cardinality(E)
  <2>1. N <= e /\ N <= K /\ (N = K \/ N = e) /\ e \in Nat /\ K \in Nat
    BY <1>1, <1>8, <1>10, <1>11
  <2> HIDE DEF e, N
  <2>2. Min({K, e}) \in {K, e} /\ Min({K, e}) <= K /\ Min({K, e}) <= e
    BY <2>1, MinOfTwo
  <2> QED
    BY <1>9, <2>1, <2>2 DEF e
<1>13. D > 1 => Cardinality(Classes(rows, "document")) >= Min({K - doubled, Cardinality(Classes(E, "document"))})
  <2> SUFFICES ASSUME D > 1
               PROVE  Cardinality(Classes(rows, "document")) >= Min({K - doubled, Cardinality(Classes(E, "document"))})
    OBVIOUS
  <2> DEFINE d == Cardinality(Classes(rows, "document"))
             e == Cardinality(Classes(E, "document"))
             k == K - doubled
  <2>1. d \in Nat /\ e \in Nat /\ k \in Int
    BY <1>1, <1>9, <1>11
  <2>2. d >= k \/ d = e
    <3>1. CASE Len(all) = K /\ Distinct(all, "document", from)
      <4>1. d >= N - from + 1 /\ N = K
        BY <1>10, <3>1
      <4> HIDE DEF d, N
      <4> QED
        BY <1>1, <1>9, <2>1, <4>1
    <3>2. CASE Classes(rows, "document") = Classes(E, "document")
      BY <3>2
    <3> QED
      BY <1>8, <3>1, <3>2
  <2> HIDE DEF d, e, k
  <2>3. Min({k, e}) <= k /\ Min({k, e}) <= e /\ Min({k, e}) \in {k, e}
    <3>1. e \in Int
      BY <2>1
    <3> QED
      BY <2>1, <3>1, MinOfTwo
  <2>4. d >= Min({k, e})
    BY <2>1, <2>2, <2>3
  <2> QED
    BY <2>4 DEF d, e, k
<1>14. Classes(rows, "slide") # Classes(E, "slide") => Cardinality(Classes(rows, "slide")) >= Cardinality(rows) - doubled
  <2> DEFINE d == Cardinality(Classes(rows, "slide"))
  <2>1. Classes(rows, "slide") # Classes(E, "slide") => d >= N - from + 1
    BY <1>8, <1>10
  <2>2. d \in Nat
    BY <1>11
  <2> HIDE DEF d, N
  <2>3. Classes(rows, "slide") # Classes(E, "slide") => d >= N - doubled
    BY <1>9, <2>1, <2>2
  <2> QED
    BY <1>10, <2>3 DEF d
<1>15. P /\ K >= 3 => Told(rows) = Told(E)
  <2>1. \A cs, class : class \in Told(cs) <=> class \in ProvenanceClass /\ Tells(cs, class)
    BY DEF Tells, Told
  <2>2. \A class : Tells(rows, class) => Tells(E, class)
    BY <1>9 DEF Tells
  <2> HIDE DEF rows
  <2>3. P /\ K >= 3 => \A class : class \in Told(rows) <=> class \in Told(E)
    BY <1>8, <2>1, <2>2 DEF rows
  <2>4. Told(rows) \subseteq ProvenanceClass /\ Told(E) \subseteq ProvenanceClass
    BY <2>1
  <2> QED
    BY <2>3, <2>4
<1>16. ASSUME NEW i \in DOMAIN request.queries, LexicalSearch(request, request.queries[i], LexicalK) # <<>>
       PROVE  Candidates(lanes) # <<>>
  <2>1. i \in DOMAIN lanes
    <3>1. DOMAIN request.queries = 1 .. Len(request.queries)
      BY <1>1, RetrievalAssumption, ListShape
    <3> QED
      BY <1>1, <1>2, <3>1
  <2>2. lanes[i] # <<>>
    BY <1>16, <2>1 DEF LanesInv
  <2> QED
    BY <1>1, <2>1, <2>2, CandidatesHold
<1>17. FoundByText # {} => Candidates(lanes) # <<>>
  <2> SUFFICES ASSUME NEW c \in FoundByText PROVE Candidates(lanes) # <<>>
    OBVIOUS
  <2>1. PICK i \in DOMAIN request.queries : c \in ToSet(LexicalSearch(request, request.queries[i], LexicalK))
    BY DEF FoundByText
  <2>2. LexicalSearch(request, request.queries[i], LexicalK) # <<>>
    BY <2>1 DEF ToSet
  <2> QED
    BY <1>16, <2>2
<1>18. \A cs : Classes(cs, "slide") = Slides(cs) /\ Classes(cs, "document") = Documents(cs)
  BY DEF Classes, ClassOf, Slides, Documents
<1>19. retrieved' = all
  BY <1>5 DEF all, reranked
<1>20. RetrievalDegradesSafely'
  <2>1. /\ FoundByText # {} => Candidates(lanes) # <<>>
        /\ rows \subseteq E
        /\ Cardinality(rows) = Len(all)
        /\ Len(all) = Min({K, Cardinality(E)})
        /\ D > 1 => Cardinality(Documents(rows)) >= Min({K - doubled, Cardinality(Documents(E))})
        /\ Slides(rows) # Slides(E) => Cardinality(Slides(rows)) >= Cardinality(rows) - doubled
        /\ P /\ K >= 3 => Told(rows) = Told(E)
    BY Zenon, <1>9, <1>10, <1>12, <1>13, <1>14, <1>17, <1>18, <1>15
  <2>2. EligibleRows' = E /\ Doubled' = doubled /\ FoundByText' = FoundByText
    BY <1>2 DEF EligibleRows, E, ranked, Doubled, doubled, FoundByText
  <2>3. request' = request /\ lanes' = lanes
    BY <1>2
  <2> HIDE DEF rows
  <2>4. ToSet(retrieved') = rows /\ Len(retrieved') = Len(all)
    BY <1>19 DEF rows
  <2> QED
    BY Zenon, <2>1, <2>2, <2>3, <2>4 DEF RetrievalDegradesSafely, K, D, P
<1> QED
  BY <1>3, <1>20

\* Whatever remote call fails and whatever the reranker answers: what the
\* full-text lane found leaves candidates, and the result has as many of the
\* eligible rows as there is room for, each once; a row of every provenance class
\* comes first when the question asks for provenance, and but for two places that
\* these may take, one of each document in scope and each slide once before any
\* slide twice (search, search_plan, apply, _select_diverse).
THEOREM RetrievalsDegradeSafely == RetrievalSpec => []RetrievalDegradesSafely
<1> DEFINE Inv == LanesInv /\ RetrievalDegradesSafely
<1>1. RetrievalInit => Inv
  BY DEF RetrievalInit, LanesInv, RetrievalDegradesSafely
<1>2. Inv /\ [RetrievalNext]_retrievalVars => Inv'
  <2> SUFFICES ASSUME Inv, [RetrievalNext]_retrievalVars PROVE Inv'
    OBVIOUS
  <2>1. CASE SearchQuery
    BY <2>1, SearchKeeps
  <2>2. CASE SelectEvidence
    BY <2>2, EvidenceKeeps
  <2>3. CASE UNCHANGED retrievalVars
    <3>1. request' = request /\ lanes' = lanes /\ retrieved' = retrieved
      BY <2>3 DEF retrievalVars
    <3>2. LanesInv'
      BY <3>1 DEF LanesInv, Chunks
    <3>3. FoundByText' = FoundByText /\ EligibleRows' = EligibleRows /\ Doubled' = Doubled
      BY <3>1 DEF FoundByText, EligibleRows, Doubled
    <3>4. RetrievalDegradesSafely'
      BY Zenon, <3>1, <3>3 DEF RetrievalDegradesSafely
    <3> QED
      BY <3>2, <3>4
  <2> QED
    BY <2>1, <2>2, <2>3 DEF RetrievalNext
<1> QED
  BY <1>1, <1>2, PTL DEF RetrievalSpec

-----------------------------------------------------------------------------
(* Vector index: what a search finds although the processes share the      *)
(* files and not the lock.                                                 *)

FileSet == (SUBSET Chunk) \cup {NoFile}
IndexStep == {"idle", "wait", "scan", "embed", "compare", "gather", "load"} \cup Rebuilding

IndexTyped ==
    /\ chunk \in [Chunk -> {"new", "active", "gone"}] /\ embedded \subseteq Active
    /\ indexFile \in FileSet /\ manifest \in FileSet /\ cache \in [Process -> FileSet]
    /\ rlock \in [Process -> User \cup {Nobody}]
    /\ step \in [User -> IndexStep] /\ task \in [User -> {"index", "search", "rebuild"}]
    /\ gathered \in [User -> SUBSET Chunk] /\ due \in [User -> SUBSET Chunk]
    /\ foreign \in [Process -> BOOLEAN] /\ alone \in [User -> BOOLEAN] /\ torn \in BOOLEAN

\* The chunks in a file or a cache.
Content(file) == IF file = NoFile THEN {} ELSE file

\* Inside a process the lock admits one thread at a time.
LockInv == \A t \in User : step[t] \notin {"idle", "wait"} => rlock[Home[t]] = t

\* What a thread is about: only searches load, and a search that rebuilds is
\* owed the rows it rebuilds from.
ThreadTask(t) ==
    /\ task[t] = "search" => t \in Thread /\ "search" \in Duty[t]
    /\ step[t] = "load" => task[t] = "search"
    /\ step[t] = "unlink" => gathered[t] = {}
    /\ step[t] \in Rebuilding /\ task[t] = "search" => due[t] = gathered[t]
TaskInv ==
    /\ \A t \in User : ThreadTask(t)
    /\ \A p \in Process : cache[p] # NoFile => Searches(p)

\* Chunks that had a row once: they have it still, or are gone for good.
Past(D) == \A c \in D : c \in embedded \/ chunk[c] = "gone"
PastInv == Past(Content(manifest)) /\ \A t \in User : Past(gathered[t]) /\ Past(due[t])

\* Of two rebuilds at the same time, each knows that it was not alone.
AloneInv ==
    \A t, u \in User :
        step[t] \in Rebuilding /\ step[u] \in Rebuilding /\ Home[t] # Home[u] => ~alone[t]

\* S holds what is left of the rows D.
Retains(S, D) == D \cap embedded \subseteq S

\* No index that can come to be read is older than the manifest, but for the
\* two cases in which the code cannot know.
FilesAgree == torn \/ indexFile = NoFile \/ Retains(indexFile, Content(manifest))
CacheAgrees(p) ==
    cache[p] # NoFile => foreign[p] \/ torn \/ Retains(cache[p], Content(manifest))
SearchAgrees(t) ==
    step[t] = "load" => foreign[Home[t]] \/ torn \/ Retains(Content(Loaded(Home[t])), due[t])

\* A rebuild under way holds what the manifest promises, and what the searches
\* of other processes are owed, or its end will be known as torn.
RebuildAgrees(q) ==
    step[q] \in Rebuilding =>
        /\ Retains(gathered[q], Content(manifest)) \/ (torn /\ ~alone[q])
        /\ \A t \in User : step[t] = "load" => Retains(gathered[q], due[t]) \/ (torn /\ ~alone[q])
        /\ step[q] = "publish" /\ alone[q] => indexFile = gathered[q]

AgreeInv ==
    /\ FilesAgree
    /\ \A p \in Process : CacheAgrees(p)
    /\ \A t \in User : SearchAgrees(t) /\ RebuildAgrees(t)

FrameInv == IndexTyped /\ LockInv /\ TaskInv /\ PastInv /\ AloneInv

-----------------------------------------------------------------------------
(* Types, locks and rows.                                                  *)

\* A row never comes back: whatever happens to the rows, chunks that had one
\* once keep it or are gone.
LEMMA RowsFade ==
    ASSUME IndexTyped, [IndexNext]_indexVars, NEW D \in SUBSET Chunk, Past(D)
    PROVE  /\ D \cap embedded' \subseteq D \cap embedded
           /\ \A c \in D : c \in embedded' \/ chunk'[c] = "gone"
<1> DEFINE Faded == /\ D \cap embedded' \subseteq D \cap embedded
                    /\ \A c \in D : c \in embedded' \/ chunk'[c] = "gone"
<1>0. embedded \subseteq Active /\ Active \subseteq Chunk
  BY DEF IndexTyped, Active
<1>1. ASSUME NEW C \in SUBSET Chunk, ActivateChunks(C) PROVE Faded
  BY <1>0, <1>1 DEF ActivateChunks, SetChunks, Past, Active
<1>2. ASSUME NEW C \in SUBSET Chunk, RemoveChunks(C) \/ PurgeChunks(C) PROVE Faded
  BY <1>0, <1>2 DEF RemoveChunks, PurgeChunks, SetChunks, Past, Active
<1>3. ASSUME NEW t \in User, NEW batch \in SUBSET missing[t], WriteBatch(t, batch) PROVE Faded
  BY <1>0, <1>3 DEF WriteBatch, Past, Active
<1>4. ASSUME UNCHANGED indexRows PROVE Faded
  BY <1>4 DEF indexRows, Past
<1>5. ASSUME \/ \E t \in User : \/ Scan(t) \/ BatchTimesOut(t) \/ Compare(t) \/ Gather(t) \/ Unlink(t)
                                \/ ReplaceIndex(t) \/ Publish(t) \/ Query(t) \/ Raise(t)
             \/ \E t \in Thread : \E what \in Duty[t] : Enter(t, what)
             \/ EnterPurge
             \/ \E p \in Process : RestartProcess(p)
             \/ UNCHANGED indexVars
      PROVE  Faded
  <2>1. UNCHANGED indexRows
    BY <1>5 DEF Scan, BatchTimesOut, Compare, Gather, Unlink, ReplaceIndex, Publish, SetCache, Query, Raise,
                Enter, EnterPurge, RestartProcess, indexVars
  <2> QED
    BY <1>4, <2>1
<1> QED
  BY <1>1, <1>2, <1>3, <1>5 DEF IndexNext, IndexProceed

LEMMA EntriesTyped ==
    ASSUME IndexTyped, NEW t \in User, NEW D \in SUBSET Chunk
    PROVE  /\ [gathered EXCEPT ![t] = D] \in [User -> SUBSET Chunk]
           /\ [due EXCEPT ![t] = D] \in [User -> SUBSET Chunk]
           /\ \A v \in IndexStep : [step EXCEPT ![t] = v] \in [User -> IndexStep]
           /\ \A v \in {"index", "search", "rebuild"} :
                 [task EXCEPT ![t] = v] \in [User -> {"index", "search", "rebuild"}]
           /\ \A v \in BOOLEAN : [alone EXCEPT ![t] = v] \in [User -> BOOLEAN]
           /\ \A v \in User \cup {Nobody} : [rlock EXCEPT ![Home[t]] = v] \in [Process -> User \cup {Nobody}]
           /\ \A F \in FileSet : [cache EXCEPT ![Home[t]] = F] \in [Process -> FileSet]
           /\ Overtaken(t) \in [Process -> BOOLEAN]
<1>1. /\ [gathered EXCEPT ![t] = D] \in [User -> SUBSET Chunk]
      /\ [due EXCEPT ![t] = D] \in [User -> SUBSET Chunk]
  BY IndexAssumption DEF IndexTyped
<1>2. \A v \in IndexStep : [step EXCEPT ![t] = v] \in [User -> IndexStep]
  BY IndexAssumption DEF IndexTyped
<1>3. \A v \in {"index", "search", "rebuild"} : [task EXCEPT ![t] = v] \in [User -> {"index", "search", "rebuild"}]
  BY IndexAssumption DEF IndexTyped
<1>4. \A v \in BOOLEAN : [alone EXCEPT ![t] = v] \in [User -> BOOLEAN]
  BY IndexAssumption DEF IndexTyped
<1>5. \A v \in User \cup {Nobody} : [rlock EXCEPT ![Home[t]] = v] \in [Process -> User \cup {Nobody}]
  BY IndexAssumption DEF IndexTyped
<1>6. \A F \in FileSet : [cache EXCEPT ![Home[t]] = F] \in [Process -> FileSet]
  BY IndexAssumption DEF IndexTyped
<1>7. Overtaken(t) \in [Process -> BOOLEAN]
  BY IndexAssumption DEF IndexTyped, Overtaken
<1> QED
  BY <1>1, <1>2, <1>3, <1>4, <1>5, <1>6, <1>7

LEMMA LeaveTyped ==
    ASSUME IndexTyped, NEW t \in User, Leave(t)
    PROVE  /\ rlock' \in [Process -> User \cup {Nobody}] /\ step' \in [User -> IndexStep]
           /\ task' \in [User -> {"index", "search", "rebuild"}]
           /\ gathered' \in [User -> SUBSET Chunk] /\ due' \in [User -> SUBSET Chunk]
           /\ alone' \in [User -> BOOLEAN]
BY EntriesTyped DEF Leave, IndexStep

LEMMA TypedStep == IndexTyped /\ [IndexNext]_indexVars => IndexTyped'
<1> SUFFICES ASSUME IndexTyped, [IndexNext]_indexVars PROVE IndexTyped'
  OBVIOUS
<1> USE IndexAssumption
<1>0. embedded \in SUBSET Chunk /\ embedded \in FileSet /\ {} \in SUBSET Chunk /\ NoFile \in FileSet
  BY DEF IndexTyped, Active, FileSet
\* The rows, and the rest.
<1>1. ASSUME NEW C \in SUBSET Chunk, ActivateChunks(C) \/ RemoveChunks(C) \/ PurgeChunks(C)
      PROVE  IndexTyped'
  <2>1. chunk' \in [Chunk -> {"new", "active", "gone"}]
    BY <1>1 DEF ActivateChunks, RemoveChunks, PurgeChunks, SetChunks, IndexTyped
  <2>2. embedded' \subseteq Active'
    <3>1. chunk \in [Chunk -> {"new", "active", "gone"}] /\ embedded \subseteq Active
      BY DEF IndexTyped
    <3>2. CASE ActivateChunks(C)
      BY <3>1, <3>2 DEF ActivateChunks, SetChunks, Active
    <3>3. CASE RemoveChunks(C) \/ PurgeChunks(C)
      BY <3>1, <3>3 DEF RemoveChunks, PurgeChunks, SetChunks, Active
    <3> QED
      BY <1>1, <3>2, <3>3
  <2>3. step' \in [User -> IndexStep]
    BY <1>1 DEF ActivateChunks, RemoveChunks, PurgeChunks, IndexTyped, IndexStep
  <2>4. UNCHANGED <<indexFile, manifest, cache, rlock, task, gathered, due, foreign, alone, torn>>
    BY <1>1 DEF ActivateChunks, RemoveChunks, PurgeChunks, indexFiles, indexLocks, indexLocals
  <2> QED
    BY <2>1, <2>2, <2>3, <2>4 DEF IndexTyped
<1>2. ASSUME NEW t \in User, NEW batch \in SUBSET missing[t], WriteBatch(t, batch) PROVE IndexTyped'
  <2>1. embedded' \subseteq Active' /\ chunk' = chunk
    BY <1>2 DEF WriteBatch, IndexTyped, Active
  <2>2. step' \in [User -> IndexStep]
    BY <1>2 DEF WriteBatch, IndexTyped, IndexStep
  <2> QED
    BY <1>2, <2>1, <2>2 DEF WriteBatch, IndexTyped, indexFiles, indexLocks
\* A step that leaves the rows alone.
<1>3. ASSUME UNCHANGED indexRows,
             /\ indexFile' \in FileSet /\ manifest' \in FileSet /\ cache' \in [Process -> FileSet]
             /\ rlock' \in [Process -> User \cup {Nobody}]
             /\ step' \in [User -> IndexStep] /\ task' \in [User -> {"index", "search", "rebuild"}]
             /\ gathered' \in [User -> SUBSET Chunk] /\ due' \in [User -> SUBSET Chunk]
             /\ foreign' \in [Process -> BOOLEAN] /\ alone' \in [User -> BOOLEAN] /\ torn' \in BOOLEAN
      PROVE  IndexTyped'
  BY <1>3 DEF IndexTyped, indexRows, Active
<1>4. ASSUME NEW t \in User, Raise(t) \/ BatchTimesOut(t) PROVE IndexTyped'
  <2>1. Leave(t) /\ UNCHANGED <<indexRows, indexFiles, cache, foreign, torn>>
    BY <1>4 DEF Raise, BatchTimesOut
  <2> QED
    BY <1>3, <2>1, LeaveTyped DEF IndexTyped, indexFiles
<1>5. ASSUME NEW t \in User, Scan(t) PROVE IndexTyped'
  <2>1. step' \in [User -> IndexStep]
    BY <1>5, EntriesTyped DEF Scan, IndexStep
  <2> QED
    BY <1>3, <1>5, <2>1 DEF Scan, IndexTyped, indexFiles, indexLocks
<1>6. ASSUME NEW t \in Thread, NEW what \in Duty[t], Enter(t, what) PROVE IndexTyped'
  <2>1. t \in User /\ what \in {"index", "search", "rebuild"} /\ FirstStep(what) \in IndexStep
    BY DEF User, FirstStep, IndexStep
  <2>2. rlock' \in [Process -> User \cup {Nobody}] /\ step' \in [User -> IndexStep]
        /\ task' \in [User -> {"index", "search", "rebuild"}]
    BY <1>6, <2>1, EntriesTyped DEF Enter
  <2> QED
    BY <1>3, <1>6, <2>2 DEF Enter, IndexTyped, indexFiles
<1>7. ASSUME EnterPurge PROVE IndexTyped'
  <2>1. Purger \in User /\ FirstStep("rebuild") \in IndexStep
    BY DEF User, FirstStep, IndexStep
  <2>2. rlock' \in [Process -> User \cup {Nobody}] /\ step' \in [User -> IndexStep]
    BY <1>7, <2>1, EntriesTyped DEF EnterPurge
  <2> QED
    BY <1>3, <1>7, <2>2 DEF EnterPurge, IndexTyped, indexFiles, indexLocals
<1>8. ASSUME NEW t \in User, Compare(t) PROVE IndexTyped'
  <2>1. UNCHANGED <<indexRows, indexFiles, cache, foreign, torn>>
    BY <1>8 DEF Compare
  <2>2. CASE Leave(t)
    BY <1>3, <2>1, <2>2, LeaveTyped DEF IndexTyped, indexFiles
  <2>3. CASE /\ due' = [due EXCEPT ![t] = IF task[t] = "search" THEN embedded ELSE {}]
             /\ step' = [step EXCEPT ![t] = IF ManifestIsCurrent THEN "load" ELSE "gather"]
             /\ UNCHANGED <<indexLocks, task, missing, gathered, alone>>
    <3>1. due' \in [User -> SUBSET Chunk] /\ step' \in [User -> IndexStep]
      BY <1>0, <2>3, EntriesTyped DEF IndexStep
    <3> QED
      BY <1>3, <2>1, <2>3, <3>1 DEF IndexTyped, indexFiles, indexLocks
  <2> QED
    BY <1>8, <2>2, <2>3 DEF Compare
<1>9. ASSUME NEW t \in User, Gather(t) PROVE IndexTyped'
  <2>1. gathered' \in [User -> SUBSET Chunk] /\ due' \in [User -> SUBSET Chunk] /\ step' \in [User -> IndexStep]
    BY <1>0, <1>9, EntriesTyped DEF Gather, IndexStep, Rebuilding
  <2>2. alone' \in [User -> BOOLEAN]
    BY <1>9 DEF Gather, IndexTyped
  <2> QED
    BY <1>3, <1>9, <2>1, <2>2 DEF Gather, IndexTyped, indexFiles, indexLocks
<1>10. ASSUME NEW t \in User, NEW file \in FileSet, SetCache(t, file), indexFile' \in FileSet, manifest' \in FileSet
       PROVE  IndexTyped'
  <2>1. cache' \in [Process -> FileSet]
    BY <1>10, EntriesTyped DEF SetCache, IndexTyped
  <2>2. foreign' \in [Process -> BOOLEAN] /\ torn' \in BOOLEAN
    <3>1. foreign' = [Overtaken(t) EXCEPT ![Home[t]] = FALSE] /\ torn' = ~alone[t]
      BY <1>10 DEF SetCache
    <3> QED
      BY <3>1, EntriesTyped
  <2>3. UNCHANGED indexRows
    BY <1>10 DEF SetCache
  <2>4. CASE Leave(t)
    BY <1>3, <1>10, <2>1, <2>2, <2>3, <2>4, LeaveTyped
  <2>5. CASE /\ step' = [step EXCEPT ![t] = "load"]
             /\ gathered' = [gathered EXCEPT ![t] = {}]
             /\ alone' = [alone EXCEPT ![t] = TRUE]
             /\ UNCHANGED <<indexLocks, task, missing, due>>
    <3>1. step' \in [User -> IndexStep] /\ gathered' \in [User -> SUBSET Chunk] /\ alone' \in [User -> BOOLEAN]
      BY <1>0, <2>5, EntriesTyped DEF IndexStep
    <3> QED
      BY <1>3, <1>10, <2>1, <2>2, <2>3, <2>5, <3>1 DEF IndexTyped, indexLocks
  <2> QED
    BY <1>10, <2>4, <2>5 DEF SetCache
<1>11. ASSUME NEW t \in User, Unlink(t) PROVE IndexTyped'
  BY <1>0, <1>10, <1>11 DEF Unlink
<1>12. ASSUME NEW t \in User, ReplaceIndex(t) PROVE IndexTyped'
  <2>1. step' \in [User -> IndexStep] /\ foreign' \in [Process -> BOOLEAN]
    BY <1>12, EntriesTyped DEF ReplaceIndex, IndexStep, Rebuilding
  <2>2. indexFile' \in FileSet
    BY <1>12 DEF ReplaceIndex, IndexTyped, FileSet
  <2> QED
    BY <1>3, <1>12, <2>1, <2>2 DEF ReplaceIndex, IndexTyped, indexLocks, indexLocals
<1>13. ASSUME NEW t \in User, Publish(t) PROVE IndexTyped'
  <2>1. gathered[t] \in FileSet /\ indexFile \in FileSet
    BY DEF IndexTyped, FileSet
  <2> QED
    BY <1>10, <1>13, <2>1 DEF Publish
<1>14. ASSUME NEW t \in User, Query(t) PROVE IndexTyped'
  <2>1. Loaded(Home[t]) \in FileSet
    BY DEF Loaded, IndexTyped
  <2>2. cache' \in [Process -> FileSet]
    BY <1>14, <2>1, EntriesTyped DEF Query
  <2> QED
    BY <1>3, <1>14, <2>2, LeaveTyped DEF Query, IndexTyped, indexFiles
<1>15. ASSUME NEW p \in Process, RestartProcess(p) PROVE IndexTyped'
  <2>1. /\ step' \in [User -> IndexStep] /\ gathered' \in [User -> SUBSET Chunk] /\ due' \in [User -> SUBSET Chunk]
        /\ task' \in [User -> {"index", "search", "rebuild"}]
    BY <1>0, <1>15 DEF RestartProcess, IndexTyped, IndexStep
  <2>2. rlock' \in [Process -> User \cup {Nobody}] /\ cache' \in [Process -> FileSet]
    BY <1>0, <1>15 DEF RestartProcess, IndexTyped
  <2>3. foreign' \in [Process -> BOOLEAN] /\ alone' \in [User -> BOOLEAN]
    BY <1>15 DEF RestartProcess, IndexTyped
  <2> QED
    BY <1>3, <1>15, <2>1, <2>2, <2>3 DEF RestartProcess, IndexTyped, indexFiles
<1>16. ASSUME UNCHANGED indexVars PROVE IndexTyped'
  BY <1>16 DEF indexVars, indexRows, indexLocks, indexFiles, indexLocals, IndexTyped, Active
<1> QED
  BY <1>1, <1>2, <1>4, <1>5, <1>6, <1>7, <1>8, <1>9, <1>11, <1>12, <1>13, <1>14, <1>15, <1>16
  DEF IndexNext, IndexProceed

\* A step of a thread inside the lock: it leaves, or goes on and holds the lock.
LEMMA ThreadsMove ==
    ASSUME NEW t \in User, IndexProceed(t) \/ Raise(t)
    PROVE  /\ step[t] \notin {"idle", "wait"}
           /\ Leave(t) \/ (\E v \in IndexStep \ {"idle", "wait"} : step' = [step EXCEPT ![t] = v] /\ UNCHANGED rlock)
<1> DEFINE Goes == \E v \in IndexStep \ {"idle", "wait"} : step' = [step EXCEPT ![t] = v] /\ UNCHANGED rlock
<1> USE DEF IndexStep, Rebuilding, indexLocks
<1>1. CASE Scan(t)
  <2>1. Goes
    BY <1>1 DEF Scan
  <2> QED
    BY <1>1, <2>1 DEF Scan
<1>2. CASE \E batch \in SUBSET missing[t] : WriteBatch(t, batch)
  <2> PICK batch \in SUBSET missing[t] : WriteBatch(t, batch)
    BY <1>2
  <2>1. Goes
    BY DEF WriteBatch
  <2> QED
    BY <2>1 DEF WriteBatch
<1>3. CASE Raise(t) \/ BatchTimesOut(t) \/ Query(t)
  BY <1>3 DEF Raise, BatchTimesOut, Query
<1>4. CASE Compare(t)
  <2>1. Leave(t) \/ Goes
    BY <1>4 DEF Compare
  <2> QED
    BY <1>4, <2>1 DEF Compare
<1>5. CASE Gather(t)
  <2>1. Goes
    BY <1>5 DEF Gather
  <2> QED
    BY <1>5, <2>1 DEF Gather
<1>6. CASE ReplaceIndex(t)
  <2>1. Goes
    BY <1>6 DEF ReplaceIndex
  <2> QED
    BY <1>6, <2>1 DEF ReplaceIndex
<1>7. CASE Unlink(t) \/ Publish(t)
  <2>1. Leave(t) \/ Goes
    BY <1>7 DEF Unlink, Publish, SetCache
  <2> QED
    BY <1>7, <2>1 DEF Unlink, Publish
<1> QED
  BY <1>1, <1>2, <1>3, <1>4, <1>5, <1>6, <1>7 DEF IndexProceed

LEMMA LockStep == IndexTyped /\ LockInv /\ [IndexNext]_indexVars => LockInv'
<1> SUFFICES ASSUME IndexTyped, LockInv, [IndexNext]_indexVars, NEW u \in User, step'[u] \notin {"idle", "wait"}
             PROVE  rlock'[Home[u]] = u
  BY DEF LockInv
<1> USE IndexAssumption DEF IndexTyped, LockInv
<1>1. ASSUME NEW C \in SUBSET Chunk, ActivateChunks(C) \/ RemoveChunks(C) \/ PurgeChunks(C)
      PROVE  rlock'[Home[u]] = u
  BY <1>1 DEF ActivateChunks, RemoveChunks, PurgeChunks, indexLocks
<1>2. ASSUME NEW t \in User, step[t] \in {"idle", "wait"}, rlock[Home[t]] = Nobody, NEW v,
             step' = [step EXCEPT ![t] = v], rlock' = [rlock EXCEPT ![Home[t]] = t]
      PROVE  rlock'[Home[u]] = u
  BY <1>2 DEF User
<1>3. ASSUME \/ EnterPurge
             \/ \E t \in Thread : \E what \in Duty[t] : Enter(t, what)
      PROVE  rlock'[Home[u]] = u
  BY <1>2, <1>3 DEF Enter, EnterPurge, User
<1>4. ASSUME NEW t \in User, IndexProceed(t) \/ Raise(t) PROVE rlock'[Home[u]] = u
  <2>1. CASE Leave(t)
    <3>1. step[t] \notin {"idle", "wait"} /\ rlock[Home[t]] = t
      BY <1>4, ThreadsMove
    <3>2. u # t /\ step[u] \notin {"idle", "wait"} /\ rlock[Home[u]] = u
      BY <2>1 DEF Leave
    <3> QED
      BY <2>1, <3>1, <3>2 DEF Leave
  <2>2. CASE \E v \in IndexStep \ {"idle", "wait"} : step' = [step EXCEPT ![t] = v] /\ UNCHANGED rlock
    BY <1>4, <2>2, ThreadsMove
  <2> QED
    BY <1>4, <2>1, <2>2, ThreadsMove
<1>5. ASSUME NEW p \in Process, RestartProcess(p) PROVE rlock'[Home[u]] = u
  BY <1>5 DEF RestartProcess
<1>6. ASSUME UNCHANGED indexVars PROVE rlock'[Home[u]] = u
  BY <1>6 DEF indexVars, indexLocks
<1> QED
  BY <1>1, <1>3, <1>4, <1>5, <1>6 DEF IndexNext

\* A thread that leaves is owed nothing, and the others do not notice.
LEMMA LeaveTasks ==
    ASSUME IndexTyped, NEW t \in User, Leave(t), NEW u \in User, ThreadTask(u)
    PROVE  ThreadTask(u)'
<1>1. CASE u = t
  BY <1>1 DEF Leave, ThreadTask, IndexTyped, Rebuilding
<1>2. CASE u # t
  BY <1>2 DEF Leave, ThreadTask, IndexTyped
<1> QED
  BY <1>1, <1>2

LEMMA TaskStep == IndexTyped /\ TaskInv /\ [IndexNext]_indexVars => TaskInv'
<1> SUFFICES ASSUME IndexTyped, TaskInv, [IndexNext]_indexVars PROVE TaskInv'
  OBVIOUS
<1>0. \A u \in User : ThreadTask(u)
  BY DEF TaskInv
\* The threads.
<1>1. ASSUME NEW u \in User PROVE ThreadTask(u)'
  <2> USE IndexAssumption, <1>0
  <2>1. ASSUME NEW C \in SUBSET Chunk, ActivateChunks(C) \/ RemoveChunks(C) \/ PurgeChunks(C)
        PROVE  ThreadTask(u)'
    <3>1. step'[u] = step[u] \/ step'[u] = "wait"
      BY <2>1 DEF ActivateChunks, RemoveChunks, PurgeChunks, IndexTyped
    <3>2. UNCHANGED <<task, gathered, due>>
      BY <2>1 DEF ActivateChunks, RemoveChunks, PurgeChunks, indexLocals
    <3> QED
      BY <3>1, <3>2 DEF ThreadTask, Rebuilding
  <2>2. ASSUME NEW t \in Thread, NEW what \in Duty[t], Enter(t, what) PROVE ThreadTask(u)'
    <3>1. CASE u = t
      BY <2>2, <3>1 DEF Enter, FirstStep, ThreadTask, Rebuilding, IndexTyped
    <3>2. CASE u # t
      BY <2>2, <3>2 DEF Enter, ThreadTask, IndexTyped
    <3> QED
      BY <3>1, <3>2
  <2>3. ASSUME EnterPurge PROVE ThreadTask(u)'
    BY <2>3 DEF EnterPurge, FirstStep, ThreadTask, Rebuilding, IndexTyped, indexLocals
  <2>4. ASSUME NEW t \in User, Raise(t) \/ BatchTimesOut(t) \/ Query(t) PROVE ThreadTask(u)'
    BY <2>4, LeaveTasks DEF Raise, BatchTimesOut, Query
  <2>5. ASSUME NEW t \in User, Scan(t) PROVE ThreadTask(u)'
    BY <2>5 DEF Scan, ThreadTask, Rebuilding, IndexTyped
  <2>6. ASSUME NEW t \in User, NEW batch \in SUBSET missing[t], WriteBatch(t, batch) PROVE ThreadTask(u)'
    BY <2>6 DEF WriteBatch, ThreadTask, Rebuilding, IndexTyped
  <2>7. ASSUME NEW t \in User, Compare(t) PROVE ThreadTask(u)'
    <3>1. CASE Leave(t)
      BY <3>1, LeaveTasks
    <3>2. CASE ~Leave(t)
      BY <2>7, <3>2 DEF Compare, ThreadTask, Rebuilding, IndexTyped
    <3> QED
      BY <3>1, <3>2
  <2>8. ASSUME NEW t \in User, Gather(t) PROVE ThreadTask(u)'
    <3>1. CASE u = t
      BY <2>8, <3>1 DEF Gather, ThreadTask, Rebuilding, IndexTyped
    <3>2. CASE u # t
      BY <2>8, <3>2 DEF Gather, ThreadTask, IndexTyped
    <3> QED
      BY <3>1, <3>2
  <2>9. ASSUME NEW t \in User, Unlink(t) \/ Publish(t) PROVE ThreadTask(u)'
    <3>1. PICK file : SetCache(t, file)
      BY <2>9 DEF Unlink, Publish
    <3>2. CASE Leave(t)
      BY <3>2, LeaveTasks
    <3>3. CASE /\ task[t] = "search"
               /\ step' = [step EXCEPT ![t] = "load"] /\ gathered' = [gathered EXCEPT ![t] = {}]
               /\ UNCHANGED <<task, due>>
      BY <3>3 DEF ThreadTask, Rebuilding, IndexTyped
    <3> QED
      BY <3>1, <3>2, <3>3 DEF SetCache
  <2>10. ASSUME NEW t \in User, ReplaceIndex(t) PROVE ThreadTask(u)'
    BY <2>10 DEF ReplaceIndex, ThreadTask, Rebuilding, IndexTyped, indexLocals
  <2>11. ASSUME NEW p \in Process, RestartProcess(p) PROVE ThreadTask(u)'
    <3>1. CASE Home[u] = p
      BY <2>11, <3>1 DEF RestartProcess, ThreadTask, Rebuilding
    <3>2. CASE Home[u] # p
      BY <2>11, <3>2 DEF RestartProcess, ThreadTask
    <3> QED
      BY <3>1, <3>2
  <2>12. ASSUME UNCHANGED indexVars PROVE ThreadTask(u)'
    BY <2>12 DEF indexVars, indexLocals, ThreadTask
  <2> QED
    BY <2>1, <2>2, <2>3, <2>4, <2>5, <2>6, <2>7, <2>8, <2>9, <2>10, <2>11, <2>12 DEF IndexNext, IndexProceed
\* The caches: only a step that sets one matters.
<1>2. ASSUME NEW p \in Process, cache'[p] # NoFile PROVE Searches(p)
  <2> DEFINE Same == cache'[p] = cache[p]
  <2>1. ASSUME Same PROVE Searches(p)
    BY <1>2, <2>1 DEF TaskInv
  <2>2. ASSUME NEW t \in User, Unlink(t) \/ Publish(t) PROVE Searches(p)
    <3>1. PICK file : cache' = IF Searches(Home[t]) THEN [cache EXCEPT ![Home[t]] = file] ELSE cache
      BY <2>2 DEF Unlink, Publish, SetCache
    <3>2. CASE ~Searches(Home[t]) \/ p # Home[t]
      BY <2>1, <3>1, <3>2 DEF IndexTyped
    <3> QED
      BY <3>2
  <2>3. ASSUME NEW t \in User, Query(t) PROVE Searches(p)
    <3>1. Searches(Home[t])
      BY <1>0, <2>3 DEF Query, ThreadTask, Searches
    <3>2. CASE p # Home[t]
      BY <2>1, <2>3, <3>2 DEF Query, IndexTyped
    <3> QED
      BY <3>1, <3>2
  <2>4. ASSUME NEW q \in Process, RestartProcess(q) PROVE Searches(p)
    BY <1>2, <2>1, <2>4 DEF RestartProcess, IndexTyped
  <2>5. ASSUME \/ \E t \in User : \/ Scan(t) \/ BatchTimesOut(t) \/ Compare(t) \/ Gather(t)
                                  \/ ReplaceIndex(t) \/ Raise(t)
                                  \/ \E batch \in SUBSET missing[t] : WriteBatch(t, batch)
               \/ \E t \in Thread : \E what \in Duty[t] : Enter(t, what)
               \/ \E C \in SUBSET Chunk : ActivateChunks(C) \/ RemoveChunks(C) \/ PurgeChunks(C)
               \/ EnterPurge
               \/ UNCHANGED indexVars
        PROVE  Searches(p)
    <3>1. cache' = cache
      BY <2>5 DEF Scan, BatchTimesOut, Compare, Gather, ReplaceIndex, Raise, WriteBatch, Enter, EnterPurge,
                  ActivateChunks, RemoveChunks, PurgeChunks, indexVars
    <3> QED
      BY <2>1, <3>1
  <2> QED
    BY <2>2, <2>3, <2>4, <2>5 DEF IndexNext, IndexProceed
<1> QED
  BY <1>1, <1>2 DEF TaskInv, Searches

LEMMA AloneStep == IndexTyped /\ LockInv /\ AloneInv /\ [IndexNext]_indexVars => AloneInv'
<1> SUFFICES ASSUME IndexTyped, LockInv, AloneInv, [IndexNext]_indexVars,
                    NEW q \in User, NEW u \in User,
                    step'[q] \in Rebuilding, step'[u] \in Rebuilding, Home[q] # Home[u]
             PROVE  ~alone'[q]
  BY DEF AloneInv
<1> USE IndexAssumption
<1>1. ASSUME NEW t \in User, Gather(t) PROVE ~alone'[q]
  <2>1. alone' = [v \in User |-> IF v = t THEN Others(t) = {} ELSE alone[v] /\ v \notin Others(t)]
    BY <1>1 DEF Gather
  <2>2. step' = [step EXCEPT ![t] = step'[t]]
    BY <1>1 DEF Gather, IndexTyped
  <2>3. CASE q = t
    BY <2>1, <2>2, <2>3 DEF Others, IndexTyped
  <2>4. CASE u = t
    BY <2>1, <2>2, <2>4 DEF Others, IndexTyped
  <2>5. CASE q # t /\ u # t
    BY <2>1, <2>2, <2>5 DEF AloneInv, IndexTyped
  <2> QED
    BY <2>3, <2>4, <2>5
\* Any other step that rebuilds goes on from a step that did.
<1>2. ASSUME \A t \in User : step'[t] \in Rebuilding => step[t] \in Rebuilding /\ alone'[t] = alone[t]
      PROVE  ~alone'[q]
  BY <1>2 DEF AloneInv
<1>3. ASSUME NEW t \in User, Leave(t) PROVE ~alone'[q]
  <2>1. step'[t] = "idle" /\ \A v \in User \ {t} : step'[v] = step[v] /\ alone'[v] = alone[v]
    BY <1>3 DEF Leave, IndexTyped
  <2> QED
    BY <1>2, <2>1 DEF Rebuilding
<1>4. ASSUME NEW t \in User, NEW v, step' = [step EXCEPT ![t] = v], alone' = alone,
             v \in Rebuilding => step[t] \in Rebuilding
      PROVE  ~alone'[q]
  BY <1>2, <1>4 DEF IndexTyped
<1>5. ASSUME step' = step, alone' = alone PROVE ~alone'[q]
  BY <1>2, <1>5
<1>6. ASSUME NEW C \in SUBSET Chunk, ActivateChunks(C) \/ RemoveChunks(C) \/ PurgeChunks(C) PROVE ~alone'[q]
  <2>1. Purger \in User
    BY DEF User
  <2> QED
    BY <1>4, <1>5, <1>6, <2>1 DEF ActivateChunks, RemoveChunks, PurgeChunks, indexLocals, Rebuilding
<1>7. ASSUME EnterPurge \/ \E t \in Thread : \E what \in Duty[t] : Enter(t, what) PROVE ~alone'[q]
  <2>1. \A t \in Thread : t \in User
    BY DEF User
  <2>2. Purger \in User /\ \A what : FirstStep(what) \notin Rebuilding
    BY DEF User, FirstStep, Rebuilding
  <2> QED
    BY <1>4, <1>7, <2>1, <2>2 DEF EnterPurge, Enter, indexLocals
<1>8. ASSUME NEW t \in User, Raise(t) \/ BatchTimesOut(t) \/ Query(t) PROVE ~alone'[q]
  BY <1>3, <1>8 DEF Raise, BatchTimesOut, Query
<1>9. ASSUME NEW t \in User, Scan(t) PROVE ~alone'[q]
  BY <1>4, <1>9 DEF Scan, Rebuilding
<1>10. ASSUME NEW t \in User, NEW batch \in SUBSET missing[t], WriteBatch(t, batch) PROVE ~alone'[q]
  BY <1>4, <1>10 DEF WriteBatch, Rebuilding
<1>11. ASSUME NEW t \in User, Compare(t) PROVE ~alone'[q]
  BY <1>3, <1>4, <1>11 DEF Compare, Rebuilding
<1>12. ASSUME NEW t \in User, Unlink(t) \/ Publish(t) PROVE ~alone'[q]
  <2>1. PICK file : SetCache(t, file)
    BY <1>12 DEF Unlink, Publish
  <2>2. CASE step' = [step EXCEPT ![t] = "load"] /\ alone' = [alone EXCEPT ![t] = TRUE]
    <3>1. step'[t] = "load" /\ \A v \in User \ {t} : step'[v] = step[v] /\ alone'[v] = alone[v]
      BY <2>2 DEF IndexTyped
    <3> QED
      BY <1>2, <3>1 DEF Rebuilding
  <2> QED
    BY <1>3, <2>1, <2>2 DEF SetCache
<1>13. ASSUME NEW t \in User, ReplaceIndex(t) PROVE ~alone'[q]
  BY <1>4, <1>13 DEF ReplaceIndex, Rebuilding, indexLocals
<1>14. ASSUME NEW p \in Process, RestartProcess(p) PROVE ~alone'[q]
  <2>1. \A v \in User : step'[v] \in Rebuilding => step'[v] = step[v] /\ alone'[v] = alone[v]
    BY <1>14 DEF RestartProcess, IndexTyped, Rebuilding
  <2> QED
    BY <1>2, <2>1
<1>15. ASSUME UNCHANGED indexVars PROVE ~alone'[q]
  BY <1>5, <1>15 DEF indexVars, indexLocals
<1> QED
  BY <1>1, <1>6, <1>7, <1>8, <1>9, <1>10, <1>11, <1>12, <1>13, <1>14, <1>15 DEF IndexNext, IndexProceed

\* What a thread gathers or is owed, and what a manifest stands for, were rows once.
LEMMA PastStep == IndexTyped /\ PastInv /\ [IndexNext]_indexVars => PastInv'
<1> SUFFICES ASSUME IndexTyped, PastInv, [IndexNext]_indexVars PROVE PastInv'
  OBVIOUS
<1> DEFINE FromRows(now, before) == now \in {before, {}, embedded}
<1>1. ASSUME NEW D \in SUBSET Chunk, Past(D) PROVE Past(D)'
  BY <1>1, RowsFade DEF Past
<1>2. Past(embedded)' /\ Past({})'
  BY <1>1 DEF Past, IndexTyped, Active
<1>3. \A t \in User : gathered[t] \in SUBSET Chunk /\ due[t] \in SUBSET Chunk
  BY DEF IndexTyped
<1>4. ASSUME NEW u \in User PROVE FromRows(gathered'[u], gathered[u]) /\ FromRows(due'[u], due[u])
  <2> DEFINE Goal == FromRows(gathered'[u], gathered[u]) /\ FromRows(due'[u], due[u])
  <2>1. ASSUME NEW t \in User, Leave(t) PROVE Goal
    BY <2>1 DEF Leave, IndexTyped
  <2>2. ASSUME NEW t \in User, Compare(t) PROVE Goal
    <3>1. CASE ~Leave(t)
      BY <2>2, <3>1 DEF Compare, IndexTyped
    <3> QED
      BY <2>1, <3>1
  <2>3. ASSUME NEW t \in User, Gather(t) PROVE Goal
    BY <2>3 DEF Gather, IndexTyped
  <2>4. ASSUME NEW t \in User, Unlink(t) \/ Publish(t) PROVE Goal
    <3>1. CASE ~Leave(t)
      BY <2>4, <3>1 DEF Unlink, Publish, SetCache, IndexTyped
    <3> QED
      BY <2>1, <3>1
  <2>5. ASSUME NEW p \in Process, RestartProcess(p) PROVE Goal
    BY <2>5 DEF RestartProcess
  <2>6. ASSUME UNCHANGED <<gathered, due>> PROVE Goal
    BY <2>6
  <2>7. ASSUME \/ \E t \in User : \/ Scan(t) \/ ReplaceIndex(t)
                                  \/ \E batch \in SUBSET missing[t] : WriteBatch(t, batch)
               \/ \E t \in Thread : \E what \in Duty[t] : Enter(t, what)
               \/ \E C \in SUBSET Chunk : ActivateChunks(C) \/ RemoveChunks(C) \/ PurgeChunks(C)
               \/ EnterPurge
               \/ UNCHANGED indexVars
        PROVE  Goal
    BY <2>6, <2>7 DEF Scan, ReplaceIndex, WriteBatch, Enter, EnterPurge, ActivateChunks, RemoveChunks,
                      PurgeChunks, indexVars, indexLocals
  <2>8. ASSUME NEW t \in User, Raise(t) \/ BatchTimesOut(t) \/ Query(t) PROVE Goal
    BY <2>1, <2>8 DEF Raise, BatchTimesOut, Query
  <2> QED
    BY <2>2, <2>3, <2>4, <2>5, <2>7, <2>8 DEF IndexNext, IndexProceed
<1>5. manifest' \in {manifest, NoFile} \/ \E t \in User : manifest' = gathered[t]
  <2>1. ASSUME NEW t \in User, Unlink(t) \/ Publish(t) PROVE manifest' = NoFile \/ manifest' = gathered[t]
    BY <2>1 DEF Unlink, Publish
  <2>2. ASSUME \/ \E t \in User : \/ Scan(t) \/ BatchTimesOut(t) \/ Compare(t) \/ Gather(t)
                                  \/ ReplaceIndex(t) \/ Query(t) \/ Raise(t)
                                  \/ \E batch \in SUBSET missing[t] : WriteBatch(t, batch)
               \/ \E t \in Thread : \E what \in Duty[t] : Enter(t, what)
               \/ \E C \in SUBSET Chunk : ActivateChunks(C) \/ RemoveChunks(C) \/ PurgeChunks(C)
               \/ EnterPurge
               \/ \E p \in Process : RestartProcess(p)
               \/ UNCHANGED indexVars
        PROVE  manifest' = manifest
    BY <2>2 DEF Scan, BatchTimesOut, Compare, Gather, ReplaceIndex, Query, Raise, WriteBatch, Enter, EnterPurge,
                ActivateChunks, RemoveChunks, PurgeChunks, RestartProcess, indexVars, indexFiles
  <2> QED
    BY <2>1, <2>2 DEF IndexNext, IndexProceed
<1>6. Past(Content(manifest))'
  <2>1. CASE manifest' = manifest
    <3>1. Content(manifest) \in SUBSET Chunk /\ Past(Content(manifest))
      BY DEF IndexTyped, FileSet, Content, PastInv
    <3> QED
      BY <1>1, <2>1, <3>1 DEF Past, Content
  <2>2. CASE manifest' = NoFile
    BY <2>2 DEF Past, Content
  <2>3. ASSUME NEW t \in User, manifest' = gathered[t] PROVE Past(Content(manifest))'
    <3>1. gathered[t] \in SUBSET Chunk /\ \A c \in gathered[t] : c \in embedded' \/ chunk'[c] = "gone"
      BY <1>3, RowsFade DEF PastInv
    <3> QED
      BY <2>3, <3>1, IndexAssumption DEF Past, Content
  <2> QED
    BY <1>5, <2>1, <2>2, <2>3
<1>7. ASSUME NEW t \in User PROVE Past(gathered[t])' /\ Past(due[t])'
  <2>1. (\A c \in gathered[t] : c \in embedded' \/ chunk'[c] = "gone")
        /\ (\A c \in due[t] : c \in embedded' \/ chunk'[c] = "gone")
        /\ (\A c \in embedded : c \in embedded' \/ chunk'[c] = "gone")
    BY <1>3, RowsFade DEF PastInv, Past, IndexTyped, Active
  <2> QED
    BY <1>4, <2>1 DEF Past
<1> QED
  BY <1>6, <1>7 DEF PastInv

LEMMA FrameStep == FrameInv /\ [IndexNext]_indexVars => FrameInv'
BY TypedStep, LockStep, TaskStep, PastStep, AloneStep DEF FrameInv

-----------------------------------------------------------------------------
(* No index that can be read is older than the manifest.                   *)

\* What is kept stays kept while rows fade.
LEMMA KeepsFade ==
    ASSUME FrameInv, [IndexNext]_indexVars
    PROVE  /\ Content(manifest) \cap embedded' \subseteq Content(manifest) \cap embedded
           /\ \A t \in User : due[t] \cap embedded' \subseteq due[t] \cap embedded
<1>1. Content(manifest) \in SUBSET Chunk /\ \A t \in User : due[t] \in SUBSET Chunk
  BY DEF FrameInv, IndexTyped, FileSet, Content
<1> QED
  BY <1>1, RowsFade DEF FrameInv, PastInv

\* The index of a thread that loads or rebuilds does not change under it.
Undisturbed(t) ==
    /\ step'[t] = step[t] /\ gathered'[t] = gathered[t] /\ due'[t] = due[t]
    /\ alone'[t] => alone[t]

LEMMA QuietFiles ==
    ASSUME FrameInv, AgreeInv, [IndexNext]_indexVars, UNCHANGED <<indexFile, manifest, torn>>
    PROVE  /\ FilesAgree'
           /\ \A p \in Process :
                cache'[p] = NoFile \/ (cache'[p] = cache[p] /\ foreign'[p] = foreign[p]) => CacheAgrees(p)'
<1>1. Content(manifest)' \cap embedded' \subseteq Content(manifest) \cap embedded
  BY KeepsFade DEF Content
<1>2. FilesAgree'
  BY <1>1 DEF AgreeInv, FilesAgree, Retains
<1>3. ASSUME NEW p \in Process, cache'[p] = NoFile \/ (cache'[p] = cache[p] /\ foreign'[p] = foreign[p])
      PROVE  CacheAgrees(p)'
  BY <1>1, <1>3 DEF AgreeInv, CacheAgrees, Retains
<1> QED
  BY <1>2, <1>3

LEMMA QuietSearch ==
    ASSUME FrameInv, AgreeInv, [IndexNext]_indexVars, UNCHANGED <<indexFile, torn>>, NEW t \in User,
           step'[t] = "load" => /\ Undisturbed(t) /\ cache'[Home[t]] = cache[Home[t]]
                                /\ foreign'[Home[t]] = foreign[Home[t]]
    PROVE  SearchAgrees(t)'
<1> SUFFICES ASSUME step'[t] = "load" PROVE SearchAgrees(t)'
  BY DEF SearchAgrees
<1>1. step[t] = "load" /\ due'[t] = due[t]
  BY DEF Undisturbed
<1>2. Content(Loaded(Home[t]))' = Content(Loaded(Home[t]))
  BY DEF Content, Loaded
<1>3. foreign[Home[t]] \/ torn \/ Retains(Content(Loaded(Home[t])), due[t])
  BY <1>1 DEF AgreeInv, SearchAgrees
<1> QED
  BY <1>1, <1>2, <1>3, KeepsFade DEF SearchAgrees, Retains

LEMMA QuietRebuild ==
    ASSUME FrameInv, AgreeInv, [IndexNext]_indexVars, UNCHANGED <<indexFile, manifest, torn>>,
           NEW q \in User, step'[q] \in Rebuilding => Undisturbed(q),
           \A t \in User : step'[t] = "load" => Undisturbed(t)
    PROVE  RebuildAgrees(q)'
<1> SUFFICES ASSUME step'[q] \in Rebuilding PROVE RebuildAgrees(q)'
  BY DEF RebuildAgrees
<1>1. step[q] \in Rebuilding /\ RebuildAgrees(q) /\ step'[q] = step[q] /\ gathered'[q] = gathered[q]
      /\ (alone'[q] => alone[q])
  BY DEF AgreeInv, Undisturbed
<1>2. Retains(gathered[q], Content(manifest))' \/ (torn' /\ ~alone'[q])
  <2>1. Content(manifest)' = Content(manifest)
    BY DEF Content
  <2> QED
    BY <1>1, <2>1, KeepsFade DEF RebuildAgrees, Retains
<1>3. ASSUME NEW t \in User, step'[t] = "load" PROVE Retains(gathered[q], due[t])' \/ (torn' /\ ~alone'[q])
  BY <1>1, <1>3, KeepsFade DEF RebuildAgrees, Retains, Undisturbed
<1>4. step'[q] = "publish" /\ alone'[q] => indexFile' = gathered'[q]
  BY <1>1 DEF RebuildAgrees
<1> QED
  BY <1>2, <1>3, <1>4 DEF RebuildAgrees

\* No two threads of a process are inside the lock.
LEMMA OneInside ==
    ASSUME FrameInv, NEW t \in User, NEW u \in User, t # u,
           step[t] \notin {"idle", "wait"}, step[u] \notin {"idle", "wait"}
    PROVE  Home[t] # Home[u]
BY DEF FrameInv, LockInv

\* A search that need not rebuild: the index it will read is as young as the manifest.
LEMMA CompareAgrees ==
    ASSUME FrameInv, AgreeInv, [IndexNext]_indexVars, NEW t \in User, Compare(t), ~Leave(t), ManifestIsCurrent
    PROVE  AgreeInv'
<1> USE IndexAssumption
<1>1. /\ UNCHANGED <<indexRows, indexFiles, cache, foreign, torn, gathered, alone>>
      /\ step[t] = "compare" /\ step' = [step EXCEPT ![t] = "load"]
      /\ due' = [due EXCEPT ![t] = embedded]
  BY DEF Compare
<1>2. UNCHANGED <<indexFile, manifest, torn>>
  BY <1>1 DEF indexFiles
<1>3. indexFile # NoFile /\ Content(manifest) = embedded
  BY DEF ManifestIsCurrent, Content, FrameInv, IndexTyped, Active
<1>4. ASSUME NEW u \in User, u # t PROVE Undisturbed(u)
  BY <1>1, <1>4 DEF Undisturbed, FrameInv, IndexTyped
<1>5. step'[t] = "load" /\ due'[t] = embedded
  BY <1>1 DEF FrameInv, IndexTyped
<1>6. embedded' = embedded /\ Loaded(Home[t])' = Loaded(Home[t]) /\ foreign' = foreign
  BY <1>1, <1>2 DEF indexRows, Loaded
<1>7. SearchAgrees(t)'
  <2>1. CASE cache[Home[t]] # NoFile
    <3>1. foreign[Home[t]] \/ torn \/ Retains(cache[Home[t]], embedded)
      BY <1>3, <2>1 DEF AgreeInv, CacheAgrees, FrameInv
    <3>2. Content(Loaded(Home[t])) = cache[Home[t]]
      BY <2>1 DEF Content, Loaded
    <3> QED
      BY <1>2, <1>5, <1>6, <3>1, <3>2 DEF SearchAgrees, Retains, Content
  <2>2. CASE cache[Home[t]] = NoFile
    <3>1. torn \/ Retains(indexFile, embedded)
      BY <1>3 DEF AgreeInv, FilesAgree
    <3>2. Content(Loaded(Home[t])) = indexFile
      BY <1>3, <2>2 DEF Content, Loaded
    <3> QED
      BY <1>2, <1>5, <1>6, <3>1, <3>2 DEF SearchAgrees, Retains, Content
  <2> QED
    BY <2>1, <2>2
<1>8. ASSUME NEW u \in User, u # t PROVE SearchAgrees(u)'
  BY <1>1, <1>2, <1>4, <1>8, QuietSearch
<1>9. ASSUME NEW q \in User PROVE RebuildAgrees(q)'
  <2>1. CASE q = t
    BY <1>5, <2>1 DEF RebuildAgrees, Rebuilding
  <2>2. ASSUME q # t, step'[q] \in Rebuilding PROVE RebuildAgrees(q)'
    <3>1. step'[q] = step[q] /\ gathered'[q] = gathered[q] /\ alone'[q] = alone[q] /\ RebuildAgrees(q)
      BY <1>1, <2>2, <1>4 DEF AgreeInv, Undisturbed
    <3>2. Retains(gathered[q], embedded) \/ (torn /\ ~alone[q])
      BY <1>3, <2>2, <3>1 DEF RebuildAgrees
    <3>3. ASSUME NEW u \in User, step'[u] = "load" PROVE Retains(gathered[q], due[u])' \/ (torn' /\ ~alone'[q])
      <4>1. CASE u = t
        BY <1>2, <1>5, <1>6, <3>1, <3>2, <4>1 DEF Retains
      <4>2. CASE u # t
        BY <1>2, <1>4, <1>6, <2>2, <3>1, <3>3, <4>2 DEF Retains, Undisturbed, RebuildAgrees
      <4> QED
        BY <4>1, <4>2
    <3>4. Retains(gathered[q], Content(manifest))' \/ (torn' /\ ~alone'[q])
      BY <1>2, <1>3, <1>6, <3>1, <3>2 DEF Retains, Content
    <3>5. step'[q] = "publish" /\ alone'[q] => indexFile' = gathered'[q]
      BY <1>2, <2>2, <3>1 DEF RebuildAgrees
    <3> QED
      BY <3>3, <3>4, <3>5 DEF RebuildAgrees
  <2> QED
    BY <2>1, <2>2 DEF RebuildAgrees
<1> QED
  BY <1>1, <1>2, <1>7, <1>8, <1>9, QuietFiles DEF AgreeInv

\* What is gathered now holds every row there is.
LEMMA GatherAgrees ==
    ASSUME FrameInv, AgreeInv, [IndexNext]_indexVars, NEW t \in User, Gather(t)
    PROVE  AgreeInv'
<1> USE IndexAssumption
<1>1. /\ UNCHANGED <<indexRows, indexFile, manifest, cache, foreign, torn>>
      /\ step' = [step EXCEPT ![t] = IF embedded = {} THEN "unlink" ELSE "replace"]
      /\ gathered' = [gathered EXCEPT ![t] = embedded]
      /\ due' = [due EXCEPT ![t] = IF task[t] = "search" THEN embedded ELSE {}]
      /\ alone' = [u \in User |-> IF u = t THEN Others(t) = {} ELSE alone[u] /\ u \notin Others(t)]
  BY DEF Gather, indexFiles
<1>2. ASSUME NEW u \in User, u # t PROVE Undisturbed(u)
  BY <1>1, <1>2 DEF Undisturbed, FrameInv, IndexTyped
<1>3. step'[t] \in {"unlink", "replace"} /\ gathered'[t] = embedded'
  BY <1>1 DEF FrameInv, IndexTyped, indexRows
<1>4. ASSUME NEW u \in User PROVE SearchAgrees(u)'
  <2>1. step'[u] = "load" => Undisturbed(u)
    BY <1>2, <1>3
  <2> QED
    BY <1>1, <2>1, QuietSearch
<1>5. RebuildAgrees(t)'
  BY <1>3 DEF RebuildAgrees, Retains
<1>6. ASSUME NEW q \in User, q # t PROVE RebuildAgrees(q)'
  <2>1. \A u \in User : step'[u] = "load" => Undisturbed(u)
    BY <1>2, <1>3
  <2> QED
    BY <1>1, <1>2, <1>6, <2>1, QuietRebuild
<1> QED
  BY <1>1, <1>4, <1>5, <1>6, QuietFiles DEF AgreeInv

\* A new index file: the caches of the other processes are overtaken, and those
\* that read the file find what this rebuild holds.
LEMMA ReplaceAgrees ==
    ASSUME FrameInv, AgreeInv, [IndexNext]_indexVars, NEW t \in User, ReplaceIndex(t)
    PROVE  AgreeInv'
<1> USE IndexAssumption
<1>1. /\ UNCHANGED <<indexRows, manifest, cache, gathered, due, alone, torn>>
      /\ step[t] = "replace" /\ step' = [step EXCEPT ![t] = "publish"]
      /\ indexFile' = gathered[t] /\ foreign' = Overtaken(t)
  BY DEF ReplaceIndex, indexLocals
<1>2. embedded' = embedded /\ Content(manifest)' = Content(manifest)
  BY <1>1 DEF indexRows, Content
<1>3. RebuildAgrees(t) /\ gathered[t] \in SUBSET Chunk /\ gathered[t] # NoFile
  BY DEF AgreeInv, FrameInv, IndexTyped
<1>4. \A u \in User \ {t} : step'[u] = step[u]
  BY <1>1 DEF FrameInv, IndexTyped
<1>5. step'[t] = "publish"
  BY <1>1 DEF FrameInv, IndexTyped
<1>6. \A p \in Process : cache[p] # NoFile => foreign'[p] = (foreign[p] \/ p # Home[t])
  BY <1>1 DEF Overtaken
<1>7. FilesAgree'
  BY <1>1, <1>2, <1>3 DEF FilesAgree, RebuildAgrees, Retains, Rebuilding
<1>8. ASSUME NEW p \in Process PROVE CacheAgrees(p)'
  BY <1>1, <1>2, <1>6 DEF AgreeInv, CacheAgrees, Retains
<1>9. ASSUME NEW u \in User PROVE SearchAgrees(u)'
  <2> SUFFICES ASSUME step'[u] = "load" PROVE SearchAgrees(u)'
    BY DEF SearchAgrees
  <2>1. u # t /\ step[u] = "load" /\ Home[u] # Home[t]
    BY <1>1, <1>4, <1>5, OneInside
  <2>2. CASE cache[Home[u]] # NoFile
    BY <1>6, <2>1, <2>2 DEF SearchAgrees, FrameInv, IndexTyped
  <2>3. CASE cache[Home[u]] = NoFile
    <3>1. Content(Loaded(Home[u]))' = gathered[t]
      BY <1>1, <1>3, <2>3 DEF Content, Loaded
    <3>2. Retains(gathered[t], due[u]) \/ torn
      BY <1>1, <1>3, <2>1 DEF RebuildAgrees, Rebuilding
    <3> QED
      BY <1>1, <1>2, <3>1, <3>2 DEF SearchAgrees, Retains
  <2> QED
    BY <2>2, <2>3
<1>10. ASSUME NEW q \in User PROVE RebuildAgrees(q)'
  <2> SUFFICES ASSUME step'[q] \in Rebuilding PROVE RebuildAgrees(q)'
    BY DEF RebuildAgrees
  <2>1. step[q] \in Rebuilding /\ RebuildAgrees(q)
    BY <1>1, <1>4 DEF Rebuilding, AgreeInv
  <2>2. \A u \in User : step'[u] = "load" => step[u] = "load"
    BY <1>4, <1>5
  <2>3. step'[q] = "publish" /\ alone'[q] => indexFile' = gathered'[q]
    <3>1. CASE q = t
      BY <1>1, <3>1
    <3>2. CASE q # t
      <4>1. Home[q] # Home[t]
        BY <1>1, <2>1, <3>2, OneInside DEF Rebuilding
      <4>2. ~alone[q]
        BY <1>1, <2>1, <4>1 DEF FrameInv, AloneInv, Rebuilding
      <4> QED
        BY <1>1, <4>2
    <3> QED
      BY <3>1, <3>2
  <2> QED
    BY <1>1, <1>2, <2>1, <2>2, <2>3 DEF RebuildAgrees, Retains
<1> QED
  BY <1>7, <1>8, <1>9, <1>10 DEF AgreeInv

\* The end of a rebuild: alone, its rows are the file's and the manifest's; not
\* alone, the files are torn and the other knows.
LEMMA PublishAgrees ==
    ASSUME FrameInv, FrameInv', AgreeInv, [IndexNext]_indexVars, NEW t \in User, Unlink(t) \/ Publish(t)
    PROVE  AgreeInv'
<1> USE IndexAssumption
<1> DEFINE F == IF step[t] = "publish" THEN gathered[t] ELSE NoFile
<1>1. /\ step[t] \in Rebuilding /\ manifest' = F /\ SetCache(t, F)
      /\ step[t] = "publish" => indexFile' = indexFile
      /\ step[t] # "publish" => indexFile' = NoFile /\ gathered[t] = {}
  BY DEF Unlink, Publish, Rebuilding, FrameInv, TaskInv, ThreadTask
<1>2. Content(F) = gathered[t] /\ gathered[t] # NoFile
  <2>1. gathered[t] \in SUBSET Chunk
    BY DEF FrameInv, IndexTyped
  <2> QED
    BY <1>1, <2>1 DEF Content
<1> HIDE DEF F
<1>3. /\ cache' = IF Searches(Home[t]) THEN [cache EXCEPT ![Home[t]] = F] ELSE cache
      /\ foreign' = [Overtaken(t) EXCEPT ![Home[t]] = FALSE]
      /\ torn' = ~alone[t] /\ embedded' = embedded
  BY <1>1 DEF SetCache, indexRows
<1>4. \A u \in User \ {t} : /\ step'[u] = step[u] /\ due'[u] = due[u]
                            /\ gathered'[u] = gathered[u] /\ alone'[u] = alone[u]
  <2>1. CASE Leave(t)
    BY <2>1 DEF Leave, FrameInv, IndexTyped
  <2>2. CASE ~Leave(t)
    BY <1>1, <2>2 DEF SetCache, FrameInv, IndexTyped
  <2> QED
    BY <2>1, <2>2
<1>5. /\ step'[t] \in {"idle", "load"}
      /\ step'[t] = "load" => task[t] = "search" /\ due'[t] = gathered[t]
  <2>1. CASE Leave(t)
    BY <2>1 DEF Leave, FrameInv, IndexTyped
  <2>2. CASE ~Leave(t)
    BY <1>1, <2>2 DEF SetCache, FrameInv, IndexTyped, TaskInv, ThreadTask
  <2> QED
    BY <2>1, <2>2
<1>6. \A p \in Process \ {Home[t]} :
        cache'[p] = cache[p] /\ (cache[p] # NoFile => foreign'[p])
  BY <1>3 DEF Overtaken, FrameInv, IndexTyped
<1>7. \A u \in User \ {t} : step'[u] \in Rebuilding \cup {"load"} => Home[u] # Home[t]
  BY <1>1, <1>4, OneInside DEF Rebuilding
<1>8. CASE ~alone[t]
  <2>1. ASSUME NEW q \in User PROVE RebuildAgrees(q)'
    <3> SUFFICES ASSUME step'[q] \in Rebuilding PROVE RebuildAgrees(q)'
      BY DEF RebuildAgrees
    <3>1. q # t /\ Home[q] # Home[t]
      BY <1>5, <1>7 DEF Rebuilding
    <3>2. ~alone'[q]
      BY <1>1, <1>4, <3>1 DEF FrameInv, AloneInv
    <3> QED
      BY <1>3, <1>8, <3>2 DEF RebuildAgrees
  <2> QED
    BY <1>3, <1>8, <2>1 DEF AgreeInv, FilesAgree, CacheAgrees, SearchAgrees
<1>9. CASE alone[t]
  <2>1. \A q \in User : step'[q] \notin Rebuilding
    BY <1>1, <1>4, <1>5, <1>7, <1>9 DEF FrameInv, AloneInv, Rebuilding
  <2>2. indexFile' = F
    BY <1>1, <1>9 DEF F, AgreeInv, RebuildAgrees, Rebuilding
  <2>3. Content(manifest)' = gathered[t]
    BY <1>1, <1>2 DEF Content
  <2>4. FilesAgree'
    BY <1>1, <2>2 DEF FilesAgree, Retains, Content
  <2>5. ASSUME NEW p \in Process PROVE CacheAgrees(p)'
    <3>1. CASE p # Home[t]
      BY <1>6, <3>1 DEF CacheAgrees
    <3>2. CASE p = Home[t] /\ Searches(p)
      BY <1>1, <1>3, <3>2 DEF CacheAgrees, Retains, Content, FrameInv, IndexTyped
    <3>3. CASE p = Home[t] /\ ~Searches(p)
      BY <1>3, <3>3 DEF CacheAgrees, FrameInv, TaskInv
    <3> QED
      BY <3>1, <3>2, <3>3
  <2>6. ASSUME NEW u \in User PROVE SearchAgrees(u)'
    <3> SUFFICES ASSUME step'[u] = "load" PROVE SearchAgrees(u)'
      BY DEF SearchAgrees
    <3>1. CASE u = t
      <4>1. Searches(Home[t])
        BY <1>5, <3>1 DEF FrameInv, TaskInv, ThreadTask, Searches
      <4>2. Loaded(Home[t])' = F
        BY <1>3, <2>2, <4>1 DEF Loaded, FrameInv, IndexTyped
      <4> QED
        BY <1>2, <1>5, <3>1, <4>2 DEF SearchAgrees, Retains, Content
    <3>2. CASE u # t /\ cache[Home[u]] # NoFile
      BY <1>6, <1>7, <3>2 DEF SearchAgrees, FrameInv, IndexTyped
    <3>3. CASE u # t /\ cache[Home[u]] = NoFile
      <4>1. cache'[Home[u]] = NoFile
        BY <1>6, <1>7, <3>3 DEF FrameInv, IndexTyped
      <4>2. Content(Loaded(Home[u]))' = gathered[t]
        BY <1>2, <2>2, <4>1 DEF Loaded, Content
      <4>3. Retains(gathered[t], due[u])
        BY <1>1, <1>4, <1>9, <3>3 DEF AgreeInv, RebuildAgrees
      <4> QED
        BY <1>3, <1>4, <3>3, <4>2, <4>3 DEF SearchAgrees, Retains
    <3> QED
      BY <3>1, <3>2, <3>3
  <2> QED
    BY <2>1, <2>4, <2>5, <2>6 DEF AgreeInv, RebuildAgrees
<1> QED
  BY <1>8, <1>9 DEF FrameInv, IndexTyped

\* The index is loaded into the cache as it is.
LEMMA QueryAgrees ==
    ASSUME FrameInv, AgreeInv, [IndexNext]_indexVars, NEW t \in User, Query(t)
    PROVE  AgreeInv'
<1> USE IndexAssumption
<1>1. /\ UNCHANGED <<indexRows, indexFile, manifest, foreign, torn>> /\ Leave(t)
      /\ step[t] = "load" /\ cache' = [cache EXCEPT ![Home[t]] = Loaded(Home[t])]
  BY DEF Query, indexFiles
<1>2. step'[t] = "idle" /\ \A u \in User \ {t} : Undisturbed(u)
  BY <1>1 DEF Leave, Undisturbed, FrameInv, IndexTyped
<1>3. \A p \in Process \ {Home[t]} : cache'[p] = cache[p]
  BY <1>1 DEF FrameInv, IndexTyped
<1>4. ASSUME NEW p \in Process PROVE CacheAgrees(p)'
  <2>1. CASE p # Home[t] \/ cache[p] # NoFile
    <3>1. cache'[p] = cache[p] /\ foreign'[p] = foreign[p]
      BY <1>1, <1>3, <2>1 DEF Loaded, FrameInv, IndexTyped
    <3> QED
      BY <1>1, <3>1, QuietFiles
  <2>2. CASE p = Home[t] /\ cache[p] = NoFile
    <3>1. cache'[p] = indexFile
      BY <1>1, <2>2 DEF Loaded, FrameInv, IndexTyped
    <3>2. FilesAgree'
      BY <1>1, QuietFiles
    <3> QED
      BY <1>1, <3>1, <3>2 DEF CacheAgrees, FilesAgree, Retains
  <2> QED
    BY <2>1, <2>2
<1>5. ASSUME NEW u \in User PROVE SearchAgrees(u)'
  <2>1. ASSUME step'[u] = "load"
        PROVE  /\ Undisturbed(u) /\ cache'[Home[u]] = cache[Home[u]] /\ foreign'[Home[u]] = foreign[Home[u]]
    <3>1. u # t /\ Undisturbed(u)
      BY <1>2, <2>1
    <3>2. Home[u] # Home[t]
      BY <1>1, <2>1, <3>1, OneInside DEF Undisturbed
    <3> QED
      BY <1>1, <1>3, <3>1, <3>2
  <2> QED
    BY <1>1, <2>1, QuietSearch
<1>6. ASSUME NEW q \in User PROVE RebuildAgrees(q)'
  <2>1. (step'[q] \in Rebuilding => Undisturbed(q)) /\ \A u \in User : step'[u] = "load" => Undisturbed(u)
    BY <1>2 DEF Rebuilding
  <2> QED
    BY <1>1, <2>1, QuietRebuild
<1> QED
  BY <1>1, <1>4, <1>5, <1>6, QuietFiles DEF AgreeInv

\* The other steps change no index, no manifest, and no thread that loads or rebuilds.
LEMMA QuietAgrees ==
    ASSUME FrameInv, AgreeInv, [IndexNext]_indexVars, UNCHANGED <<indexFile, manifest, torn>>,
           \A t \in User : step'[t] \in Rebuilding \cup {"load"} =>
               Undisturbed(t) /\ cache'[Home[t]] = cache[Home[t]] /\ foreign'[Home[t]] = foreign[Home[t]],
           \A p \in Process : cache'[p] = NoFile \/ (cache'[p] = cache[p] /\ foreign'[p] = foreign[p])
    PROVE  AgreeInv'
<1>1. ASSUME NEW t \in User PROVE SearchAgrees(t)'
  BY <1>1, QuietSearch
<1>2. ASSUME NEW q \in User PROVE RebuildAgrees(q)'
  BY <1>2, QuietRebuild
<1> QED
  BY <1>1, <1>2, QuietFiles DEF AgreeInv

LEMMA AgreeStep == FrameInv /\ AgreeInv /\ [IndexNext]_indexVars => AgreeInv'
<1> SUFFICES ASSUME FrameInv, AgreeInv, [IndexNext]_indexVars PROVE AgreeInv'
  OBVIOUS
<1> USE IndexAssumption
<1>1. ASSUME UNCHANGED <<indexFiles, torn, cache, foreign>>,
             \A t \in User : step'[t] \in Rebuilding \cup {"load"} => Undisturbed(t)
      PROVE  AgreeInv'
  BY <1>1, QuietAgrees DEF indexFiles
<1>2. ASSUME UNCHANGED <<indexFiles, torn, cache, foreign>>, NEW t \in User, Leave(t) PROVE AgreeInv'
  <2>1. step'[t] = "idle" /\ \A u \in User \ {t} : Undisturbed(u)
    BY <1>2 DEF Leave, Undisturbed, FrameInv, IndexTyped
  <2> QED
    BY <1>1, <1>2, <2>1 DEF Rebuilding
<1>3. ASSUME UNCHANGED <<indexFiles, torn, cache, foreign>>, UNCHANGED <<gathered, alone>>,
             NEW t \in User, NEW v, step' = [step EXCEPT ![t] = v], v \notin Rebuilding \cup {"load"},
             \A u \in User \ {t} : due'[u] = due[u]
      PROVE  AgreeInv'
  <2>1. step'[t] = v /\ \A u \in User \ {t} : Undisturbed(u)
    BY <1>3 DEF Undisturbed, FrameInv, IndexTyped
  <2> QED
    BY <1>1, <1>3, <2>1
<1>4. ASSUME NEW C \in SUBSET Chunk, ActivateChunks(C) \/ RemoveChunks(C) PROVE AgreeInv'
  BY <1>1, <1>4 DEF ActivateChunks, RemoveChunks, indexLocals, Undisturbed
<1>5. ASSUME NEW C \in SUBSET Chunk, PurgeChunks(C) PROVE AgreeInv'
  BY <1>3, <1>5 DEF PurgeChunks, indexLocals, User, Rebuilding
<1>6. ASSUME NEW t \in Thread, NEW what \in Duty[t], Enter(t, what) PROVE AgreeInv'
  BY <1>3, <1>6 DEF Enter, FirstStep, User, Rebuilding
<1>7. ASSUME EnterPurge PROVE AgreeInv'
  BY <1>3, <1>7 DEF EnterPurge, FirstStep, User, Rebuilding, indexLocals
<1>8. ASSUME NEW t \in User, Raise(t) \/ BatchTimesOut(t) PROVE AgreeInv'
  BY <1>2, <1>8 DEF Raise, BatchTimesOut
<1>9. ASSUME NEW t \in User, Scan(t) PROVE AgreeInv'
  BY <1>3, <1>9 DEF Scan, Rebuilding
<1>10. ASSUME NEW t \in User, NEW batch \in SUBSET missing[t], WriteBatch(t, batch) PROVE AgreeInv'
  BY <1>3, <1>10 DEF WriteBatch, Rebuilding
<1>11. ASSUME NEW t \in User, Compare(t) PROVE AgreeInv'
  <2>1. CASE Leave(t)
    BY <1>2, <1>11, <2>1 DEF Compare
  <2>2. CASE ~Leave(t) /\ ~ManifestIsCurrent
    <3>1. /\ UNCHANGED <<indexFiles, torn, cache, foreign, gathered, alone>>
          /\ step' = [step EXCEPT ![t] = "gather"]
          /\ due' = [due EXCEPT ![t] = IF task[t] = "search" THEN embedded ELSE {}]
      BY <1>11, <2>2 DEF Compare
    <3>2. \A u \in User \ {t} : due'[u] = due[u]
      BY <3>1 DEF FrameInv, IndexTyped
    <3> QED
      BY <1>3, <3>1, <3>2 DEF Rebuilding
  <2>3. CASE ~Leave(t) /\ ManifestIsCurrent
    BY <1>11, <2>3, CompareAgrees
  <2> QED
    BY <2>1, <2>2, <2>3
<1>12. ASSUME NEW t \in User, Gather(t) PROVE AgreeInv'
  BY <1>12, GatherAgrees
<1>13. ASSUME NEW t \in User, Unlink(t) \/ Publish(t) PROVE AgreeInv'
  BY <1>13, FrameStep, PublishAgrees
<1>14. ASSUME NEW t \in User, ReplaceIndex(t) PROVE AgreeInv'
  BY <1>14, ReplaceAgrees
<1>15. ASSUME NEW t \in User, Query(t) PROVE AgreeInv'
  BY <1>15, QueryAgrees
<1>16. ASSUME NEW p \in Process, RestartProcess(p) PROVE AgreeInv'
  <2>1. /\ UNCHANGED <<indexFile, manifest, torn>>
        /\ \A q \in Process : cache'[q] = NoFile \/ (cache'[q] = cache[q] /\ foreign'[q] = foreign[q])
    BY <1>16 DEF RestartProcess, indexFiles, FrameInv, IndexTyped
  <2>2. ASSUME NEW t \in User, step'[t] \in Rebuilding \cup {"load"}
        PROVE  Undisturbed(t) /\ cache'[Home[t]] = cache[Home[t]] /\ foreign'[Home[t]] = foreign[Home[t]]
    <3>1. Home[t] # p
      BY <1>16, <2>2 DEF RestartProcess, Rebuilding
    <3> QED
      BY <1>16, <3>1 DEF RestartProcess, Undisturbed, FrameInv, IndexTyped
  <2> QED
    BY <2>1, <2>2, QuietAgrees
<1>17. ASSUME UNCHANGED indexVars PROVE AgreeInv'
  BY <1>1, <1>17 DEF indexVars, indexLocals, Undisturbed
<1> QED
  BY <1>4, <1>5, <1>6, <1>7, <1>8, <1>9, <1>10, <1>11, <1>12, <1>13, <1>14, <1>15, <1>16, <1>17
  DEF IndexNext, IndexProceed

LEMMA IndexBegins == IndexInit => FrameInv /\ AgreeInv
<1> SUFFICES ASSUME IndexInit PROVE FrameInv /\ AgreeInv
  OBVIOUS
<1> USE IndexAssumption DEF IndexInit
<1>1. IndexTyped
  BY DEF IndexTyped, FileSet, IndexStep, Active
<1>2. LockInv /\ TaskInv /\ AloneInv
  BY DEF LockInv, TaskInv, ThreadTask, AloneInv, Rebuilding
<1>3. PastInv
  BY DEF PastInv, Past, Content
<1>4. AgreeInv
  BY DEF AgreeInv, FilesAgree, CacheAgrees, SearchAgrees, RebuildAgrees, Rebuilding
<1> QED
  BY <1>1, <1>2, <1>3, <1>4 DEF FrameInv

\* A search that synchronized finds every chunk that still has a row, in spite of
\* removals, crashes and failures, unless another process replaced the index
\* after this one had set its cache, or the files come from two rebuilds at the
\* same time (VectorIndex.search, _load_index, rebuild_workspace).
THEOREM SearchesFindTheirRows == IndexSpec => []SearchFindsIndexed
<1>1. FrameInv /\ AgreeInv /\ [IndexNext]_indexVars => (FrameInv /\ AgreeInv)'
  BY FrameStep, AgreeStep
<1>2. FrameInv /\ AgreeInv => SearchFindsIndexed
  BY DEF AgreeInv, SearchAgrees, SearchFindsIndexed, Retains, Content, Hits
<1> QED
  BY <1>1, <1>2, IndexBegins, PTL DEF IndexSpec
====
