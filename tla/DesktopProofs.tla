--------------------------- MODULE DesktopProofs ----------------------------
(***************************************************************************)
(* What holds, for every value of the constants, of the desktop app's copy *)
(* of what the backend knows: what is searched for, opened and submitted   *)
(* on Home (DesktopHome), and a download in the store (DesktopJobs). Each  *)
(* part has an inductive invariant of its own; they share no state.        *)
(***************************************************************************)
EXTENDS DesktopHome, DesktopJobs, FiniteSetTheorems, TLAPS

-----------------------------------------------------------------------------
(* What Home shows *)

Terms == {TermOf[t] : t \in Texts} \union {NoTerm}
Ordered == {p \in Seq(Nat) : InOrder(p)}
\* The answers of the backend of connection c.
SearchAnswers(c) == [of : Terms, from : {c}, pages : [Groups -> Ordered]]
ArtistAnswers(c) == [of : Artists, from : {c}, pages : Ordered]
AlbumAnswers(c) == [of : Albums, from : {c}, pages : Ordered]

Statuses == {"idle", "loading", "ready", "failed"}
Pagings == {"idle", "loading", "failed"}

\* What a part shows and keeps on connection c.
SearchForms(c) == [want : Terms, gen : Nat, term : Terms, status : Statuses,
                   shown : SearchAnswers(c) \union {Nothing}, stale : BOOLEAN,
                   more : [Groups -> Pagings], cache : Seq(SearchAnswers(c))]
ArtistForms(c) == [id : Artists \union {Nil}, gen : Nat, status : Statuses,
                   shown : ArtistAnswers(c) \union {Nothing}, more : Pagings,
                   cache : Seq(ArtistAnswers(c))]
AlbumForms(c) == [id : Albums \union {Nil}, gen : Nat, status : Statuses,
                  shown : AlbumAnswers(c) \union {Nothing}, cache : Seq(AlbumAnswers(c))]

\* What is under way on the present connection, for each part of Home.
SearchAir == {x \in air : x.conn = conn /\ x.kind \in {"typedTerm", "search", "more"}}
ArtistAir == {x \in air : x.conn = conn /\ x.kind \in {"artist", "artistMore"}}
AlbumAir == {x \in air : x.conn = conn /\ x.kind = "album"}
SubmitAir == {x \in air : x.conn = conn /\ x.kind = "submit"}

HomeTyped ==
    /\ conn \in Nat \ {0} /\ online \in BOOLEAN
    /\ \A x \in air : x.conn \in Nat /\ x.conn <= conn /\ x.gen \in Nat /\ x.kind \in Kinds
    /\ omni.text \in Texts /\ omni.gen \in Nat

\* Nothing of the search waits for what is not under way, and what is under way
\* for its generation is what it waits for.
SearchInv ==
    /\ q \in SearchForms(conn)
    /\ q.status = "ready" => q.shown # Nothing /\ q.shown.of = q.term
    /\ q.stale => q.status = "loading"
    /\ online /\ q.status = "loading" =>
          \E x \in SearchAir : x.kind \in {"typedTerm", "search"} /\ x.gen = q.gen
    /\ online => \A g \in Groups : q.more[g] = "loading" =>
          \E x \in SearchAir : x.kind = "more" /\ x.gen = q.gen /\ x.group = g
    /\ \A x \in SearchAir : /\ x.gen \in 0..q.gen
                            /\ x.gen = q.gen => x.of = q.term
                            /\ x.gen = q.gen /\ x.kind # "more" => q.status = "loading"
                            /\ x.gen = q.gen /\ x.kind = "more" =>
                                 /\ q.status = "ready" /\ x.group \in Groups
                                 /\ x.page \in 1..Len(q.shown.pages[x.group]) + 1
    /\ \A x, y \in SearchAir :
          x.gen = q.gen /\ y.gen = q.gen /\ "more" \notin {x.kind, y.kind} => x = y

ArtistInv ==
    /\ artist \in ArtistForms(conn)
    /\ artist.status = "ready" => artist.shown # Nothing /\ artist.shown.of = artist.id
    /\ online /\ artist.status = "loading" =>
          \E x \in ArtistAir : x.kind = "artist" /\ x.gen = artist.gen
    /\ online /\ artist.more = "loading" =>
          \E x \in ArtistAir : x.kind = "artistMore" /\ x.gen = artist.gen
    /\ \A x \in ArtistAir : /\ x.gen \in 0..artist.gen
                            /\ x.gen = artist.gen => x.of = artist.id /\ x.of \in Artists
                            /\ x.gen = artist.gen /\ x.kind = "artist" => artist.status = "loading"
                            /\ x.gen = artist.gen /\ x.kind = "artistMore" =>
                                 /\ artist.status = "ready"
                                 /\ x.page \in 1..Len(artist.shown.pages) + 1
    /\ \A x, y \in ArtistAir :
          x.gen = artist.gen /\ y.gen = artist.gen /\ "artistMore" \notin {x.kind, y.kind} => x = y

AlbumInv ==
    /\ album \in AlbumForms(conn)
    /\ album.status = "ready" => album.shown # Nothing /\ album.shown.of = album.id
    /\ online /\ album.status = "loading" => \E x \in AlbumAir : x.gen = album.gen
    /\ \A x \in AlbumAir : /\ x.gen \in 0..album.gen
                           /\ x.gen = album.gen => /\ x.of = album.id /\ x.of \in Albums
                                                   /\ album.status = "loading"
    /\ \A x, y \in AlbumAir : x.gen = album.gen /\ y.gen = album.gen => x = y

SubmitInv == online /\ omni.submitting => SubmitAir # {}

HomeInv == HomeTyped /\ SearchInv /\ ArtistInv /\ AlbumInv /\ SubmitInv

LEMMA KeptIn ==
    ASSUME NEW S, NEW c \in Seq(S), NEW k, Holds(c, k)
    PROVE  Place(c, k) \in 1..Len(c) /\ Kept(c, k) \in S /\ Kept(c, k).of = k
<1>1. Place(c, k) \in 1..Len(c) /\ c[Place(c, k)].of = k
  BY DEF Holds, Place
<1> QED BY <1>1 DEF Kept

LEMMA TouchIn ==
    ASSUME NEW S, NEW c \in Seq(S), NEW v \in S
    PROVE  Touch(c, v) \in Seq(S)
<1>1. PICK rest : rest = IF Holds(c, v.of) THEN RemoveAt(c, Place(c, v.of)) ELSE c
  OBVIOUS
<1>2. rest \in Seq(S)
  <2>1. CASE Holds(c, v.of)
    <3>1. PICK i \in 1..Len(c) : rest = RemoveAt(c, i)
      BY <2>1, <1>1, KeptIn
    <3>2. SubSeq(c, 1, i - 1) \in Seq(S) /\ SubSeq(c, i + 1, Len(c)) \in Seq(S)
      OBVIOUS
    <3> QED BY <3>1, <3>2 DEF RemoveAt
  <2> QED BY <2>1, <1>1
<1>3. PICK all : all = Append(rest, v)
  OBVIOUS
<1>4. all \in Seq(S) /\ all # <<>>
  BY <1>2, <1>3
<1>5. Tail(all) \in Seq(S)
  BY <1>4
<1>6. Touch(c, v) = IF Len(all) > CacheMax THEN Tail(all) ELSE all
  BY <1>1, <1>3 DEF Touch
<1> QED BY <1>4, <1>5, <1>6

LEMMA PageJoins ==
    ASSUME NEW p \in Ordered, NEW n \in 1..Len(p) + 1
    PROVE  AppendPage(p, n) \in Ordered /\ Len(p) <= Len(AppendPage(p, n))
<1>1. p \in Seq(Nat) /\ \A i \in 1..Len(p) : p[i] = i
  BY DEF Ordered, InOrder
<1>2. CASE n <= Len(p)
  BY <1>1, <1>2 DEF AppendPage, Contains
<1>3. CASE n = Len(p) + 1
  <2>1. ~Contains(p, n)
    BY <1>1, <1>3 DEF Contains
  <2>2. PICK w : w = Append(p, n)
    OBVIOUS
  <2>3. w \in Seq(Nat) /\ Len(w) = Len(p) + 1 /\ \A i \in 1..Len(p) + 1 : w[i] = i
    BY <1>1, <1>3, <2>2
  <2>4. w \in Ordered
    BY <2>3 DEF Ordered, InOrder
  <2> QED BY <2>1, <2>2, <2>3, <2>4, <1>1 DEF AppendPage
<1> QED BY <1>1, <1>2, <1>3

LEMMA FirstInOrder == <<1>> \in Ordered /\ FirstPages \in [Groups -> Ordered] /\ <<>> \in Ordered /\ Len(<<1>>) = 1
<1>1. PICK w : w = <<1>>
  OBVIOUS
<1>2. w \in Seq(Nat) /\ Len(w) = 1 /\ \A i \in 1..1 : w[i] = i
  BY <1>1
<1>3. w \in Ordered
  BY <1>2 DEF Ordered, InOrder
<1>4. <<>> \in Ordered
  BY DEF Ordered, InOrder
<1> QED BY <1>1, <1>2, <1>3, <1>4 DEF FirstPages

LEMMA SentIs ==
    ASSUME NEW kind, NEW gen, NEW of, NEW n, NEW g
    PROVE  /\ Sent(kind, gen, of).kind = kind /\ Sent(kind, gen, of).conn = conn
           /\ Sent(kind, gen, of).gen = gen /\ Sent(kind, gen, of).of = of
           /\ SentLinks(kind, gen, of).kind = kind /\ SentLinks(kind, gen, of).conn = conn
           /\ SentLinks(kind, gen, of).gen = gen
           /\ SentMore(kind, gen, of, g, n).kind = kind /\ SentMore(kind, gen, of, g, n).conn = conn
           /\ SentMore(kind, gen, of, g, n).gen = gen /\ SentMore(kind, gen, of, g, n).of = of
           /\ SentMore(kind, gen, of, g, n).group = g /\ SentMore(kind, gen, of, g, n).page = n
BY DEF Sent, SentLinks, SentMore

\* What is under way for each part once a request more or less is.
LEMMA AirGains ==
    ASSUME NEW r, r.conn = conn, air' = air \union {r}, conn' = conn
    PROVE  /\ SearchAir' = IF r.kind \in {"typedTerm", "search", "more"} THEN SearchAir \union {r} ELSE SearchAir
           /\ ArtistAir' = IF r.kind \in {"artist", "artistMore"} THEN ArtistAir \union {r} ELSE ArtistAir
           /\ AlbumAir' = IF r.kind = "album" THEN AlbumAir \union {r} ELSE AlbumAir
           /\ SubmitAir' = IF r.kind = "submit" THEN SubmitAir \union {r} ELSE SubmitAir
BY DEF SearchAir, ArtistAir, AlbumAir, SubmitAir

LEMMA AirLoses ==
    ASSUME NEW x \in air, air' = air \ {x}, conn' = conn
    PROVE  /\ SearchAir' = SearchAir \ {x} /\ ArtistAir' = ArtistAir \ {x}
           /\ AlbumAir' = AlbumAir \ {x} /\ SubmitAir' = SubmitAir \ {x}
BY DEF SearchAir, ArtistAir, AlbumAir, SubmitAir

LEMMA AirStays ==
    ASSUME UNCHANGED <<air, conn>>
    PROVE  /\ SearchAir' = SearchAir /\ ArtistAir' = ArtistAir
           /\ AlbumAir' = AlbumAir /\ SubmitAir' = SubmitAir
BY DEF SearchAir, ArtistAir, AlbumAir, SubmitAir

\* A part that a step leaves alone.
LEMMA SearchStays ==
    ASSUME SearchInv, UNCHANGED <<q, conn, online>>, SearchAir' = SearchAir \/ (~online /\ SearchAir' \subseteq SearchAir)
    PROVE  SearchInv'
BY DEF SearchInv
LEMMA ArtistStays ==
    ASSUME ArtistInv, UNCHANGED <<artist, conn, online>>, ArtistAir' = ArtistAir \/ (~online /\ ArtistAir' \subseteq ArtistAir)
    PROVE  ArtistInv'
BY DEF ArtistInv
LEMMA AlbumStays ==
    ASSUME AlbumInv, UNCHANGED <<album, conn, online>>, AlbumAir' = AlbumAir \/ (~online /\ AlbumAir' \subseteq AlbumAir)
    PROVE  AlbumInv'
BY DEF AlbumInv
LEMMA SubmitStays ==
    ASSUME SubmitInv, omni'.submitting = omni.submitting, UNCHANGED online, SubmitAir' = SubmitAir \/ ~online
    PROVE  SubmitInv'
BY DEF SubmitInv

LEMMA HomeInvInit == HomeInit => HomeInv
<1> SUFFICES ASSUME HomeInit PROVE HomeInv
  OBVIOUS
<1>1. /\ conn = 1 /\ online = TRUE /\ omni = NewOmni /\ air = {}
      /\ q = NewSearch /\ artist = NewArtist /\ album = NewAlbum
  BY DEF HomeInit
<1>2. SearchAir = {} /\ ArtistAir = {} /\ AlbumAir = {} /\ SubmitAir = {}
  BY <1>1 DEF SearchAir, ArtistAir, AlbumAir, SubmitAir
<1>3. HomeTyped /\ SubmitInv
  BY <1>1, HomeAssumption DEF HomeTyped, SubmitInv, NewOmni
<1>4. NewSearch \in SearchForms(conn)
  BY DEF NewSearch, Terms, Statuses, Pagings, NotPaging, SearchForms
<1>5. SearchInv
  BY <1>1, <1>2, <1>4 DEF SearchInv, NewSearch, NotPaging
<1>6. NewArtist \in ArtistForms(conn)
  BY DEF NewArtist, Statuses, Pagings, ArtistForms
<1>7. ArtistInv
  BY <1>1, <1>2, <1>6 DEF ArtistInv, NewArtist
<1>8. NewAlbum \in AlbumForms(conn)
  BY DEF NewAlbum, Statuses, AlbumForms
<1>9. AlbumInv
  BY <1>1, <1>2, <1>8 DEF AlbumInv, NewAlbum
<1> QED BY <1>3, <1>5, <1>7, <1>9 DEF HomeInv

\* A new generation, with what it asks for.
LEMMA SearchAsks ==
    ASSUME SearchInv, UNCHANGED <<conn, online>>,
           q' \in SearchForms(conn),
           q'.gen = q.gen + 1, \A g \in Groups : q'.more[g] = "idle",
           q'.status = "ready" => q'.shown # Nothing /\ q'.shown.of = q'.term,
           q'.stale => q'.status = "loading",
           \/ q'.status # "loading" /\ SearchAir' = SearchAir
           \/ \E r : /\ r.kind \in {"typedTerm", "search"} /\ r.gen = q'.gen /\ r.of = q'.term
                     /\ q'.status = "loading" /\ SearchAir' = SearchAir \union {r}
    PROVE  SearchInv'
<1>1. q.gen \in Nat /\ q'.gen \in Nat /\ \A x \in SearchAir : x.gen \in 0..q.gen
  BY DEF SearchInv, SearchForms
<1>2. CASE q'.status # "loading" /\ SearchAir' = SearchAir
  BY <1>1, <1>2 DEF SearchInv, SearchForms
<1>3. ASSUME NEW r, r.kind \in {"typedTerm", "search"}, r.gen = q'.gen, r.of = q'.term,
             q'.status = "loading", SearchAir' = SearchAir \union {r}
      PROVE  SearchInv'
  <2>1. \A x \in SearchAir' : x.gen = q'.gen => x = r
    BY <1>1, <1>3
  <2>2. \A x \in SearchAir' : x.gen \in 0..q'.gen
    BY <1>1, <1>3
  <2>3. r \in SearchAir'
    BY <1>3
  <2> QED BY <1>1, <1>3, <2>1, <2>2, <2>3 DEF SearchInv, SearchForms
<1> QED BY <1>2, <1>3

LEMMA ArtistAsks ==
    ASSUME ArtistInv, UNCHANGED <<conn, online>>,
           artist' \in ArtistForms(conn),
           artist'.gen = artist.gen + 1, artist'.more = "idle",
           artist'.status = "ready" => artist'.shown # Nothing /\ artist'.shown.of = artist'.id,
           \/ artist'.status # "loading" /\ ArtistAir' = ArtistAir
           \/ \E r : /\ r.kind = "artist" /\ r.gen = artist'.gen /\ r.of = artist'.id /\ r.of \in Artists
                     /\ artist'.status = "loading" /\ ArtistAir' = ArtistAir \union {r}
    PROVE  ArtistInv'
<1>1. artist.gen \in Nat /\ artist'.gen \in Nat /\ \A x \in ArtistAir : x.gen \in 0..artist.gen
  BY DEF ArtistInv, ArtistForms
<1>2. CASE artist'.status # "loading" /\ ArtistAir' = ArtistAir
  BY <1>1, <1>2 DEF ArtistInv, ArtistForms
<1>3. ASSUME NEW r, r.kind = "artist", r.gen = artist'.gen, r.of = artist'.id, r.of \in Artists,
             artist'.status = "loading", ArtistAir' = ArtistAir \union {r}
      PROVE  ArtistInv'
  <2>1. \A x \in ArtistAir' : x.gen = artist'.gen => x = r
    BY <1>1, <1>3
  <2>2. \A x \in ArtistAir' : x.gen \in 0..artist'.gen
    BY <1>1, <1>3
  <2>3. r \in ArtistAir'
    BY <1>3
  <2> QED BY <1>1, <1>3, <2>1, <2>2, <2>3 DEF ArtistInv, ArtistForms
<1> QED BY <1>2, <1>3

LEMMA AlbumAsks ==
    ASSUME AlbumInv, UNCHANGED <<conn, online>>,
           album' \in AlbumForms(conn),
           album'.gen = album.gen + 1,
           album'.status = "ready" => album'.shown # Nothing /\ album'.shown.of = album'.id,
           \/ album'.status # "loading" /\ AlbumAir' = AlbumAir
           \/ \E r : /\ r.gen = album'.gen /\ r.of = album'.id /\ r.of \in Albums
                     /\ album'.status = "loading" /\ AlbumAir' = AlbumAir \union {r}
    PROVE  AlbumInv'
<1>1. album.gen \in Nat /\ album'.gen \in Nat /\ \A x \in AlbumAir : x.gen \in 0..album.gen
  BY DEF AlbumInv, AlbumForms
<1>2. CASE album'.status # "loading" /\ AlbumAir' = AlbumAir
  BY <1>1, <1>2 DEF AlbumInv, AlbumForms
<1>3. ASSUME NEW r, r.gen = album'.gen, r.of = album'.id, r.of \in Albums,
             album'.status = "loading", AlbumAir' = AlbumAir \union {r}
      PROVE  AlbumInv'
  <2>1. \A x \in AlbumAir' : x.gen = album'.gen => x = r
    BY <1>1, <1>3
  <2>2. \A x \in AlbumAir' : x.gen \in 0..album'.gen
    BY <1>1, <1>3
  <2>3. r \in AlbumAir'
    BY <1>3
  <2> QED BY <1>1, <1>3, <2>1, <2>2, <2>3 DEF AlbumInv, AlbumForms
<1> QED BY <1>2, <1>3

\* A new connection: nothing is under way on it.
LEMMA ConnectKeeps == ASSUME HomeInv, Connect PROVE HomeInv'
<1>1. /\ conn' = conn + 1 /\ online' \in BOOLEAN /\ air' = air
      /\ omni' = NewOmni /\ q' = NewSearch /\ artist' = NewArtist /\ album' = NewAlbum
  BY DEF Connect
<1>2. conn \in Nat \ {0} /\ \A x \in air : x.conn \in Nat /\ x.conn <= conn /\ x.gen \in Nat /\ x.kind \in Kinds
  BY DEF HomeInv, HomeTyped
<1>3. \A x \in air : x.conn # conn' /\ x.conn <= conn'
  BY <1>1, <1>2
<1>4. SearchAir' = {} /\ ArtistAir' = {} /\ AlbumAir' = {} /\ SubmitAir' = {}
  BY <1>1, <1>3 DEF SearchAir, ArtistAir, AlbumAir, SubmitAir
<1>5. HomeTyped' /\ SubmitInv'
  BY <1>1, <1>2, <1>3, HomeAssumption DEF HomeTyped, SubmitInv, NewOmni
<1>6. NewSearch \in SearchForms(conn')
  BY DEF NewSearch, Terms, Statuses, Pagings, NotPaging, SearchForms
<1>7. SearchInv'
  BY <1>1, <1>4, <1>6 DEF SearchInv, SearchForms, NewSearch, NotPaging
<1>8. NewArtist \in ArtistForms(conn')
  BY DEF NewArtist, Statuses, Pagings, ArtistForms
<1>9. ArtistInv'
  BY <1>1, <1>4, <1>8 DEF ArtistInv, NewArtist
<1>10. NewAlbum \in AlbumForms(conn')
  BY DEF NewAlbum, Statuses, AlbumForms
<1>11. AlbumInv'
  BY <1>1, <1>4, <1>10 DEF AlbumInv, NewAlbum
<1> QED BY <1>5, <1>7, <1>9, <1>11 DEF HomeInv

\* A request that is sent, or nothing: the other parts stay as they are.
LEMMA SendKeeps ==
    ASSUME HomeTyped, UNCHANGED <<conn, online>>, omni'.text \in Texts /\ omni'.gen \in Nat,
           \/ air' = air
           \/ \E r : /\ r.conn = conn /\ r.gen \in Nat /\ air' = air \union {r}
                     /\ r.kind \in {"typedLinks", "typedTerm", "lookup", "submit", "search", "more", "artist",
                                    "artistMore", "album"}
           \/ \E x \in air : air' = air \ {x}
    PROVE  HomeTyped'
BY DEF HomeTyped, Kinds

LEMMA WantKeeps == ASSUME HomeInv, WantSearch PROVE HomeInv'
<1>ty. HomeTyped /\ SearchInv /\ ArtistInv /\ AlbumInv /\ SubmitInv
  BY DEF HomeInv
<1>1. Term \in Terms
  BY <1>ty DEF HomeTyped, Term, Terms
<1>2. UNCHANGED <<conn, online, omni, album>> /\ CloseArtist
  BY DEF WantSearch
<1>3. q \in SearchForms(conn) /\ q.cache \in Seq(SearchAnswers(conn)) /\ q.gen \in Nat
  BY <1>ty DEF SearchInv, SearchForms
<1>4. PICK s : s = Asked(Term)
  OBVIOUS
<1>5. /\ s \in SearchForms(conn)
      /\ s.gen = q.gen + 1 /\ s.term = Term /\ s.cache = q.cache /\ \A g \in Groups : s.more[g] = "idle"
  <2>1. q.gen + 1 \in Nat /\ NotPaging \in [Groups -> Pagings] /\ \A g \in Groups : NotPaging[g] = "idle"
    BY <1>3 DEF NotPaging, Pagings, SearchForms
  <2> QED BY <2>1, <1>1, <1>3, <1>4 DEF Asked, SearchForms
<1>6. /\ SearchInv' /\ ArtistAir' = ArtistAir /\ AlbumAir' = AlbumAir /\ SubmitAir' = SubmitAir
      /\ HomeTyped'
  <2>0. omni'.text \in Texts /\ omni'.gen \in Nat
    BY <1>2, <1>ty DEF HomeTyped
  <2>1. CASE q' = [s EXCEPT !.status = "idle", !.shown = Nothing, !.stale = FALSE] /\ UNCHANGED air
    <3>1. /\ q' \in SearchForms(conn)
          /\ q'.gen = q.gen + 1 /\ q'.status = "idle" /\ ~q'.stale /\ q'.more = s.more
      BY <2>1, <1>5 DEF Statuses, SearchForms
    <3> QED BY <3>1, <2>0, <2>1, <1>ty, <1>2, <1>5, AirStays, SearchAsks, SendKeeps
  <2>2. CASE /\ Holds(q.cache, Term) /\ UNCHANGED air
             /\ q' = [s EXCEPT !.status = "ready", !.shown = Kept(q.cache, Term),
                               !.stale = FALSE, !.cache = Touch(@, Kept(@, Term))]
    <3>1. /\ Kept(q.cache, Term) \in SearchAnswers(conn) /\ Kept(q.cache, Term).of = Term
      BY <2>2, <1>3, KeptIn
    <3>2. Touch(q.cache, Kept(q.cache, Term)) \in Seq(SearchAnswers(conn))
      BY <3>1, <1>3, TouchIn
    <3>3. /\ q' \in SearchForms(conn)
          /\ q'.gen = q.gen + 1 /\ q'.status = "ready" /\ ~q'.stale /\ q'.more = s.more
          /\ q'.shown = Kept(q.cache, Term) /\ q'.term = Term
      BY <3>1, <3>2, <2>2, <1>5 DEF Statuses, SearchForms
    <3>4. Kept(q.cache, Term) # Nothing
      BY <3>1, <1>ty DEF HomeTyped, SearchAnswers, Nothing
    <3> QED BY <3>1, <3>3, <3>4, <2>0, <2>2, <1>ty, <1>2, <1>5, AirStays, SearchAsks, SendKeeps
  <2>3. CASE q' = [s EXCEPT !.status = "failed", !.shown = Nothing, !.stale = FALSE] /\ UNCHANGED air
    <3>1. /\ q' \in SearchForms(conn)
          /\ q'.gen = q.gen + 1 /\ q'.status = "failed" /\ ~q'.stale /\ q'.more = s.more
      BY <2>3, <1>5 DEF Statuses, SearchForms
    <3> QED BY <3>1, <2>0, <2>3, <1>ty, <1>2, <1>5, AirStays, SearchAsks, SendKeeps
  <2>4. CASE /\ q' = [s EXCEPT !.status = "loading", !.stale = q.shown # Nothing]
             /\ air' = air \union {Sent("typedTerm", q'.gen, Term)}
    <3>1. /\ q' \in SearchForms(conn)
          /\ q'.gen = q.gen + 1 /\ q'.status = "loading" /\ q'.more = s.more /\ q'.term = Term
      BY <2>4, <1>5 DEF Statuses, SearchForms
    <3>2. PICK r : r = Sent("typedTerm", q'.gen, Term)
      OBVIOUS
    <3>3. r.kind = "typedTerm" /\ r.conn = conn /\ r.gen = q'.gen /\ r.of = Term
      BY <3>2, SentIs
    <3>4. /\ SearchAir' = SearchAir \union {r} /\ ArtistAir' = ArtistAir /\ AlbumAir' = AlbumAir
          /\ SubmitAir' = SubmitAir
      BY <3>2, <3>3, <2>4, <1>2, AirGains
    <3>5. r.gen \in Nat
      BY <3>1, <3>3, <1>3
    <3>6. SearchInv'
      BY <3>1, <3>3, <3>4, <1>ty, <1>2, <1>5, SearchAsks
    <3>7. HomeTyped'
      BY <3>2, <3>3, <3>5, <2>0, <2>4, <1>ty, <1>2, SendKeeps
    <3> QED BY <3>4, <3>6, <3>7
  <2> QED BY <2>1, <2>2, <2>3, <2>4, <1>4 DEF WantSearch
<1>7. ArtistInv'
  <2>1. artist' = [NewArtist EXCEPT !.gen = artist.gen + 1, !.cache = artist.cache]
    BY <1>2 DEF CloseArtist
  <2>2. artist.gen \in Nat /\ artist.cache \in Seq(ArtistAnswers(conn))
    BY <1>ty DEF ArtistInv, ArtistForms
  <2>3. /\ artist' \in ArtistForms(conn)
        /\ artist'.gen = artist.gen + 1 /\ artist'.more = "idle" /\ artist'.status = "idle"
    <3>1. artist.gen + 1 \in Nat
      BY <2>2
    <3> QED BY <3>1, <2>1, <2>2 DEF NewArtist, Statuses, Pagings, ArtistForms
  <2> QED BY <2>3, <1>ty, <1>2, <1>6, ArtistAsks
<1>8. AlbumInv' /\ SubmitInv'
  BY <1>ty, <1>2, <1>6, AlbumStays, SubmitStays
<1> QED BY <1>6, <1>7, <1>8 DEF HomeInv

LEMMA RetryKeeps == ASSUME HomeInv, RetrySearch PROVE HomeInv'
<1>ty. HomeTyped /\ SearchInv /\ ArtistInv /\ AlbumInv /\ SubmitInv
  BY DEF HomeInv
<1>1. UNCHANGED <<conn, online, omni, artist, album>> /\ q.status = "failed"
  BY DEF RetrySearch
<1>2. q \in SearchForms(conn) /\ q.gen \in Nat /\ q.gen + 1 \in Nat
  BY <1>ty DEF SearchInv, SearchForms
<1>3. NotPaging \in [Groups -> Pagings] /\ \A g \in Groups : NotPaging[g] = "idle"
  BY DEF NotPaging, Pagings
<1>4. CASE /\ q' = Searching([q EXCEPT !.gen = @ + 1], q.term)
           /\ air' = air \union {Sent("search", q'.gen, q.term)}
  <2>1. q' \in SearchForms(conn) /\ q'.gen = q.gen + 1 /\ q'.status = "loading" /\ q'.more = NotPaging /\ q'.term = q.term
    <3>1. PICK s : s = [q EXCEPT !.gen = @ + 1]
      OBVIOUS
    <3>2. s \in SearchForms(conn) /\ s.gen = q.gen + 1 /\ s.term = q.term
      BY <3>1, <1>2 DEF SearchForms
    <3>3. q' = [s EXCEPT !.term = q.term, !.status = "loading", !.stale = s.shown # Nothing, !.more = NotPaging]
      BY <3>1, <1>4 DEF Searching
    <3> QED BY <3>2, <3>3, <1>3 DEF SearchForms, Statuses
  <2>2. PICK r : r = Sent("search", q'.gen, q.term)
    OBVIOUS
  <2>3. r.kind = "search" /\ r.conn = conn /\ r.gen = q'.gen /\ r.of = q.term
    BY <2>2, SentIs
  <2>4. /\ SearchAir' = SearchAir \union {r} /\ ArtistAir' = ArtistAir /\ AlbumAir' = AlbumAir
        /\ SubmitAir' = SubmitAir
    BY <2>2, <2>3, <1>4, <1>1, AirGains
  <2>5. SearchInv'
    BY <2>1, <2>3, <2>4, <1>ty, <1>1, <1>3, SearchAsks
  <2>6. HomeTyped'
    BY <2>1, <2>2, <2>3, <1>4, <1>ty, <1>1, <1>2, SendKeeps DEF HomeTyped
  <2> QED BY <2>4, <2>5, <2>6, <1>1, <1>ty, ArtistStays, AlbumStays, SubmitStays DEF HomeInv
<1>5. CASE q' = [q EXCEPT !.gen = @ + 1, !.stale = FALSE, !.more = NotPaging] /\ UNCHANGED air
  <2>1. q' \in SearchForms(conn) /\ q'.gen = q.gen + 1 /\ q'.status = "failed" /\ q'.more = NotPaging /\ ~q'.stale
    BY <1>1, <1>2, <1>3, <1>5 DEF SearchForms
  <2>2. /\ SearchAir' = SearchAir /\ ArtistAir' = ArtistAir /\ AlbumAir' = AlbumAir
        /\ SubmitAir' = SubmitAir
    BY <1>5, <1>1, AirStays
  <2>3. SearchInv'
    BY <2>1, <2>2, <1>ty, <1>1, <1>3, SearchAsks
  <2>4. HomeTyped'
    BY <1>5, <1>ty, <1>1, SendKeeps DEF HomeTyped
  <2> QED BY <2>2, <2>3, <2>4, <1>1, <1>ty, ArtistStays, AlbumStays, SubmitStays DEF HomeInv
<1> QED BY <1>4, <1>5 DEF RetrySearch

\* The words are settled: the search of the generation they were typed in begins.
LEMMA StartKeeps ==
    ASSUME HomeInv, NEW x \in air, x.conn = conn, x.kind = "typedTerm", StartsSearch(x), UNCHANGED <<screen, acts>>
    PROVE  HomeInv'
<1>ty. HomeTyped /\ SearchInv /\ ArtistInv /\ AlbumInv /\ SubmitInv
  BY DEF HomeInv
<1>1. UNCHANGED <<conn, online, omni, artist, album>>
  BY DEF StartsSearch
<1>2. q \in SearchForms(conn) /\ q.gen \in Nat /\ x \in SearchAir
  BY <1>ty DEF SearchInv, SearchForms, SearchAir
<1>3. NotPaging \in [Groups -> Pagings] /\ \A g \in Groups : NotPaging[g] = "idle"
  BY DEF NotPaging, Pagings
<1>4. CASE x.gen # q.gen
  <2>1. air' = air \ {x} /\ q' = q
    BY <1>4 DEF StartsSearch, Current
  <2>2. /\ SearchAir' = SearchAir \ {x} /\ ArtistAir' = ArtistAir \ {x} /\ AlbumAir' = AlbumAir \ {x}
        /\ SubmitAir' = SubmitAir \ {x}
    BY <2>1, <1>1, AirLoses
  <2>3. ArtistAir' = ArtistAir /\ AlbumAir' = AlbumAir /\ SubmitAir' = SubmitAir
    BY <2>2 DEF ArtistAir, AlbumAir, SubmitAir
  <2>4. SearchInv'
    BY <2>1, <2>2, <1>ty, <1>1, <1>4 DEF SearchInv
  <2>5. HomeTyped'
    BY <2>1, <1>ty, <1>1, SendKeeps DEF HomeTyped
  <2> QED BY <2>3, <2>4, <2>5, <1>1, <1>ty, ArtistStays, AlbumStays, SubmitStays DEF HomeInv
<1>5. CASE x.gen = q.gen
  <2>1. q.status = "loading" /\ x.of = q.term
    BY <1>2, <1>5, <1>ty DEF SearchInv
  <2>2. q' = Searching(q, x.of) /\ air' = (air \ {x}) \union {Sent("search", q.gen, x.of)}
    BY <1>5 DEF StartsSearch, Current
  <2>3. /\ q' \in SearchForms(conn) /\ q'.gen = q.gen /\ q'.status = "loading" /\ q'.more = NotPaging
        /\ q'.term = q.term
    BY <2>1, <2>2, <1>2, <1>3 DEF SearchForms, Statuses, Searching
  <2>4. PICK r : r = Sent("search", q.gen, x.of)
    OBVIOUS
  <2>5. r.kind = "search" /\ r.conn = conn /\ r.gen = q.gen /\ r.of = x.of
    BY <2>4, SentIs
  <2>6. /\ SearchAir' = (SearchAir \ {x}) \union {r} /\ ArtistAir' = ArtistAir /\ AlbumAir' = AlbumAir
        /\ SubmitAir' = SubmitAir
    BY <2>2, <2>4, <2>5, <1>1 DEF SearchAir, ArtistAir, AlbumAir, SubmitAir
  <2>7. SearchInv'
    <3>1. \A y \in SearchAir' : y.gen = q.gen => y = r
      BY <2>1, <2>6, <1>2, <1>5, <1>ty DEF SearchInv
    <3>2. \A y \in SearchAir' : y.gen \in 0..q'.gen
      BY <2>3, <2>5, <2>6, <1>2, <1>ty DEF SearchInv
    <3>3. r \in SearchAir'
      BY <2>6
    <3> QED BY <3>1, <3>2, <3>3, <2>1, <2>3, <2>5, <1>1, <1>3 DEF SearchInv
  <2>8. HomeTyped'
    BY <2>2, <2>4, <2>5, <1>ty, <1>1, <1>2 DEF HomeTyped, Kinds
  <2> QED BY <2>6, <2>7, <2>8, <1>1, <1>ty, ArtistStays, AlbumStays, SubmitStays DEF HomeInv
<1> QED BY <1>4, <1>5

\* What a posted answer leaves alone.
LEMMA OthersStay ==
    ASSUME HomeInv, NEW x \in air, air' = air \ {x}, UNCHANGED <<conn, online>>, omni'.text \in Texts /\ omni'.gen \in Nat
    PROVE  /\ HomeTyped'
           /\ x.kind \notin {"typedTerm", "search", "more"} /\ UNCHANGED q => SearchInv'
           /\ x.kind \notin {"artist", "artistMore"} /\ UNCHANGED artist => ArtistInv'
           /\ x.kind # "album" /\ UNCHANGED album => AlbumInv'
           /\ x.kind # "submit" /\ omni'.submitting = omni.submitting => SubmitInv'
<1>ty. HomeTyped /\ SearchInv /\ ArtistInv /\ AlbumInv /\ SubmitInv
  BY DEF HomeInv
<1>1. /\ SearchAir' = SearchAir \ {x} /\ ArtistAir' = ArtistAir \ {x} /\ AlbumAir' = AlbumAir \ {x}
      /\ SubmitAir' = SubmitAir \ {x}
  BY AirLoses
<1>2. HomeTyped'
  BY <1>ty, SendKeeps
<1>3. ASSUME x.kind \notin {"typedTerm", "search", "more"}, UNCHANGED q PROVE SearchInv'
  <2>1. SearchAir' = SearchAir
    BY <1>1, <1>3 DEF SearchAir
  <2> QED BY <2>1, <1>3, <1>ty, SearchStays
<1>4. ASSUME x.kind \notin {"artist", "artistMore"}, UNCHANGED artist PROVE ArtistInv'
  <2>1. ArtistAir' = ArtistAir
    BY <1>1, <1>4 DEF ArtistAir
  <2> QED BY <2>1, <1>4, <1>ty, ArtistStays
<1>5. ASSUME x.kind # "album", UNCHANGED album PROVE AlbumInv'
  <2>1. AlbumAir' = AlbumAir
    BY <1>1, <1>5 DEF AlbumAir
  <2> QED BY <2>1, <1>5, <1>ty, AlbumStays
<1>6. ASSUME x.kind # "submit", omni'.submitting = omni.submitting PROVE SubmitInv'
  <2>1. SubmitAir' = SubmitAir
    BY <1>1, <1>6 DEF SubmitAir
  <2> QED BY <2>1, <1>6, <1>ty, SubmitStays
<1> QED BY <1>2, <1>3, <1>4, <1>5, <1>6

LEMMA AnswerIn ==
    ASSUME NEW of, NEW pages
    PROVE  /\ of \in Terms /\ pages \in [Groups -> Ordered] => Answer(of, pages) \in SearchAnswers(conn)
           /\ of \in Artists /\ pages \in Ordered => Answer(of, pages) \in ArtistAnswers(conn)
           /\ of \in Albums /\ pages \in Ordered => Answer(of, pages) \in AlbumAnswers(conn)
           /\ Answer(of, pages).of = of /\ Answer(of, pages).from = conn /\ Answer(of, pages).pages = pages
BY DEF Answer, SearchAnswers, ArtistAnswers, AlbumAnswers

LEMMA SearchKeeps ==
    ASSUME HomeInv, NEW x \in air, x.conn = conn, x.kind = "search", ApplySearch(x)
    PROVE  HomeInv'
<1>ty. HomeTyped /\ SearchInv /\ ArtistInv /\ AlbumInv /\ SubmitInv
  BY DEF HomeInv
<1>1. UNCHANGED <<conn, online, omni, artist, album>> /\ air' = air \ {x}
  BY DEF ApplySearch
<1>2. q \in SearchForms(conn) /\ q.gen \in Nat /\ x \in SearchAir /\ q.cache \in Seq(SearchAnswers(conn))
  BY <1>ty DEF SearchInv, SearchForms, SearchAir
<1>3. HomeTyped' /\ ArtistInv' /\ AlbumInv' /\ SubmitInv'
  BY <1>1, <1>ty, OthersStay DEF HomeTyped
<1>4. SearchAir' = SearchAir \ {x}
  BY <1>1, AirLoses
<1>5. CASE x.gen # q.gen
  <2>1. q' = q
    BY <1>5 DEF ApplySearch, Current
  <2>2. SearchInv'
    BY <2>1, <1>1, <1>4, <1>5, <1>ty DEF SearchInv
  <2> QED BY <2>2, <1>3 DEF HomeInv
<1>6. CASE x.gen = q.gen
  <2>1. q.status = "loading" /\ x.of = q.term
    BY <1>2, <1>6, <1>ty DEF SearchInv
  <2>2. PICK got : got = Answer(x.of, FirstPages)
    OBVIOUS
  <2>3. got \in SearchAnswers(conn) /\ got.of = q.term /\ got.from = conn
    BY <2>1, <2>2, <1>2, AnswerIn, FirstInOrder DEF SearchForms
  <2>4. Touch(q.cache, got) \in Seq(SearchAnswers(conn)) /\ got # Nothing
    BY <2>3, <1>2, <1>ty, TouchIn DEF Nothing, HomeTyped
  <2>5. \/ q' = [q EXCEPT !.status = "ready", !.shown = got, !.stale = FALSE, !.cache = Touch(@, got)]
        \/ q' = [q EXCEPT !.status = "failed", !.shown = Nothing, !.stale = FALSE]
    BY <1>6, <2>2 DEF ApplySearch, Current
  <2>6. /\ q' \in SearchForms(conn) /\ q'.gen = q.gen /\ q'.status \in {"ready", "failed"} /\ ~q'.stale
        /\ q'.term = q.term /\ q'.more = q.more
        /\ q'.status = "ready" => q'.shown = got
    BY <2>3, <2>4, <2>5, <1>2 DEF SearchForms, Statuses
  <2>7. \A y \in SearchAir' : y.gen # q.gen
    BY <2>1, <1>2, <1>4, <1>6, <1>ty DEF SearchInv
  <2>8. \A g \in Groups : q.more[g] = "loading" => ~online
    BY <2>1, <1>ty DEF SearchInv
  <2>9. SearchInv'
    BY <2>3, <2>4, <2>6, <2>7, <2>8, <1>1, <1>4, <1>ty DEF SearchInv
  <2> QED BY <2>9, <1>3 DEF HomeInv
<1> QED BY <1>5, <1>6

LEMMA MoreKeeps == ASSUME HomeInv, NEW g \in Groups, MoreSearch(g) PROVE HomeInv'
<1>ty. HomeTyped /\ SearchInv /\ ArtistInv /\ AlbumInv /\ SubmitInv
  BY DEF HomeInv
<1>1. /\ UNCHANGED <<conn, online, omni, artist, album>> /\ q.status = "ready"
      /\ q' = [q EXCEPT !.more[g] = "loading"]
      /\ air' = air \union {SentMore("more", q.gen, q.term, g, Len(q.shown.pages[g]) + 1)}
  BY DEF MoreSearch
<1>2. q \in SearchForms(conn) /\ q.gen \in Nat /\ q.more \in [Groups -> Pagings]
  BY <1>ty DEF SearchInv, SearchForms
<1>3. PICK r : r = SentMore("more", q.gen, q.term, g, Len(q.shown.pages[g]) + 1)
  OBVIOUS
<1>4. /\ r.kind = "more" /\ r.conn = conn /\ r.gen = q.gen /\ r.of = q.term /\ r.group = g
      /\ r.page = Len(q.shown.pages[g]) + 1
  BY <1>3, SentIs
<1>5. /\ SearchAir' = SearchAir \union {r} /\ ArtistAir' = ArtistAir /\ AlbumAir' = AlbumAir
      /\ SubmitAir' = SubmitAir
  BY <1>1, <1>3, <1>4, AirGains
<1>6. HomeTyped'
  BY <1>1, <1>2, <1>3, <1>4, <1>ty, SendKeeps DEF HomeTyped
<1>7. /\ q' \in SearchForms(conn) /\ q'.gen = q.gen /\ q'.status = q.status /\ q'.shown = q.shown
      /\ q'.term = q.term /\ q'.stale = q.stale
      /\ \A h \in Groups : q'.more[h] = IF h = g THEN "loading" ELSE q.more[h]
  <2>1. [q.more EXCEPT ![g] = "loading"] \in [Groups -> Pagings]
    BY <1>2 DEF Pagings
  <2> QED BY <2>1, <1>1, <1>2 DEF SearchForms
<1>8. Len(q.shown.pages[g]) \in Nat
  <2>1. q.shown \in SearchAnswers(conn)
    BY <1>1, <1>2, <1>ty DEF SearchInv, SearchForms
  <2> QED BY <2>1 DEF SearchAnswers, Ordered
<1>9. SearchInv'
  <2>1. \A y \in SearchAir' : y.gen = q.gen => y.kind = "more"
    BY <1>1, <1>4, <1>5, <1>ty DEF SearchInv
  <2>2. \A h \in Groups : q'.more[h] = "loading" /\ online =>
           \E y \in SearchAir' : y.kind = "more" /\ y.gen = q.gen /\ y.group = h
    BY <1>4, <1>5, <1>7, <1>ty DEF SearchInv
  <2>3. r.page \in 1..Len(q.shown.pages[r.group]) + 1
    BY <1>4, <1>8
  <2>4. \A y \in SearchAir' : /\ y.gen \in 0..q.gen
                              /\ y.gen = q.gen => /\ y.of = q.term /\ y.group \in Groups
                                                  /\ y.page \in 1..Len(q.shown.pages[y.group]) + 1
    BY <2>1, <2>3, <1>2, <1>4, <1>5, <1>ty DEF SearchInv
  <2> QED BY <2>1, <2>2, <2>4, <1>1, <1>7, <1>ty DEF SearchInv
<1> QED BY <1>1, <1>5, <1>6, <1>9, <1>ty, ArtistStays, AlbumStays, SubmitStays DEF HomeInv

LEMMA ApplyMoreKeeps ==
    ASSUME HomeInv, NEW x \in air, x.conn = conn, x.kind = "more", ApplyMore(x)
    PROVE  HomeInv'
<1>ty. HomeTyped /\ SearchInv /\ ArtistInv /\ AlbumInv /\ SubmitInv
  BY DEF HomeInv
<1>1. UNCHANGED <<conn, online, omni, artist, album>> /\ air' = air \ {x}
  BY DEF ApplyMore
<1>2. /\ q \in SearchForms(conn) /\ q.gen \in Nat /\ x \in SearchAir /\ q.cache \in Seq(SearchAnswers(conn))
      /\ q.more \in [Groups -> Pagings]
  BY <1>ty DEF SearchInv, SearchForms, SearchAir
<1>3. HomeTyped' /\ ArtistInv' /\ AlbumInv' /\ SubmitInv'
  BY <1>1, <1>ty, OthersStay DEF HomeTyped
<1>4. SearchAir' = SearchAir \ {x}
  BY <1>1, AirLoses
<1>5. CASE x.gen # q.gen
  <2>1. q' = q
    BY <1>5 DEF ApplyMore, Current
  <2>2. SearchInv'
    BY <2>1, <1>1, <1>4, <1>5, <1>ty DEF SearchInv
  <2> QED BY <2>2, <1>3 DEF HomeInv
<1>6. CASE x.gen = q.gen
  <2>1. /\ q.status = "ready" /\ x.of = q.term /\ x.group \in Groups
        /\ x.page \in 1..Len(q.shown.pages[x.group]) + 1
    BY <1>2, <1>6, <1>ty DEF SearchInv
  <2>2. q.shown # Nothing /\ q.shown.of = q.term /\ q.shown \in SearchAnswers(conn) /\ ~q.stale
    BY <2>1, <1>2, <1>ty DEF SearchInv, SearchForms
  <2>3. PICK g \in Groups : g = x.group
    BY <2>1
  <2>4. PICK pages \in [Groups -> Ordered] : pages = q.shown.pages
    BY <2>2 DEF SearchAnswers
  <2>5. PICK p \in Ordered : p = AppendPage(pages[g], x.page) /\ Len(pages[g]) <= Len(p)
    BY <2>1, <2>3, <2>4, PageJoins
  <2>6. PICK merged : merged = [q.shown EXCEPT !.of = x.of, !.pages[g] = AppendPage(@, x.page)]
    OBVIOUS
  <2>7. /\ merged \in SearchAnswers(conn) /\ merged.of = q.term /\ merged.from = conn
        /\ \A h \in Groups : merged.pages[h] = IF h = g THEN p ELSE pages[h]
    <3>1. merged = [of |-> x.of, from |-> q.shown.from, pages |-> [pages EXCEPT ![g] = p]]
      BY <2>2, <2>4, <2>5, <2>6 DEF SearchAnswers
    <3>2. [pages EXCEPT ![g] = p] \in [Groups -> Ordered] /\ q.shown.from = conn /\ x.of \in Terms
      BY <2>1, <2>2, <1>2 DEF SearchAnswers, SearchForms
    <3> QED BY <3>1, <3>2, <2>1 DEF SearchAnswers
  <2>8. Touch(q.cache, merged) \in Seq(SearchAnswers(conn)) /\ merged # Nothing
    BY <2>7, <1>2, <1>ty, TouchIn DEF Nothing, HomeTyped
  <2>9. \/ q' = [q EXCEPT !.more[g] = "failed"]
        \/ q' = [q EXCEPT !.more[g] = "idle", !.shown = merged, !.cache = Touch(@, merged)]
    BY <1>6, <2>2, <2>3, <2>6 DEF ApplyMore, Current
  <2>10. /\ q' \in SearchForms(conn) /\ q'.gen = q.gen /\ q'.status = "ready" /\ ~q'.stale /\ q'.term = q.term
         /\ \A h \in Groups : h # g => q'.more[h] = q.more[h]
         /\ q'.more[g] # "loading"
         /\ q'.shown \in {q.shown, merged}
    <3>1. CASE q' = [q EXCEPT !.more[g] = "failed"]
      <4>1. PICK w \in [Groups -> Pagings] : w = [q.more EXCEPT ![g] = "failed"]
        BY <1>2 DEF Pagings
      <4>2. q' = [q EXCEPT !.more = w]
        BY <3>1, <4>1
      <4>3. w[g] = "failed" /\ \A h \in Groups : h # g => w[h] = q.more[h]
        BY <1>2, <4>1
      <4> QED BY <4>2, <4>3, <2>1, <2>2, <1>2 DEF SearchForms
    <3>2. CASE q' = [q EXCEPT !.more[g] = "idle", !.shown = merged, !.cache = Touch(@, merged)]
      <4>1. PICK w \in [Groups -> Pagings] : w = [q.more EXCEPT ![g] = "idle"]
        BY <1>2 DEF Pagings
      <4>2. q' = [q EXCEPT !.more = w, !.shown = merged, !.cache = Touch(q.cache, merged)]
        BY <3>2, <4>1, <1>2 DEF SearchForms
      <4>3. w[g] = "idle" /\ \A h \in Groups : h # g => w[h] = q.more[h]
        BY <1>2, <4>1
      <4> QED BY <4>2, <4>3, <2>1, <2>2, <2>7, <2>8, <1>2 DEF SearchForms
    <3> QED BY <3>1, <3>2, <2>9
  <2>11. \A h \in Groups : /\ Len(q.shown.pages[h]) \in Nat /\ Len(q'.shown.pages[h]) \in Nat
                           /\ Len(q.shown.pages[h]) <= Len(q'.shown.pages[h])
    <3>1. \A h \in Groups : Len(pages[h]) \in Nat /\ Len(p) \in Nat
      BY DEF Ordered
    <3> QED BY <3>1, <2>4, <2>5, <2>7, <2>10
  <2>12. \A y \in SearchAir' : /\ y.gen \in 0..q.gen
                               /\ y.gen = q.gen =>
                                    /\ y.of = q.term /\ y.kind = "more" /\ y.group \in Groups
                                    /\ y.page \in 1..Len(q'.shown.pages[y.group]) + 1
    <3> SUFFICES ASSUME NEW y \in SearchAir, y.gen = q.gen
                 PROVE  /\ y.of = q.term /\ y.kind = "more" /\ y.group \in Groups
                        /\ y.page \in 1..Len(q'.shown.pages[y.group]) + 1
      BY <1>4, <1>ty DEF SearchInv
    <3>1. /\ y.of = q.term /\ y.kind = "more" /\ y.group \in Groups
          /\ y.page \in 1..Len(q.shown.pages[y.group]) + 1
      BY <2>1, <1>ty DEF SearchInv
    <3>2. PICK m \in Nat, n \in Nat : m = Len(q.shown.pages[y.group]) /\ n = Len(q'.shown.pages[y.group]) /\ m <= n
      BY <3>1, <2>11
    <3>3. y.page \in 1..m + 1
      BY <3>1, <3>2
    <3>4. \A i : i \in 1..m + 1 => i \in 1..n + 1
      BY <3>2
    <3> QED BY <3>1, <3>2, <3>3, <3>4
  <2>13. \A h \in Groups : q'.more[h] = "loading" /\ online =>
            \E y \in SearchAir' : y.kind = "more" /\ y.gen = q.gen /\ y.group = h
    BY <2>3, <2>10, <1>4, <1>ty DEF SearchInv
  <2>14. SearchInv'
    BY <2>2, <2>7, <2>8, <2>10, <2>12, <2>13, <1>1 DEF SearchInv
  <2> QED BY <2>14, <1>3 DEF HomeInv
<1> QED BY <1>5, <1>6

LEMMA OpenKeeps ==
    ASSUME HomeInv, UNCHANGED <<conn, online, omni, q, album>>,
           \/ BackToHits \/ RetryArtist
           \/ \E id \in Artists : OpenArtist(id)
    PROVE  HomeInv'
<1>ty. HomeTyped /\ SearchInv /\ ArtistInv /\ AlbumInv /\ SubmitInv
  BY DEF HomeInv
<1>1. /\ artist \in ArtistForms(conn) /\ artist.gen \in Nat /\ artist.gen + 1 \in Nat
      /\ artist.cache \in Seq(ArtistAnswers(conn))
  BY <1>ty DEF ArtistInv, ArtistForms
<1>2. ASSUME UNCHANGED air, artist' \in ArtistForms(conn), artist'.gen = artist.gen + 1, artist'.more = "idle",
             artist'.status # "loading",
             artist'.status = "ready" => artist'.shown # Nothing /\ artist'.shown.of = artist'.id
      PROVE  HomeInv'
  <2>1. /\ SearchAir' = SearchAir /\ ArtistAir' = ArtistAir /\ AlbumAir' = AlbumAir
        /\ SubmitAir' = SubmitAir
    BY <1>2, AirStays
  <2>2. ArtistInv'
    BY <2>1, <1>2, <1>ty, ArtistAsks
  <2>3. HomeTyped'
    BY <1>2, <1>ty, SendKeeps DEF HomeTyped
  <2> QED BY <2>1, <2>2, <2>3, <1>ty, SearchStays, AlbumStays, SubmitStays DEF HomeInv
<1>3. ASSUME NEW id \in Artists, FirstPage(artist.gen + 1, id) PROVE HomeInv'
  <2>1. /\ artist' \in ArtistForms(conn) /\ artist'.gen = artist.gen + 1 /\ artist'.more = "idle"
        /\ artist'.id = id /\ artist'.status = IF online THEN "loading" ELSE "failed"
    BY <1>1, <1>3 DEF FirstPage, ArtistForms, Statuses, Pagings
  <2>2. CASE online
    <3>1. PICK r : r = Sent("artist", artist.gen + 1, id)
      OBVIOUS
    <3>2. r.kind = "artist" /\ r.conn = conn /\ r.gen = artist.gen + 1 /\ r.of = id /\ air' = air \union {r}
      BY <3>1, <2>2, <1>3, SentIs DEF FirstPage
    <3>3. /\ SearchAir' = SearchAir /\ ArtistAir' = ArtistAir \union {r} /\ AlbumAir' = AlbumAir
          /\ SubmitAir' = SubmitAir
      BY <3>2, AirGains
    <3>4. ArtistInv'
      BY <3>2, <3>3, <2>1, <2>2, <1>ty, ArtistAsks
    <3>5. HomeTyped'
      BY <3>2, <1>1, <1>ty, SendKeeps DEF HomeTyped
    <3> QED BY <3>3, <3>4, <3>5, <1>ty, SearchStays, AlbumStays, SubmitStays DEF HomeInv
  <2>3. CASE ~online
    <3>1. UNCHANGED air /\ artist'.status = "failed"
      BY <2>1, <2>3, <1>3 DEF FirstPage
    <3> QED BY <3>1, <2>1, <1>2
  <2> QED BY <2>2, <2>3
<1>4. CASE BackToHits
  <2>1. artist' = [NewArtist EXCEPT !.gen = artist.gen + 1, !.cache = artist.cache] /\ UNCHANGED air
    BY <1>4 DEF BackToHits, CloseArtist
  <2>2. artist' \in ArtistForms(conn) /\ artist'.gen = artist.gen + 1 /\ artist'.more = "idle" /\ artist'.status = "idle"
    BY <2>1, <1>1 DEF NewArtist, Statuses, Pagings, ArtistForms
  <2> QED BY <2>1, <2>2, <1>2
<1>5. CASE RetryArtist
  <2>1. artist.id \in Artists /\ FirstPage(artist.gen + 1, artist.id)
    BY <1>5, <1>1 DEF RetryArtist, ArtistForms
  <2> QED BY <2>1, <1>3
<1>6. ASSUME NEW id \in Artists, OpenArtist(id) PROVE HomeInv'
  <2>1. CASE Holds(artist.cache, id)
    <3>1. PICK kept : kept = Kept(artist.cache, id)
      OBVIOUS
    <3>2. kept \in ArtistAnswers(conn) /\ kept.of = id
      BY <3>1, <2>1, <1>1, KeptIn
    <3>3. Touch(artist.cache, kept) \in Seq(ArtistAnswers(conn)) /\ kept # Nothing
      <4>1. Touch(artist.cache, kept) \in Seq(ArtistAnswers(conn))
        BY <3>2, <1>1, TouchIn
      <4>2. kept.from = conn /\ conn # 0
        BY <3>2, <1>ty DEF ArtistAnswers, HomeTyped
      <4> QED BY <4>1, <4>2 DEF Nothing
    <3>4. /\ artist' = [artist EXCEPT !.gen = @ + 1, !.id = id, !.status = "ready", !.shown = kept, !.more = "idle",
                                      !.cache = Touch(artist.cache, kept)]
          /\ UNCHANGED air
      BY <3>1, <2>1, <1>1, <1>6 DEF OpenArtist, ArtistForms
    <3>5. /\ artist' \in ArtistForms(conn) /\ artist'.gen = artist.gen + 1 /\ artist'.more = "idle"
          /\ artist'.status = "ready" /\ artist'.shown = kept /\ artist'.id = id
      BY <3>2, <3>3, <3>4, <1>1 DEF ArtistForms, Statuses, Pagings
    <3> QED BY <3>2, <3>3, <3>4, <3>5, <1>2
  <2>2. CASE ~Holds(artist.cache, id)
    BY <2>2, <1>3, <1>6 DEF OpenArtist
  <2> QED BY <2>1, <2>2
<1> QED BY <1>4, <1>5, <1>6

LEMMA MoreArtistKeeps == ASSUME HomeInv, MoreArtist PROVE HomeInv'
<1>ty. HomeTyped /\ SearchInv /\ ArtistInv /\ AlbumInv /\ SubmitInv
  BY DEF HomeInv
<1>1. /\ UNCHANGED <<conn, online, omni, q, album>> /\ artist.status = "ready" /\ artist.more # "loading"
      /\ artist' = [artist EXCEPT !.more = "loading"]
      /\ air' = air \union
                {SentMore("artistMore", artist.gen, artist.id, Nil, Len(artist.shown.pages) + 1)}
  BY DEF MoreArtist
<1>2. /\ artist \in ArtistForms(conn) /\ artist.gen \in Nat
      /\ artist.shown \in ArtistAnswers(conn) /\ artist.shown.of = artist.id
  BY <1>1, <1>ty DEF ArtistInv, ArtistForms
<1>3. Len(artist.shown.pages) \in Nat /\ artist.id \in Artists
  BY <1>2 DEF ArtistAnswers, Ordered
<1>4. PICK r : r = SentMore("artistMore", artist.gen, artist.id, Nil, Len(artist.shown.pages) + 1)
  OBVIOUS
<1>5. /\ r.kind = "artistMore" /\ r.conn = conn /\ r.gen = artist.gen /\ r.of = artist.id
      /\ r.page = Len(artist.shown.pages) + 1
  BY <1>4, SentIs
<1>6. /\ SearchAir' = SearchAir /\ ArtistAir' = ArtistAir \union {r} /\ AlbumAir' = AlbumAir
      /\ SubmitAir' = SubmitAir
  BY <1>1, <1>4, <1>5, AirGains
<1>7. HomeTyped'
  BY <1>1, <1>2, <1>4, <1>5, <1>ty, SendKeeps DEF HomeTyped
<1>8. /\ artist' \in ArtistForms(conn) /\ artist'.gen = artist.gen /\ artist'.status = "ready"
      /\ artist'.shown = artist.shown /\ artist'.id = artist.id /\ artist'.more = "loading"
  BY <1>1, <1>2 DEF ArtistForms, Pagings
<1>9. ArtistInv'
  <2>1. \A y \in ArtistAir' : y.gen = artist.gen => y.kind = "artistMore"
    BY <1>1, <1>5, <1>6, <1>ty DEF ArtistInv, ArtistAir
  <2>2. r.page \in 1..Len(artist.shown.pages) + 1
    BY <1>3, <1>5
  <2>3. \A y \in ArtistAir' : /\ y.gen \in 0..artist.gen
                              /\ y.gen = artist.gen => /\ y.of = artist.id
                                                       /\ y.page \in 1..Len(artist.shown.pages) + 1
    BY <2>1, <2>2, <1>2, <1>5, <1>6, <1>ty DEF ArtistInv
  <2>4. r \in ArtistAir'
    BY <1>6
  <2> QED BY <2>1, <2>3, <2>4, <1>1, <1>2, <1>3, <1>5, <1>8, <1>ty DEF ArtistInv
<1> QED BY <1>1, <1>6, <1>7, <1>9, <1>ty, SearchStays, AlbumStays, SubmitStays DEF HomeInv

LEMMA ApplyArtistKeeps ==
    ASSUME HomeInv, NEW x \in air, x.conn = conn, x.kind \in {"artist", "artistMore"}, ApplyArtist(x)
    PROVE  HomeInv'
<1>ty. HomeTyped /\ SearchInv /\ ArtistInv /\ AlbumInv /\ SubmitInv
  BY DEF HomeInv
<1>1. UNCHANGED <<conn, online, omni, q, album>> /\ air' = air \ {x}
  BY DEF ApplyArtist
<1>2. /\ artist \in ArtistForms(conn) /\ artist.gen \in Nat /\ x \in ArtistAir
      /\ artist.cache \in Seq(ArtistAnswers(conn))
  BY <1>ty DEF ArtistInv, ArtistForms, ArtistAir
<1>3. HomeTyped' /\ SearchInv' /\ AlbumInv' /\ SubmitInv'
  BY <1>1, <1>ty, OthersStay DEF HomeTyped
<1>4. ArtistAir' = ArtistAir \ {x}
  BY <1>1, AirLoses
<1>5. CASE x.gen # artist.gen
  <2>1. artist' = artist
    BY <1>5 DEF ApplyArtist, Current
  <2>2. ArtistInv'
    BY <2>1, <1>1, <1>4, <1>5, <1>ty DEF ArtistInv
  <2> QED BY <2>2, <1>3 DEF HomeInv
<1>6. CASE x.gen = artist.gen /\ x.kind = "artist"
  <2>1. artist.status = "loading" /\ x.of = artist.id /\ x.of \in Artists
    BY <1>2, <1>6, <1>ty DEF ArtistInv
  <2>2. PICK got : got = Answer(x.of, <<1>>)
    OBVIOUS
  <2>3. got \in ArtistAnswers(conn) /\ got.of = artist.id /\ got.from = conn
    BY <2>1, <2>2, AnswerIn, FirstInOrder
  <2>4. Touch(artist.cache, got) \in Seq(ArtistAnswers(conn)) /\ got # Nothing
    BY <2>3, <1>2, <1>ty, TouchIn DEF Nothing, HomeTyped
  <2>5. \/ artist' = [artist EXCEPT !.status = "failed"]
        \/ artist' = [artist EXCEPT !.status = "ready", !.shown = got, !.cache = Touch(artist.cache, got)]
    BY <2>1, <2>2, <1>2, <1>6 DEF ApplyArtist, Current, ArtistForms
  <2>6. /\ artist' \in ArtistForms(conn) /\ artist'.gen = artist.gen /\ artist'.status \in {"ready", "failed"}
        /\ artist'.id = artist.id /\ artist'.more = artist.more
        /\ artist'.status = "ready" => artist'.shown = got
    BY <2>3, <2>4, <2>5, <1>2 DEF ArtistForms, Statuses
  <2>7. \A y \in ArtistAir' : y.gen # artist.gen
    BY <2>1, <1>2, <1>4, <1>6, <1>ty DEF ArtistInv, ArtistAir
  <2>8. artist.more = "loading" => ~online
    BY <2>1, <1>ty DEF ArtistInv
  <2>9. ArtistInv'
    BY <2>3, <2>4, <2>6, <2>7, <2>8, <1>1, <1>4, <1>ty DEF ArtistInv
  <2> QED BY <2>9, <1>3 DEF HomeInv
<1>7. CASE x.gen = artist.gen /\ x.kind = "artistMore"
  <2>1. /\ artist.status = "ready" /\ x.of = artist.id /\ x.of \in Artists
        /\ x.page \in 1..Len(artist.shown.pages) + 1
    BY <1>2, <1>7, <1>ty DEF ArtistInv
  <2>2. artist.shown # Nothing /\ artist.shown \in ArtistAnswers(conn)
    BY <2>1, <1>2, <1>ty DEF ArtistInv, ArtistForms
  <2>3. PICK pages \in Ordered : pages = artist.shown.pages
    BY <2>2 DEF ArtistAnswers
  <2>4. PICK p \in Ordered : p = AppendPage(pages, x.page) /\ Len(pages) <= Len(p)
    BY <2>1, <2>3, PageJoins
  <2>5. PICK got : got = Answer(x.of, p)
    OBVIOUS
  <2>6. got \in ArtistAnswers(conn) /\ got.of = artist.id /\ got.from = conn /\ got.pages = p
    BY <2>1, <2>5, AnswerIn
  <2>7. Touch(artist.cache, got) \in Seq(ArtistAnswers(conn)) /\ got # Nothing
    BY <2>6, <1>2, <1>ty, TouchIn DEF Nothing, HomeTyped
  <2>8. \/ artist' = [artist EXCEPT !.more = "failed"]
        \/ artist' = [artist EXCEPT !.status = "ready", !.shown = got, !.more = "idle",
                                    !.cache = Touch(artist.cache, got)]
    BY <2>1, <2>3, <2>4, <2>5, <1>2, <1>7 DEF ApplyArtist, Current, ArtistForms
  <2>9. /\ artist' \in ArtistForms(conn) /\ artist'.gen = artist.gen /\ artist'.status = "ready"
        /\ artist'.id = artist.id /\ artist'.more # "loading"
        /\ artist'.shown \in {artist.shown, got}
    BY <2>1, <2>6, <2>7, <2>8, <1>2 DEF ArtistForms, Statuses, Pagings
  <2>10. PICK m \in Nat, n \in Nat : m = Len(artist.shown.pages) /\ n = Len(artist'.shown.pages) /\ m <= n
    <3>1. Len(pages) \in Nat /\ Len(p) \in Nat
      BY DEF Ordered
    <3> QED BY <3>1, <2>3, <2>4, <2>6, <2>9
  <2>11. \A y \in ArtistAir' : /\ y.gen \in 0..artist.gen
                               /\ y.gen = artist.gen => /\ y.of = artist.id /\ y.kind = "artistMore"
                                                        /\ y.page \in 1..n + 1
    <3>1. \A y \in ArtistAir' : /\ y.gen \in 0..artist.gen
                                /\ y.gen = artist.gen => /\ y.of = artist.id /\ y.kind = "artistMore"
                                                         /\ y.page \in 1..m + 1
      BY <2>1, <2>10, <1>4, <1>ty DEF ArtistInv, ArtistAir
    <3>2. \A i : i \in 1..m + 1 => i \in 1..n + 1
      BY <2>10
    <3> QED BY <3>1, <3>2
  <2>12. artist'.shown # Nothing /\ artist'.shown.of = artist'.id
    BY <2>1, <2>2, <2>6, <2>7, <2>9, <1>ty DEF ArtistInv
  <2>13. ArtistInv'
    BY <2>1, <2>9, <2>10, <2>11, <2>12, <1>1 DEF ArtistInv
  <2> QED BY <2>13, <1>3 DEF HomeInv
<1> QED BY <1>5, <1>6, <1>7

LEMMA OpenAlbumKeeps ==
    ASSUME HomeInv, UNCHANGED <<conn, online, omni, q, artist>>,
           RetryAlbum \/ \E id \in Albums : OpenAlbum(id)
    PROVE  HomeInv'
<1>ty. HomeTyped /\ SearchInv /\ ArtistInv /\ AlbumInv /\ SubmitInv
  BY DEF HomeInv
<1>1. /\ album \in AlbumForms(conn) /\ album.gen \in Nat /\ album.gen + 1 \in Nat
      /\ album.cache \in Seq(AlbumAnswers(conn))
  BY <1>ty DEF AlbumInv, AlbumForms
<1>2. ASSUME UNCHANGED air, album' \in AlbumForms(conn), album'.gen = album.gen + 1, album'.status # "loading",
             album'.status = "ready" => album'.shown # Nothing /\ album'.shown.of = album'.id
      PROVE  HomeInv'
  <2>1. /\ SearchAir' = SearchAir /\ ArtistAir' = ArtistAir /\ AlbumAir' = AlbumAir
        /\ SubmitAir' = SubmitAir
    BY <1>2, AirStays
  <2>2. AlbumInv'
    BY <2>1, <1>2, <1>ty, AlbumAsks
  <2>3. HomeTyped'
    BY <1>2, <1>ty, SendKeeps DEF HomeTyped
  <2> QED BY <2>1, <2>2, <2>3, <1>ty, SearchStays, ArtistStays, SubmitStays DEF HomeInv
<1>3. ASSUME NEW id \in Albums, ReadAlbum(album.gen + 1, id) PROVE HomeInv'
  <2>1. /\ album' \in AlbumForms(conn) /\ album'.gen = album.gen + 1
        /\ album'.id = id /\ album'.status = IF online THEN "loading" ELSE "failed"
    BY <1>1, <1>3 DEF ReadAlbum, AlbumForms, Statuses
  <2>2. CASE online
    <3>1. PICK r : r = Sent("album", album.gen + 1, id)
      OBVIOUS
    <3>2. r.kind = "album" /\ r.conn = conn /\ r.gen = album.gen + 1 /\ r.of = id /\ air' = air \union {r}
      BY <3>1, <2>2, <1>3, SentIs DEF ReadAlbum
    <3>3. /\ SearchAir' = SearchAir /\ AlbumAir' = AlbumAir \union {r} /\ ArtistAir' = ArtistAir
          /\ SubmitAir' = SubmitAir
      BY <3>2, AirGains
    <3>4. AlbumInv'
      BY <3>2, <3>3, <2>1, <2>2, <1>ty, AlbumAsks
    <3>5. HomeTyped'
      BY <3>2, <1>1, <1>ty, SendKeeps DEF HomeTyped
    <3> QED BY <3>3, <3>4, <3>5, <1>ty, SearchStays, ArtistStays, SubmitStays DEF HomeInv
  <2>3. CASE ~online
    <3>1. UNCHANGED air /\ album'.status = "failed"
      BY <2>1, <2>3, <1>3 DEF ReadAlbum
    <3> QED BY <3>1, <2>1, <1>2
  <2> QED BY <2>2, <2>3
<1>4. CASE RetryAlbum
  <2>1. album.id \in Albums /\ ReadAlbum(album.gen + 1, album.id)
    BY <1>4, <1>1 DEF RetryAlbum, AlbumForms
  <2> QED BY <2>1, <1>3
<1>5. ASSUME NEW id \in Albums, OpenAlbum(id) PROVE HomeInv'
  <2>1. CASE Holds(album.cache, id)
    <3>1. PICK kept : kept = Kept(album.cache, id)
      OBVIOUS
    <3>2. kept \in AlbumAnswers(conn) /\ kept.of = id
      BY <3>1, <2>1, <1>1, KeptIn
    <3>3. Touch(album.cache, kept) \in Seq(AlbumAnswers(conn)) /\ kept # Nothing
      <4>1. Touch(album.cache, kept) \in Seq(AlbumAnswers(conn))
        BY <3>2, <1>1, TouchIn
      <4>2. kept.from = conn /\ conn # 0
        BY <3>2, <1>ty DEF AlbumAnswers, HomeTyped
      <4> QED BY <4>1, <4>2 DEF Nothing
    <3>4. /\ album' = [album EXCEPT !.gen = @ + 1, !.id = id, !.status = "ready", !.shown = kept,
                                    !.cache = Touch(album.cache, kept)]
          /\ UNCHANGED air
      BY <3>1, <2>1, <1>1, <1>5 DEF OpenAlbum, AlbumForms
    <3>5. /\ album' \in AlbumForms(conn) /\ album'.gen = album.gen + 1
          /\ album'.status = "ready" /\ album'.shown = kept /\ album'.id = id
      BY <3>2, <3>3, <3>4, <1>1 DEF AlbumForms, Statuses
    <3> QED BY <3>2, <3>3, <3>4, <3>5, <1>2
  <2>2. CASE ~Holds(album.cache, id)
    BY <2>2, <1>3, <1>5 DEF OpenAlbum
  <2> QED BY <2>1, <2>2
<1> QED BY <1>4, <1>5

LEMMA ApplyAlbumKeeps ==
    ASSUME HomeInv, NEW x \in air, x.conn = conn, x.kind = "album", ApplyAlbum(x)
    PROVE  HomeInv'
<1>ty. HomeTyped /\ SearchInv /\ ArtistInv /\ AlbumInv /\ SubmitInv
  BY DEF HomeInv
<1>1. UNCHANGED <<conn, online, omni, q, artist>> /\ air' = air \ {x}
  BY DEF ApplyAlbum
<1>2. /\ album \in AlbumForms(conn) /\ album.gen \in Nat /\ x \in AlbumAir
      /\ album.cache \in Seq(AlbumAnswers(conn))
  BY <1>ty DEF AlbumInv, AlbumForms, AlbumAir
<1>3. HomeTyped' /\ SearchInv' /\ ArtistInv' /\ SubmitInv'
  BY <1>1, <1>ty, OthersStay DEF HomeTyped
<1>4. AlbumAir' = AlbumAir \ {x}
  BY <1>1, AirLoses
<1>5. CASE x.gen # album.gen
  <2>1. album' = album
    BY <1>5 DEF ApplyAlbum, Current
  <2>2. AlbumInv'
    BY <2>1, <1>1, <1>4, <1>5, <1>ty DEF AlbumInv
  <2> QED BY <2>2, <1>3 DEF HomeInv
<1>6. CASE x.gen = album.gen
  <2>1. album.status = "loading" /\ x.of = album.id /\ x.of \in Albums
    BY <1>2, <1>6, <1>ty DEF AlbumInv
  <2>2. PICK got : got = Answer(x.of, <<1>>)
    OBVIOUS
  <2>3. got \in AlbumAnswers(conn) /\ got.of = album.id /\ got.from = conn
    BY <2>1, <2>2, AnswerIn, FirstInOrder
  <2>4. Touch(album.cache, got) \in Seq(AlbumAnswers(conn)) /\ got # Nothing
    BY <2>3, <1>2, <1>ty, TouchIn DEF Nothing, HomeTyped
  <2>5. \/ album' = [album EXCEPT !.status = "failed"]
        \/ album' = [album EXCEPT !.status = "ready", !.shown = got, !.cache = Touch(album.cache, got)]
    BY <2>1, <2>2, <1>2, <1>6 DEF ApplyAlbum, Current, AlbumForms
  <2>6. /\ album' \in AlbumForms(conn) /\ album'.gen = album.gen /\ album'.status \in {"ready", "failed"}
        /\ album'.id = album.id
        /\ album'.status = "ready" => album'.shown = got
    BY <2>3, <2>4, <2>5, <1>2 DEF AlbumForms, Statuses
  <2>7. \A y \in AlbumAir' : y.gen # album.gen
    BY <2>1, <1>2, <1>4, <1>6, <1>ty DEF AlbumInv
  <2>8. AlbumInv'
    BY <2>3, <2>4, <2>6, <2>7, <1>1, <1>4, <1>ty DEF AlbumInv
  <2> QED BY <2>8, <1>3 DEF HomeInv
<1> QED BY <1>5, <1>6

\* The field's text, its links and their submit.
LEMMA TextKeeps ==
    ASSUME HomeInv, UNCHANGED <<conn, online, q, artist, album>>,
           SubmitLinks \/ \E t \in Texts : SetOmniText(t)
    PROVE  HomeInv'
<1>ty. HomeTyped /\ SearchInv /\ ArtistInv /\ AlbumInv /\ SubmitInv
  BY DEF HomeInv
<1>1. ASSUME NEW r, r.conn = conn, r.gen \in Nat, air' = air \union {r}, r.kind \in {"submit", "typedLinks"},
             omni'.text \in Texts /\ omni'.gen \in Nat, r.kind = "submit" \/ omni'.submitting = omni.submitting
      PROVE  HomeInv'
  <2>1. /\ SearchAir' = SearchAir /\ ArtistAir' = ArtistAir /\ AlbumAir' = AlbumAir
        /\ SubmitAir' = IF r.kind = "submit" THEN SubmitAir \union {r} ELSE SubmitAir
    BY <1>1, AirGains
  <2>2. HomeTyped'
    BY <1>1, <1>ty, SendKeeps
  <2>3. SubmitInv'
    BY <2>1, <1>1, <1>ty DEF SubmitInv
  <2> QED BY <2>1, <2>2, <2>3, <1>ty, SearchStays, ArtistStays, AlbumStays DEF HomeInv
<1>2. CASE SubmitLinks
  <2>1. PICK r : r = SentLinks("submit", 0, Startable)
    OBVIOUS
  <2>2. r.kind = "submit" /\ r.conn = conn /\ r.gen = 0 /\ air' = air \union {r}
    BY <2>1, <1>2, SentIs DEF SubmitLinks
  <2>3. omni'.text \in Texts /\ omni'.gen \in Nat
    BY <1>2, <1>ty DEF SubmitLinks, HomeTyped
  <2> QED BY <2>2, <2>3, <1>1
<1>3. ASSUME NEW t \in Texts, SetOmniText(t) PROVE HomeInv'
  <2>1. CASE /\ omni' = [omni EXCEPT !.text = t, !.links = LinksIn[t]]
             /\ UNCHANGED air
    <3>1. omni'.text \in Texts /\ omni'.gen \in Nat /\ omni'.submitting = omni.submitting
      BY <2>1, <1>ty DEF HomeTyped
    <3>2. /\ SearchAir' = SearchAir /\ ArtistAir' = ArtistAir /\ AlbumAir' = AlbumAir
          /\ SubmitAir' = SubmitAir
      BY <2>1, AirStays
    <3>3. HomeTyped'
      BY <3>1, <2>1, <1>ty, SendKeeps
    <3> QED BY <3>1, <3>2, <3>3, <1>ty, SearchStays, ArtistStays, AlbumStays, SubmitStays DEF HomeInv
  <2>2. CASE /\ omni' = [omni EXCEPT !.text = t, !.links = LinksIn[t], !.gen = @ + 1]
             /\ air' = air \union {SentLinks("typedLinks", omni'.gen, Fresh(t))}
    <3>1. omni'.text \in Texts /\ omni'.gen \in Nat /\ omni'.submitting = omni.submitting
      BY <2>2, <1>ty DEF HomeTyped
    <3>2. PICK r : r = SentLinks("typedLinks", omni'.gen, Fresh(t))
      OBVIOUS
    <3>3. r.kind = "typedLinks" /\ r.conn = conn /\ r.gen = omni'.gen
      BY <3>2, SentIs
    <3> QED BY <3>1, <3>2, <3>3, <2>2, <1>1
  <2> QED BY <2>1, <2>2, <1>3 DEF SetOmniText
<1> QED BY <1>2, <1>3

LEMMA LinksKeep ==
    ASSUME HomeInv, NEW x \in air, x.conn = conn, UNCHANGED <<conn, online, q, artist, album>>,
           \/ x.kind = "typedLinks" /\ LooksUp(x)
           \/ x.kind = "lookup" /\ ApplyLookup(x)
           \/ x.kind = "submit" /\ ApplySubmit(x)
    PROVE  HomeInv'
<1>ty. HomeTyped /\ SearchInv /\ ArtistInv /\ AlbumInv /\ SubmitInv
  BY DEF HomeInv
<1>1. CASE x.kind = "typedLinks" /\ LooksUp(x)
  <2>0. PICK more :
          /\ air' = (air \ {x}) \union more
          /\ more = IF Current(x, omni.gen)
                    THEN {Sent("lookup", 0, l) : l \in {k \in x.links : cards[k] = "pending"}}
                    ELSE {}
    BY <1>1 DEF LooksUp
  <2>1. air' = (air \ {x}) \union more /\ \A r \in more : r.kind = "lookup" /\ r.conn = conn /\ r.gen = 0
    BY <2>0 DEF Sent
  <2>2. UNCHANGED omni
    BY <1>1 DEF LooksUp
  <2>3. /\ SearchAir' = SearchAir /\ ArtistAir' = ArtistAir /\ AlbumAir' = AlbumAir
        /\ SubmitAir' = SubmitAir
    BY <2>1, <1>1 DEF SearchAir, ArtistAir, AlbumAir, SubmitAir
  <2>4. HomeTyped'
    BY <2>1, <2>2, <1>ty DEF HomeTyped, Kinds
  <2> QED BY <2>2, <2>3, <2>4, <1>ty, SearchStays, ArtistStays, AlbumStays, SubmitStays DEF HomeInv
<1>2. CASE x.kind = "lookup" /\ ApplyLookup(x)
  <2>1. air' = air \ {x} /\ UNCHANGED omni
    BY <1>2 DEF ApplyLookup
  <2> QED BY <2>1, <1>2, <1>ty, OthersStay DEF HomeInv, HomeTyped
<1>3. CASE x.kind = "submit" /\ ApplySubmit(x)
  <2>1. air' = air \ {x} /\ omni'.text \in Texts /\ omni'.gen \in Nat /\ ~omni'.submitting
    BY <1>3, <1>ty, HomeAssumption DEF ApplySubmit, HomeTyped
  <2>2. SubmitInv'
    BY <2>1 DEF SubmitInv
  <2> QED BY <2>1, <2>2, <1>3, OthersStay DEF HomeInv
<1> QED BY <1>1, <1>2, <1>3

\* Whatever was under way posts: for this connection, or to be dropped.
LEMMA PostedKeeps == ASSUME HomeInv, NEW x \in air, Posted(x) PROVE HomeInv'
<1>ty. HomeTyped /\ SearchInv /\ ArtistInv /\ AlbumInv /\ SubmitInv
  BY DEF HomeInv
<1>1. CASE ~(x.conn = conn /\ online)
  <2>1. air' = air \ {x} /\ UNCHANGED <<conn, online, omni, q, artist, album>>
    BY <1>1 DEF Posted, Dropped
  <2>2. /\ SearchAir' = SearchAir \ {x} /\ ArtistAir' = ArtistAir \ {x} /\ AlbumAir' = AlbumAir \ {x}
        /\ SubmitAir' = SubmitAir \ {x}
    BY <2>1, AirLoses
  <2>3. \/ ~online
        \/ /\ SearchAir' = SearchAir /\ ArtistAir' = ArtistAir /\ AlbumAir' = AlbumAir
           /\ SubmitAir' = SubmitAir
    BY <2>2, <1>1 DEF SearchAir, ArtistAir, AlbumAir, SubmitAir
  <2>4. HomeTyped'
    BY <2>1, <1>ty, SendKeeps DEF HomeTyped
  <2>5. SearchInv' /\ ArtistInv'
    BY <2>1, <2>2, <2>3, <1>ty, SearchStays, ArtistStays
  <2>6. AlbumInv' /\ SubmitInv'
    BY <2>1, <2>2, <2>3, <1>ty, AlbumStays, SubmitStays
  <2> QED BY <2>4, <2>5, <2>6 DEF HomeInv
<1>2. CASE x.conn = conn /\ online
  <2>1. Takes(x) /\ UNCHANGED <<screen, acts>>
    BY <1>2 DEF Posted
  <2>2. \/ x.kind = "typedLinks" /\ LooksUp(x)
        \/ x.kind = "lookup" /\ ApplyLookup(x)
        \/ x.kind = "submit" /\ ApplySubmit(x)
        \/ x.kind = "typedTerm" /\ StartsSearch(x)
        \/ x.kind = "search" /\ ApplySearch(x)
        \/ x.kind = "more" /\ ApplyMore(x)
        \/ x.kind \in {"artist", "artistMore"} /\ ApplyArtist(x)
        \/ x.kind = "album" /\ ApplyAlbum(x)
    <3>1. x.kind \in {"typedLinks", "typedTerm", "lookup", "submit", "search", "more", "artist",
                      "artistMore", "album"}
      BY <1>ty DEF HomeTyped, Kinds
    <3> QED BY <3>1, <2>1 DEF Takes
  <2>3. ASSUME \/ x.kind = "typedLinks" /\ LooksUp(x)
               \/ x.kind = "lookup" /\ ApplyLookup(x)
               \/ x.kind = "submit" /\ ApplySubmit(x)
        PROVE  HomeInv'
    <3>1. UNCHANGED <<conn, online, q, artist, album>>
      BY <2>3 DEF LooksUp, ApplyLookup, ApplySubmit
    <3> QED BY <3>1, <2>3, <1>2, LinksKeep
  <2> QED BY <2>1, <2>2, <2>3, <1>2, StartKeeps, SearchKeeps, ApplyMoreKeeps, ApplyArtistKeeps, ApplyAlbumKeeps
<1> QED BY <1>1, <1>2

LEMMA HomeInvStep == HomeInv /\ [HomeNext]_homeVars => HomeInv'
<1> SUFFICES ASSUME HomeInv, [HomeNext]_homeVars PROVE HomeInv'
  OBVIOUS
<1>ty. HomeTyped /\ SearchInv /\ ArtistInv /\ AlbumInv /\ SubmitInv
  BY DEF HomeInv
<1>1. ASSUME UNCHANGED <<conn, online, omni, q, artist, album, air>> PROVE HomeInv'
  <2>1. /\ SearchAir' = SearchAir /\ ArtistAir' = ArtistAir /\ AlbumAir' = AlbumAir
        /\ SubmitAir' = SubmitAir
    BY <1>1, AirStays
  <2>2. HomeTyped'
    BY <1>1, <1>ty, SendKeeps DEF HomeTyped
  <2> QED BY <2>1, <2>2, <1>1, <1>ty, SearchStays, ArtistStays, AlbumStays, SubmitStays DEF HomeInv
<1>2. CASE UNCHANGED homeVars
  BY <1>1, <1>2 DEF homeVars
<1>3. ASSUME NEW l \in Links, DownloadEnds(l) PROVE HomeInv'
  BY <1>1, <1>3 DEF DownloadEnds
<1>4. CASE User
  <2>1. CASE SubmitLinks \/ \E t \in Texts : SetOmniText(t)
    <3>1. UNCHANGED <<conn, online, q, artist, album>>
      BY <2>1 DEF SubmitLinks, SetOmniText
    <3> QED BY <3>1, <2>1, TextKeeps
  <2>2. CASE BackToHits \/ RetryArtist \/ \E id \in Artists : OpenArtist(id)
    <3>1. UNCHANGED <<conn, online, omni, q, album>>
      BY <2>2 DEF BackToHits, RetryArtist, OpenArtist
    <3> QED BY <3>1, <2>2, OpenKeeps
  <2>3. CASE RetryAlbum \/ \E id \in Albums : OpenAlbum(id)
    <3>1. UNCHANGED <<conn, online, omni, q, artist>>
      BY <2>3 DEF RetryAlbum, OpenAlbum
    <3> QED BY <3>1, <2>3, OpenAlbumKeeps
  <2> QED BY <2>1, <2>2, <2>3, <1>4, ConnectKeeps, RetryKeeps, MoreArtistKeeps, MoreKeeps DEF User
<1> QED BY <1>2, <1>3, <1>4, WantKeeps, PostedKeeps DEF HomeNext

LEMMA HomeInvHolds == HomeInv => HomeHolds
<1> SUFFICES ASSUME HomeInv PROVE HomeHolds
  OBVIOUS
<1>ty. HomeTyped /\ SearchInv /\ ArtistInv /\ AlbumInv /\ SubmitInv
  BY DEF HomeInv
<1>1. /\ q \in SearchForms(conn) /\ artist \in ArtistForms(conn) /\ album \in AlbumForms(conn)
  BY <1>ty DEF SearchInv, ArtistInv, AlbumInv
<1>2. ASSUME HomeQuiet
      PROVE  /\ \A x \in {q, artist, album} : x.status # "loading"
             /\ \A g \in Groups : q.more[g] # "loading"
             /\ artist.more # "loading" /\ ~q.stale /\ ~omni.submitting
  <2>1. online /\ SearchAir = {} /\ ArtistAir = {} /\ AlbumAir = {} /\ SubmitAir = {}
    BY <1>2 DEF HomeQuiet, SearchAir, ArtistAir, AlbumAir, SubmitAir
  <2>2. q.status # "loading" /\ ~q.stale /\ \A g \in Groups : q.more[g] # "loading"
    BY <2>1, <1>ty DEF SearchInv
  <2>3. artist.status # "loading" /\ artist.more # "loading"
    BY <2>1, <1>ty DEF ArtistInv
  <2>4. album.status # "loading" /\ ~omni.submitting
    BY <2>1, <1>ty DEF AlbumInv, SubmitInv
  <2> QED BY <2>2, <2>3, <2>4
<1>3. /\ q.status = "ready" => Belongs(q.shown, q.term)
      /\ q.shown # Nothing => \A g \in Groups : InOrder(q.shown.pages[g])
      /\ \A v \in Range(q.cache) : v.from = conn /\ \A g \in Groups : InOrder(v.pages[g])
  <2>1. q.cache \in Seq(SearchAnswers(conn)) /\ q.shown \in SearchAnswers(conn) \union {Nothing}
    BY <1>1 DEF SearchForms
  <2>2. \A v \in Range(q.cache) : v \in SearchAnswers(conn)
    BY <2>1 DEF Range
  <2>3. \A v \in SearchAnswers(conn) : v.from = conn /\ \A g \in Groups : InOrder(v.pages[g])
    BY DEF SearchAnswers, Ordered
  <2> QED BY <2>1, <2>2, <2>3, <1>ty DEF SearchInv, Belongs
<1>4. /\ artist.status = "ready" => Belongs(artist.shown, artist.id) /\ InOrder(artist.shown.pages)
      /\ \A v \in Range(artist.cache) : v.from = conn /\ InOrder(v.pages)
  <2>1. artist.cache \in Seq(ArtistAnswers(conn)) /\ artist.shown \in ArtistAnswers(conn) \union {Nothing}
    BY <1>1 DEF ArtistForms
  <2>2. \A v \in Range(artist.cache) : v \in ArtistAnswers(conn)
    BY <2>1 DEF Range
  <2>3. \A v \in ArtistAnswers(conn) : v.from = conn /\ InOrder(v.pages)
    BY DEF ArtistAnswers, Ordered
  <2> QED BY <2>1, <2>2, <2>3, <1>ty DEF ArtistInv, Belongs
<1>5. album.status = "ready" => Belongs(album.shown, album.id)
  <2>1. album.shown \in AlbumAnswers(conn) \union {Nothing}
    BY <1>1 DEF AlbumForms
  <2> QED BY <2>1, <1>ty DEF AlbumInv, Belongs, AlbumAnswers
<1> QED BY <1>2, <1>3, <1>4, <1>5 DEF HomeHolds, HomeSettles, AnswersBelong

\* Whatever is typed, searched, opened and retried, and in whichever order the
\* answers come: what a screen shows is an answer to what it asks, of the backend
\* it is connected to, and nothing loads for ever (omni.go, search.go, album.go).
THEOREM HomeStands == HomeSpec => []HomeHolds
<1>1. HomeInv /\ [HomeNext]_homeVars => HomeInv'
  BY HomeInvStep
<1> QED BY <1>1, HomeInvInit, HomeInvHolds, PTL DEF HomeSpec

-----------------------------------------------------------------------------
(* A download in the store *)

JobRecords == [row : Nat, snapshot : Nat, items : BOOLEAN, activity : Seq(Nat)]
FeedRecords == [phase : {"list", "listed", "live", "upserted", "deleted"},
                cursor : 0..GoneMark, row : 0..MaxEvents, id : 0..GoneMark]
FollowerRecords == [phase : {NoValue, "detail", "detailed", "stream", "gone", "ended"},
                    history : BOOLEAN, first : BOOLEAN, at : Nat, row : Nat]
TracksRecords == [phase : {NoValue, "sent", "read", "done"}, row : 0..MaxEvents]

StoreTyped ==
    /\ story \in Stories /\ events \in Seq(Lifecycle) /\ Now <= story.events /\ Now <= MaxEvents
    /\ deleted \in BOOLEAN /\ submit \in {NoValue, "sent", "done"} /\ detail \in BOOLEAN
    /\ feed \in FeedRecords /\ tracks \in TracksRecords
    /\ job \in JobRecords /\ follower \in FollowerRecords
    /\ seen \in Over \union {NoValue} /\ told \in [Runs -> Nat]
    /\ newest \in 0..GoneMark /\ late \in BOOLEAN

\* What a run is made of: the first event queues the job, and only a retry
\* comes after its end.
Recorded ==
    /\ Now > 0 => events[1] = "queued"
    /\ \A i \in 1..Now : i + 1 <= Now /\ events[i] \in Over => events[i + 1] = "retried"

\* Nothing was read that is not recorded, and nothing is gone that was not
\* deleted.
ReadBack ==
    /\ feed.row <= Now /\ tracks.row <= Now /\ follower.row <= Now /\ job.row <= Now
    /\ follower.phase # NoValue \/ submit = "sent" \/ deleted => Now > 0
    /\ tracks.phase # NoValue => Now > 0
    /\ tracks.phase = "read" => tracks.row > 0
    /\ follower.phase = "detailed" => follower.row > 0
    /\ follower.phase = "gone" => deleted
    /\ feed.phase = "listed" => feed.cursor = feed.row \/ (feed.cursor = GoneMark /\ feed.row = 0 /\ deleted)
    /\ feed.phase = "upserted" => feed.id = feed.row /\ feed.row > 0
    /\ feed.phase = "deleted" => feed.id = GoneMark /\ deleted

\* The newest row posted is shown, unless one arrived late; past its first list
\* the feed's cursor is never ahead of it.
NewestShown ==
    /\ newest <= Now \/ (newest = GoneMark /\ deleted)
    /\ ~late => job.row = IF newest = GoneMark THEN 0 ELSE newest
    /\ feed.phase \notin {"list", "listed"} => feed.cursor <= newest

\* A job shown running is followed, or the feed has yet to say so.
RunningFollowed ==
    ~late /\ Known /\ StatusAfter(job.row) = "running"
        => follower # NoFollower \/ feed.cursor < job.row \/ feed.phase \in {"list", "listed"}

\* Of the run shown last: its end is told if its work was seen and remembered
\* as told, and not before; of the runs after it nothing is.
EndsKept ==
    ~late /\ newest # GoneMark =>
        /\ saw \subseteq 1..Run(newest)
        /\ \A r \in Runs : r > Run(newest) => told[r] = 0
        /\ newest > 0 /\ Terminal(StatusAfter(newest)) =>
              /\ seen = StatusAfter(newest)
              /\ seen # "cancelled" /\ Run(newest) \in saw => told[Run(newest)] = 1
        /\ newest > 0 /\ ~Terminal(StatusAfter(newest)) =>
              /\ told[Run(newest)] = 0
              /\ seen = NoValue \/ Run(newest) \notin saw

StoreInv == StoreTyped /\ Recorded /\ ReadBack /\ NewestShown /\ RunningFollowed /\ EndsKept

-----------------------------------------------------------------------------
\* The runs of a job.
Begins(n) == {i \in 1..n : events[i] \in {"queued", "retried"}}

LEMMA RunIs == \A n : Run(n) = Cardinality(Begins(n))
BY DEF Run, Begins

LEMMA RunsGrow ==
    ASSUME NEW n \in Nat, NEW m \in Nat, n <= m
    PROVE  /\ Run(n) \in 0..n /\ Run(n) <= Run(m)
           /\ \A i \in n + 1..m : events[i] \in {"queued", "retried"} => Run(n) < Run(m)
<1>1. ASSUME NEW k \in Nat PROVE IsFiniteSet(Begins(k)) /\ Cardinality(Begins(k)) \in Nat /\ Cardinality(Begins(k)) <= k
  <2>1. IsFiniteSet(1..k) /\ Cardinality(1..k) = k
    BY FS_Interval
  <2>2. Begins(k) \subseteq 1..k
    BY DEF Begins
  <2> QED BY <2>1, <2>2, FS_Subset, FS_CardinalityType
<1>2. Begins(n) \subseteq Begins(m)
  BY DEF Begins
<1>3. Cardinality(Begins(n)) <= Cardinality(Begins(m))
  BY <1>1, <1>2, FS_Subset
<1>4. ASSUME NEW i \in n + 1..m, events[i] \in {"queued", "retried"} PROVE Run(n) < Run(m)
  <2>1. i \in Begins(m) /\ i \notin Begins(n)
    BY <1>4 DEF Begins
  <2>2. Cardinality(Begins(n)) # Cardinality(Begins(m))
    BY <2>1, <1>1, <1>2, FS_Subset
  <2> QED BY <2>2, <1>1, <1>3, RunIs
<1> QED BY <1>1, <1>3, <1>4, RunIs

LEMMA RunZero == Run(0) = 0
BY RunsGrow

LEMMA FirstRun == ASSUME Recorded, NEW n \in 1..Now, events \in Seq(Lifecycle) PROVE Run(n) >= 1 /\ Run(n) \in 1..Now
<1>1. events[1] = "queued" /\ n \in Nat /\ Now \in Nat /\ n <= Now
  BY DEF Recorded, Now
<1>2. Run(0) < Run(n)
  BY <1>1, RunsGrow
<1> QED BY <1>1, <1>2, RunsGrow

LEMMA SameRun ==
    ASSUME Recorded, events \in Seq(Lifecycle), NEW n \in 1..Now, NEW m \in 1..Now, n < m, Run(n) = Run(m)
    PROVE  ~Terminal(StatusAfter(n))
<1> SUFFICES ASSUME Terminal(StatusAfter(n)) PROVE FALSE
  OBVIOUS
<1>1. events[n] \in Over
  BY DEF StatusAfter, Terminal, Over, Lifecycle, Now
<1>2. events[n + 1] = "retried" /\ n + 1 \in n + 1..m
  BY <1>1 DEF Recorded, Now
<1>3. n \in Nat /\ m \in Nat
  BY DEF Now
<1>4. Run(n) < Run(m)
  BY <1>2, <1>3, RunsGrow
<1> QED BY <1>3, <1>4, RunsGrow

LEMMA StatusIs == ASSUME events \in Seq(Lifecycle), NEW n \in 1..Now
                  PROVE  StatusAfter(n) \in {"queued", "running"} \union Over
BY DEF StatusAfter, Lifecycle, Over, Now

LEMMA Remembered ==
    ASSUME NEW type \in Lifecycle, events \in Seq(Lifecycle), events' = Append(events, type), NEW n \in Nat, n <= Now
    PROVE  Run(n)' = Run(n) /\ (n > 0 => StatusAfter(n)' = StatusAfter(n))
<1>1. \A i \in 1..n : events'[i] = events[i]
  BY DEF Now
<1>2. {i \in 1..n : events'[i] \in {"queued", "retried"}} = {i \in 1..n : events[i] \in {"queued", "retried"}}
  BY <1>1
<1>3. n > 0 => n \in 1..n
  OBVIOUS
<1>4. n > 0 => events'[n] = events[n]
  BY ONLY <1>1, <1>3
<1> QED BY <1>2, <1>4 DEF Run, StatusAfter

-----------------------------------------------------------------------------
\* What a row that is posted does to what was told.
News == <<events, seen, told, saw, newest, late>>

LEMMA GoneIsLater == ASSUME DesktopAssumption, StoreTyped, NEW n \in 0..Now PROVE n < GoneMark /\ n \in 0..MaxEvents /\ Now \in Nat
BY DEF DesktopAssumption, StoreTyped, GoneMark, Now

LEMMA WorkSeen == ASSUME NEW n, NEW r \in AtWork(n)
                  PROVE  n \in 1..MaxEvents /\ r = Run(n) /\ ~Terminal(StatusAfter(n))
BY DEF AtWork

LEMMA NewsKeeps ==
    ASSUME DesktopAssumption, StoreTyped, Recorded, NewestShown, EndsKept, NEW n \in 1..Now, UNCHANGED events,
           NoteStatus(n), Posts(n)
    PROVE  /\ EndsKept'
           /\ seen' \in Over \union {NoValue} /\ told' \in [Runs -> Nat] /\ newest' \in 0..GoneMark /\ late' \in BOOLEAN
<1>ty. /\ events \in Seq(Lifecycle) /\ told \in [Runs -> Nat] /\ MaxEvents \in Nat /\ newest \in 0..GoneMark
       /\ seen \in Over \union {NoValue} /\ late \in BOOLEAN /\ Now <= MaxEvents /\ Now \in Nat /\ GoneMark = MaxEvents + 1
  BY DEF StoreTyped, DesktopAssumption, Now, GoneMark
<1>1. /\ saw' = saw \union AtWork(n) /\ newest' = (IF n > newest THEN n ELSE newest)
      /\ late' = (late \/ n < newest)
  BY DEF Posts, Arrives
<1>2. Run(n) \in Runs /\ Run(n) \in Nat
  BY <1>ty, FirstRun DEF Runs
<1>3. StatusAfter(n) \in {"queued", "running"} \union Over
  BY <1>ty, StatusIs
<1>4. /\ ~Terminal(StatusAfter(n)) => seen' = NoValue /\ told' = told
      /\ Terminal(StatusAfter(n)) /\ seen = StatusAfter(n) => seen' = seen /\ told' = told
      /\ Terminal(StatusAfter(n)) /\ seen # StatusAfter(n) =>
             /\ seen' = StatusAfter(n)
             /\ told' = IF StatusAfter(n) = "cancelled" THEN told ELSE [told EXCEPT ![Run(n)] = @ + 1]
  BY DEF NoteStatus
<1>5. told' \in [Runs -> Nat] /\ seen' \in Over \union {NoValue}
  BY <1>2, <1>3, <1>4, <1>ty DEF Terminal
<1>6. newest' \in 0..GoneMark /\ late' \in BOOLEAN
  BY <1>1, <1>ty
<1>7. ASSUME ~late', newest' # GoneMark PROVE EndsKept'
  <2>0. ~late /\ ~(n < newest)
    BY <1>1, <1>7
  <2>1. ~late /\ newest <= n /\ newest # GoneMark /\ newest \in Nat /\ newest' = n /\ newest <= Now
    BY <1>1, <2>0, <1>ty
  <2>2. PICK k \in Nat : k = newest /\ k <= n
    BY <2>1
  <2>3. /\ saw \subseteq 1..Run(k)
        /\ \A r \in Runs : r > Run(k) => told[r] = 0
        /\ k > 0 /\ Terminal(StatusAfter(k)) =>
              /\ seen = StatusAfter(k)
              /\ seen # "cancelled" /\ Run(k) \in saw => told[Run(k)] = 1
        /\ k > 0 /\ ~Terminal(StatusAfter(k)) =>
              /\ told[Run(k)] = 0
              /\ seen = NoValue \/ Run(k) \notin saw
    BY <2>1, <2>2 DEF EndsKept
  <2>4. Run(k) \in Nat /\ Run(k) <= Run(n) /\ Run(0) = 0
    BY <2>2, RunsGrow, RunZero
  <2>5. saw' \subseteq 1..Run(n)
    <3>1. \A r \in AtWork(n) : r = Run(n)
      BY WorkSeen
    <3>2. Run(n) \in 1..Run(n) /\ 1..Run(k) \subseteq 1..Run(n)
      BY <2>4, <1>2 DEF Runs
    <3> QED BY <3>1, <3>2, <2>3, <1>1
  <2>6. \A r \in Runs : r > Run(n) => told'[r] = 0
    <3>1. \A r \in Runs : r > Run(n) => told[r] = 0
      BY <2>3, <2>4, <1>2 DEF Runs
    <3> QED BY <3>1, <1>2, <1>4, <1>5, <1>ty
  <2>7. CASE k = n
    <3>1. Terminal(StatusAfter(n)) => seen' = StatusAfter(n) /\ told' = told /\ AtWork(n) = {}
      BY <2>3, <2>7, <1>4 DEF AtWork
    <3>2. ~Terminal(StatusAfter(n)) => seen' = NoValue /\ told' = told
      BY <1>4
    <3> QED BY <3>1, <3>2, <2>3, <2>5, <2>6, <2>7, <2>1, <1>1 DEF EndsKept, Terminal, StatusAfter, Run
  <2>8. CASE k < n
    <3>1. told[Run(n)] = 0
      <4>1. CASE Run(k) < Run(n)
        BY <4>1, <2>3, <1>2
      <4>2. CASE Run(k) = Run(n)
        <5>1. k > 0
          BY <4>2, <2>4, <2>2, FirstRun, <1>ty
        <5>2. ~Terminal(StatusAfter(k))
          BY <5>1, <4>2, <2>8, <2>1, <2>2, SameRun, <1>ty
        <5> QED BY <5>1, <5>2, <2>3, <4>2
      <4> QED BY <4>1, <4>2, <2>4, <1>2
    <3>2. CASE ~Terminal(StatusAfter(n))
      <4>1. told'[Run(n)] = 0 /\ seen' = NoValue
        BY <3>1, <3>2, <1>4
      <4> QED BY <4>1, <3>2, <2>5, <2>6, <2>1 DEF EndsKept, Terminal, StatusAfter, Run
    <3>3. CASE Terminal(StatusAfter(n))
      <4>1. saw' = saw
        BY <3>3, <1>1 DEF AtWork
      <4>2. seen' = StatusAfter(n)
        BY <3>3, <1>4
      <4>3. Run(n) \in saw => seen # StatusAfter(n)
        <5> SUFFICES ASSUME Run(n) \in saw PROVE seen # StatusAfter(n)
          OBVIOUS
        <5>1. Run(k) = Run(n)
          BY <2>3, <2>4, <1>2
        <5>2. k > 0
          BY <5>1, <2>4, <2>2, FirstRun, <1>ty
        <5>3. ~Terminal(StatusAfter(k))
          BY <5>1, <5>2, <2>8, <2>1, <2>2, SameRun, <1>ty
        <5>4. seen = NoValue
          BY <5>1, <5>2, <5>3, <2>3
        <5> QED BY <5>4, <3>3 DEF Terminal, Over, NoValue
      <4>4. seen' # "cancelled" /\ Run(n) \in saw' => told'[Run(n)] = 1
        BY <4>1, <4>2, <4>3, <3>1, <3>3, <1>2, <1>4, <1>ty
      <4> QED BY <4>2, <4>4, <3>3, <2>5, <2>6, <2>1 DEF EndsKept, Terminal, StatusAfter, Run
    <3> QED BY <3>2, <3>3
  <2> QED BY <2>2, <2>7, <2>8
<1>8. late' \/ newest' = GoneMark => EndsKept'
  BY DEF EndsKept, GoneMark
<1> QED BY <1>5, <1>6, <1>7, <1>8

LEMMA ListKeeps ==
    ASSUME DesktopAssumption, StoreTyped, Recorded, NewestShown, EndsKept, NEW n \in 1..Now, UNCHANGED <<events, told>>,
           seen' = (IF Terminal(StatusAfter(n)) THEN StatusAfter(n) ELSE seen), Lists(n)
    PROVE  /\ EndsKept'
           /\ seen' \in Over \union {NoValue} /\ newest' \in 0..GoneMark /\ late' \in BOOLEAN
<1>ty. /\ events \in Seq(Lifecycle) /\ told \in [Runs -> Nat] /\ MaxEvents \in Nat /\ newest \in 0..GoneMark
       /\ seen \in Over \union {NoValue} /\ late \in BOOLEAN /\ Now <= MaxEvents /\ Now \in Nat /\ GoneMark = MaxEvents + 1
  BY DEF StoreTyped, DesktopAssumption, Now, GoneMark
<1>1. /\ saw' = (IF seen = NoValue THEN AtWork(n) ELSE {}) /\ newest' = (IF n > newest THEN n ELSE newest)
      /\ late' = (late \/ n < newest)
  BY DEF Lists, Arrives
<1>2. Run(n) \in Runs /\ Run(n) \in Nat /\ Run(n) >= 1
  BY <1>ty, FirstRun DEF Runs
<1>3. seen' \in Over \union {NoValue} /\ newest' \in 0..GoneMark /\ late' \in BOOLEAN
  BY <1>1, <1>ty DEF Terminal
<1>4. ASSUME ~late', newest' # GoneMark PROVE EndsKept'
  <2>0. ~late /\ ~(n < newest)
    BY <1>1, <1>4
  <2>1. ~late /\ newest <= n /\ newest # GoneMark /\ newest \in Nat /\ newest' = n /\ newest <= Now
    BY <1>1, <2>0, <1>ty
  <2>2. PICK k \in Nat : k = newest /\ k <= n
    BY <2>1
  <2>3. /\ \A r \in Runs : r > Run(k) => told[r] = 0
        /\ k > 0 /\ ~Terminal(StatusAfter(k)) => told[Run(k)] = 0
    BY <2>1, <2>2 DEF EndsKept
  <2>4. Run(k) \in Nat /\ Run(k) <= Run(n) /\ Run(0) = 0
    BY <2>2, RunsGrow, RunZero
  <2>5. saw' \subseteq 1..Run(n)
    BY WorkSeen, <1>1, <1>2
  <2>6. \A r \in Runs : r > Run(n) => told'[r] = 0
    BY <2>3, <2>4, <1>2 DEF Runs
  <2>7. CASE Terminal(StatusAfter(n))
    <3>1. saw' = {} /\ seen' = StatusAfter(n)
      BY <2>7, <1>1 DEF AtWork
    <3> QED BY <3>1, <2>7, <2>5, <2>6, <2>1 DEF EndsKept, Terminal, StatusAfter, Run
  <2>8. CASE ~Terminal(StatusAfter(n))
    <3>1. told[Run(n)] = 0
      <4>1. CASE Run(k) < Run(n)
        BY <4>1, <2>3, <1>2
      <4>2. CASE Run(k) = Run(n)
        <5>1. k > 0
          BY <4>2, <2>4, <1>2
        <5>2. ~Terminal(StatusAfter(k))
          <6>1. CASE k = n
            BY <6>1, <2>8
          <6>2. CASE k < n
            BY <6>2, <5>1, <4>2, <2>1, <2>2, SameRun, <1>ty
          <6> QED BY <6>1, <6>2, <2>2
        <5> QED BY <5>1, <5>2, <2>3, <4>2
      <4> QED BY <4>1, <4>2, <2>4, <1>2
    <3>2. seen' = seen /\ (seen' = NoValue \/ saw' = {})
      BY <2>8, <1>1
    <3> QED BY <3>1, <3>2, <2>8, <2>5, <2>6, <2>1 DEF EndsKept, Terminal, StatusAfter, Run
  <2> QED BY <2>7, <2>8
<1>5. late' \/ newest' = GoneMark => EndsKept'
  BY DEF EndsKept, GoneMark
<1> QED BY <1>3, <1>4, <1>5

-----------------------------------------------------------------------------
LEMMA ArriveKeeps ==
    ASSUME DesktopAssumption, StoreTyped, NewestShown, NEW n \in 0..Now, Arrives(n)
    PROVE  /\ newest' \in 0..GoneMark /\ newest <= newest' /\ n <= newest' /\ late' \in BOOLEAN
           /\ newest' <= Now \/ (newest' = GoneMark /\ deleted)
           /\ ~late' => newest' = n /\ newest' # GoneMark
<1>ty. newest \in 0..GoneMark /\ late \in BOOLEAN /\ Now \in Nat /\ GoneMark \in Nat /\ Now < GoneMark
       /\ (newest <= Now \/ (newest = GoneMark /\ deleted))
  BY DEF StoreTyped, DesktopAssumption, Now, GoneMark, NewestShown
<1>1. newest' = (IF n > newest THEN n ELSE newest) /\ late' = (late \/ n < newest)
  BY DEF Arrives
<1>2. ~late' => ~(n < newest)
  BY <1>1
<1>3. CASE n > newest
  BY <1>1, <1>3, <1>ty
<1>4. CASE ~(n > newest)
  <2>1. newest' = newest /\ (~late' => newest = n)
    BY <1>1, <1>2, <1>4, <1>ty
  <2> QED BY <2>1, <1>ty, <1>1, <1>4
<1> QED BY <1>3, <1>4

LEMMA GoneKeeps ==
    ASSUME DesktopAssumption, StoreTyped, Arrives(GoneMark)
    PROVE  newest' = GoneMark /\ newest <= newest' /\ late' \in BOOLEAN /\ GoneMark \in Nat /\ EndsKept'
<1>1. newest \in 0..GoneMark /\ late \in BOOLEAN /\ GoneMark \in Nat
  BY DEF StoreTyped, DesktopAssumption, GoneMark
<1>2. newest' = GoneMark
  BY <1>1 DEF Arrives
<1> QED BY <1>1, <1>2 DEF Arrives, EndsKept, GoneMark

LEMMA EndsStay == EndsKept /\ UNCHANGED News => EndsKept'
BY DEF EndsKept, News, Run, Terminal, StatusAfter, GoneMark, Runs

LEMMA RecordStays == Recorded /\ UNCHANGED events => Recorded'
BY DEF Recorded, Now

-----------------------------------------------------------------------------
\* The backend.
LEMMA StoreInvInit == DesktopAssumption /\ DesktopInit => StoreInv
<1> SUFFICES ASSUME DesktopAssumption, DesktopInit PROVE StoreInv
  OBVIOUS
<1>1. /\ story \in Stories /\ events = <<>> /\ deleted = FALSE
      /\ feed = [phase |-> "list", cursor |-> 0, row |-> 0, id |-> 0]
      /\ submit = NoValue /\ tracks = [phase |-> NoValue, row |-> 0]
      /\ job = NoJob /\ seen = NoValue /\ detail = FALSE
      /\ follower = NoFollower
      /\ told = [r \in Runs |-> 0] /\ saw = {} /\ newest = 0 /\ late = FALSE
  BY DEF DesktopInit
<1>2. story.events \in 0..MaxEvents /\ MaxEvents \in Nat /\ GoneMark \in Nat /\ Now = 0 /\ events \in Seq(Lifecycle)
      /\ GoneMark # 0
  BY <1>1 DEF DesktopAssumption, GoneMark, Now
<1>3. job \in JobRecords /\ follower \in FollowerRecords /\ feed \in FeedRecords /\ tracks \in TracksRecords
      /\ job.row = 0 /\ follower.row = 0 /\ follower.phase = NoValue
  BY <1>1, <1>2 DEF JobRecords, FollowerRecords, FeedRecords, TracksRecords, NoJob, NoFollower
<1>4. StoreTyped
  <2>1. told \in [Runs -> Nat]
    BY <1>1
  <2>2. newest \in 0..GoneMark /\ Now <= story.events /\ Now <= MaxEvents
    BY <1>1, <1>2
  <2> QED BY <2>1, <2>2, <1>1, <1>2, <1>3 DEF StoreTyped
<1>5. Recorded /\ ReadBack /\ NewestShown /\ RunningFollowed
  BY <1>1, <1>2, <1>3 DEF Recorded, ReadBack, NewestShown, RunningFollowed, Known, NoValue
<1>6. EndsKept
  BY <1>1, <1>2, RunZero DEF EndsKept
<1> QED BY <1>4, <1>5, <1>6 DEF StoreInv

LEMMA RecordKeeps ==
    ASSUME DesktopAssumption, StoreInv, NEW type \in Lifecycle, Record(type), Backend, UNCHANGED deleted,
           submit' \in {NoValue, "sent", "done"},
           Now = 0 => type = "queued", Now > 0 /\ events[Now] \in Over => type = "retried"
    PROVE  StoreInv'
<1>ty. StoreTyped /\ Recorded /\ ReadBack /\ NewestShown /\ RunningFollowed /\ EndsKept
  BY DEF StoreInv
<1>1. /\ events' = Append(events, type) /\ ~deleted /\ deleted' = deleted /\ Now < story.events
      /\ UNCHANGED <<story, feed, tracks, job, seen, detail, follower, told, saw, newest, late>>
  BY DEF Record, Backend
<1>2. events \in Seq(Lifecycle) /\ Now \in Nat /\ story.events \in 0..MaxEvents /\ MaxEvents \in Nat
  BY <1>ty DEF StoreTyped, Now, DesktopAssumption
<1>3. events' \in Seq(Lifecycle) /\ Now' = Now + 1 /\ Now' \in Nat /\ Now' > 0
      /\ events'[Now + 1] = type /\ \A i \in 1..Now : events'[i] = events[i]
  BY <1>1, <1>2 DEF Now
<1>4. StoreTyped'
  <2>1. Now' <= story'.events /\ Now' <= MaxEvents /\ story' \in Stories
    BY <1>ty, <1>1, <1>2, <1>3 DEF StoreTyped
  <2>2. /\ feed' \in FeedRecords' /\ tracks' \in TracksRecords' /\ job' \in JobRecords' /\ follower' \in FollowerRecords'
        /\ told' \in [Runs -> Nat]' /\ newest' \in (0..GoneMark)'
    BY <1>ty, <1>1 DEF StoreTyped, GoneMark, Runs, FeedRecords, JobRecords, FollowerRecords, TracksRecords
  <2> QED BY <2>1, <2>2, <1>ty, <1>1, <1>3 DEF StoreTyped
<1>5. Recorded'
  <2>1. Now = 0 => events'[1] = "queued"
    BY <1>3
  <2>2. Now > 0 => events'[1] = "queued"
    BY <1>3, <1>2, <1>ty DEF Recorded
  <2>3. ASSUME NEW i \in 1..Now', i + 1 <= Now', events'[i] \in Over PROVE events'[i + 1] = "retried"
    <3>1. CASE i + 1 <= Now
      <4>1. i \in 1..Now /\ i + 1 \in 1..Now
        BY <3>1, <1>2, <1>3
      <4>2. events[i] \in Over
        BY <2>3, <4>1, <1>3
      <4> QED BY <4>1, <4>2, <3>1, <1>3, <1>ty DEF Recorded
    <3>2. CASE i = Now
      <4>1. i > 0 /\ i \in 1..Now /\ events[Now] \in Over
        BY <3>2, <2>3, <1>2, <1>3
      <4> QED BY <4>1, <3>2, <1>2, <1>3
    <3> QED BY <3>1, <3>2, <2>3, <1>2, <1>3
  <2> QED BY <2>1, <2>2, <2>3, <1>2, <1>3 DEF Recorded
<1>6. ReadBack'
  <2>1. feed.row \in Nat /\ tracks.row \in Nat /\ follower.row \in Nat /\ job.row \in Nat
    BY <1>ty, <1>2 DEF StoreTyped, FeedRecords, TracksRecords, FollowerRecords, JobRecords
  <2> QED BY <2>1, <1>ty, <1>1, <1>2, <1>3 DEF ReadBack, GoneMark
<1>7. NewestShown'
  <2>1. newest \in Nat
    BY <1>ty, <1>2 DEF StoreTyped, GoneMark
  <2> QED BY <2>1, <1>ty, <1>1, <1>2, <1>3 DEF NewestShown, GoneMark
<1>8. RunningFollowed'
  <2>1. PICK k \in Nat : k = job.row /\ k <= Now
    BY <1>ty DEF StoreTyped, JobRecords, ReadBack
  <2>2. k > 0 => StatusAfter(k)' = StatusAfter(k)
    BY <2>1, <1>1, <1>2, Remembered
  <2>3. job.row' = k
    BY <2>1, <1>1
  <2>4. StatusAfter(job.row)' = StatusAfter(k)'
    BY <2>3 DEF StatusAfter
  <2> QED BY <2>1, <2>2, <2>3, <2>4, <1>ty, <1>1 DEF RunningFollowed, Known
<1>9. EndsKept'
  <2> SUFFICES ASSUME ~late', newest' # GoneMark PROVE EndsKept'
    BY DEF EndsKept, GoneMark
  <2>1. ~late /\ newest # GoneMark /\ newest <= Now
    BY <1>1, <1>ty DEF NewestShown
  <2>2. PICK k \in Nat : k = newest /\ k <= Now
    BY <2>1, <1>ty DEF StoreTyped
  <2>3. Run(k)' = Run(k) /\ (k > 0 => StatusAfter(k)' = StatusAfter(k))
    BY <2>2, <1>1, <1>2, Remembered
  <2>4. Run(newest)' = Run(k)' /\ StatusAfter(newest)' = StatusAfter(k)' /\ newest' = k
    BY <2>2, <1>1 DEF Run, StatusAfter
  <2> QED BY <2>1, <2>2, <2>3, <2>4, <1>ty, <1>1 DEF EndsKept, Terminal, Runs
<1> QED BY <1>4, <1>5, <1>6, <1>7, <1>8, <1>9 DEF StoreInv

LEMMA BackendKeeps == ASSUME DesktopAssumption, StoreInv, BackendNext PROVE StoreInv'
<1>ty. StoreTyped /\ Recorded /\ ReadBack /\ NewestShown /\ RunningFollowed /\ EndsKept
  BY DEF StoreInv
<1>0. Now \in Nat /\ submit \in {NoValue, "sent", "done"} /\ events \in Seq(Lifecycle)
  BY <1>ty DEF StoreTyped, Now
<1>st. Now > 0 => Now \in 1..Now /\ events[Now] \in Lifecycle
  BY <1>0 DEF Now
<1>1. CASE Created
  <2>1. Record("queued") /\ Backend /\ UNCHANGED deleted /\ submit' \in {NoValue, "sent", "done"} /\ Now = 0
    BY <1>1 DEF Created, Now
  <2> QED BY <2>1, RecordKeeps DEF Lifecycle
<1>2. CASE Starts
  <2>1. Record("started") /\ Backend /\ UNCHANGED <<deleted, submit>> /\ Now > 0 /\ StatusAfter(Now) = "queued"
    BY <1>2 DEF Starts
  <2>2. events[Now] \notin Over
    BY <2>1 DEF StatusAfter, Over
  <2> QED BY <2>1, <2>2, <1>0, RecordKeeps DEF Lifecycle
<1>3. CASE Ends
  <2>1. PICK end \in Over : Record(end) /\ Backend /\ UNCHANGED <<deleted, submit>> /\ Now > 0
                            /\ StatusAfter(Now) \in {"queued", "running"}
    BY <1>3 DEF Ends, Over
  <2>2. events[Now] \notin Over
    BY <2>1 DEF StatusAfter, Over
  <2> QED BY <2>1, <2>2, <1>0, RecordKeeps DEF Lifecycle, Over
<1>4. CASE Retried
  <2>1. Record("retried") /\ Backend /\ UNCHANGED <<deleted, submit>> /\ Now > 0
    BY <1>4 DEF Retried
  <2> QED BY <2>1, <1>0, RecordKeeps DEF Lifecycle
<1>5. CASE Deletes
  <2>1. Now > 0 /\ deleted' = TRUE /\ UNCHANGED <<story, events, submit, feed, tracks, job, seen, detail,
                                                  follower, told, saw, newest, late>>
    BY <1>5 DEF Deletes, Backend
  <2>2. StoreTyped'
    BY <1>ty, <2>1 DEF StoreTyped, Now, GoneMark, Runs, FeedRecords, JobRecords, FollowerRecords, TracksRecords
  <2>3. Recorded' /\ EndsKept'
    BY <1>ty, <2>1, RecordStays, EndsStay DEF News
  <2>4. ReadBack'
    BY <1>ty, <2>1 DEF ReadBack, Now, GoneMark
  <2>5. NewestShown'
    BY <1>ty, <2>1 DEF NewestShown, Now, GoneMark
  <2>6. RunningFollowed'
    BY <1>ty, <2>1 DEF RunningFollowed, Known, StatusAfter
  <2> QED BY <2>2, <2>3, <2>4, <2>5, <2>6 DEF StoreInv
<1> QED BY <1>1, <1>2, <1>3, <1>4, <1>5 DEF BackendNext

-----------------------------------------------------------------------------
\* The steps of the app. FollowerOf and Following give a follower.
LEMMA FollowingIs == ASSUME NEW h \in BOOLEAN
                     PROVE  Following(h) \in FollowerRecords /\ Following(h) # NoFollower
                            /\ Following(h).phase = "detail" /\ Following(h).row = 0
BY DEF Following, NoFollower, FollowerRecords, NoValue

LEMMA FollowingReads == StoreTyped => \A h \in BOOLEAN : Following(h).row <= Now
<1>1. StoreTyped => 0 <= Now
  BY DEF StoreTyped, Now
<1> QED BY <1>1, FollowingIs

LEMMA NoFollowerIs == NoFollower \in FollowerRecords /\ NoFollower.phase = NoValue /\ NoFollower.row = 0
                      /\ \A f \in FollowerRecords : f.phase # NoValue => f # NoFollower
BY DEF NoFollower, FollowerRecords, NoValue

LEMMA NoJobIs == NoJob \in JobRecords /\ NoJob.row = 0
BY DEF NoJob, JobRecords

LEMMA UpsertKeeps ==
    ASSUME DesktopAssumption, StoreInv, NEW n \in 1..Now, Upsert(n), UNCHANGED <<story, events, deleted, tracks, detail>>,
           submit' \in {NoValue, "sent", "done"}, submit' = "sent" => submit = "sent",
           \/ feed' = feed /\ StatusAfter(n) # "running"
           \/ feed' \in FeedRecords /\ feed'.phase = "live" /\ feed'.cursor = n /\ feed'.row = feed.row
    PROVE  StoreInv'
<1>ty. StoreTyped /\ Recorded /\ ReadBack /\ NewestShown /\ RunningFollowed /\ EndsKept
  BY DEF StoreInv
<1>0. job \in JobRecords /\ follower \in FollowerRecords /\ detail \in BOOLEAN /\ feed \in FeedRecords /\ MaxEvents \in Nat
      /\ Now \in Nat /\ newest \in 0..GoneMark /\ events \in Seq(Lifecycle)
  BY <1>ty DEF StoreTyped, DesktopAssumption, Now
<1>1. job' = [job EXCEPT !.row = n] /\ NoteStatus(n) /\ follower' = FollowerOf(StatusAfter(n)) /\ Posts(n) /\ Arrives(n)
  BY DEF Upsert, Posts
<1>2. job' \in JobRecords /\ job'.row = n
  BY <1>0, <1>1 DEF JobRecords
<1>3. EndsKept' /\ seen' \in Over \union {NoValue} /\ told' \in [Runs -> Nat]
  BY <1>ty, <1>1, NewsKeeps
<1>4. /\ newest' \in 0..GoneMark /\ newest <= newest' /\ n <= newest' /\ late' \in BOOLEAN
      /\ newest' <= Now \/ (newest' = GoneMark /\ deleted)
      /\ ~late' => newest' = n /\ newest' # GoneMark
  BY <1>ty, <1>1, ArriveKeeps, <1>0
<1>5. /\ follower' \in FollowerRecords /\ follower'.row <= Now
      /\ follower'.phase = "detailed" => follower'.row > 0
      /\ follower'.phase = "gone" => deleted
      /\ StatusAfter(n) = "running" => follower' # NoFollower
  <2>1. follower' \in {Following(FALSE), follower, NoFollower}
        /\ (StatusAfter(n) = "running" => follower' # NoFollower)
    BY <1>1, FollowingIs DEF FollowerOf
  <2>2. follower.row <= Now /\ (follower.phase = "detailed" => follower.row > 0) /\ (follower.phase = "gone" => deleted)
    BY <1>ty DEF ReadBack
  <2>3. CASE follower' = Following(FALSE)
    <3>1. PICK f : f \in FollowerRecords /\ f = Following(FALSE) /\ f # NoFollower /\ f.phase = "detail" /\ f.row <= Now
      BY FollowingIs, FollowingReads, <1>ty
    <3>2. follower' = f
      BY <2>3, <3>1
    <3> QED BY ONLY <3>1, <3>2, <1>0
  <2>4. CASE follower' = NoFollower
    BY <2>4, <2>1, <1>0, NoFollowerIs DEF NoValue
  <2>5. CASE follower' = follower
    BY <2>5, <2>1, <2>2, <1>0
  <2> QED BY <2>1, <2>3, <2>4, <2>5
<1>6. feed' \in FeedRecords /\ feed'.row = feed.row
  BY <1>0
<1>7. StoreTyped'
  BY <1>ty, <1>2, <1>3, <1>4, <1>5, <1>6 DEF StoreTyped, GoneMark, Runs, FeedRecords, JobRecords, FollowerRecords,
                                             TracksRecords, Now
<1>8. Recorded'
  BY <1>ty, RecordStays
<1>9. ReadBack'
  <2>1. feed'.phase \in {"listed", "upserted", "deleted"} => feed' = feed
    BY <1>0
  <2> QED BY <2>1, <1>ty, <1>0, <1>2, <1>5, <1>6 DEF ReadBack, Now, GoneMark
<1>10. NewestShown'
  <2>1. feed'.phase \notin {"list", "listed"} => feed'.cursor <= newest'
    <3>1. CASE feed' = feed
      <4>1. feed.cursor \in Nat
        BY <1>0 DEF FeedRecords, GoneMark
      <4> QED BY <4>1, <3>1, <1>ty, <1>0, <1>4 DEF NewestShown, GoneMark
    <3>2. CASE feed'.cursor = n
      BY <3>2, <1>4
    <3> QED BY <3>1, <3>2
  <2> QED BY <2>1, <1>2, <1>4 DEF NewestShown, GoneMark, Now
<1>11. RunningFollowed'
  BY <1>2, <1>5 DEF RunningFollowed, Known, StatusAfter
<1> QED BY <1>3, <1>7, <1>8, <1>9, <1>10, <1>11 DEF StoreInv

LEMMA DetailKeeps ==
    ASSUME DesktopAssumption, StoreInv, NEW n \in 1..Now, ApplyDetail(n), UNCHANGED <<story, events, deleted, submit, feed>>,
           detail' \in BOOLEAN, tracks' \in TracksRecords, tracks'.row <= Now, tracks'.phase = "read" => tracks'.row > 0,
           follower' \in FollowerRecords, follower'.row <= Now, follower'.phase = "detailed" => follower'.row > 0, follower'.phase = "gone" => deleted,
           follower' = NoFollower => follower = NoFollower \/ StatusAfter(n) # "running"
    PROVE  StoreInv'
<1>ty. StoreTyped /\ Recorded /\ ReadBack /\ NewestShown /\ RunningFollowed /\ EndsKept
  BY DEF StoreInv
<1>0. job \in JobRecords /\ feed \in FeedRecords /\ MaxEvents \in Nat
      /\ Now \in Nat /\ newest \in 0..GoneMark /\ events \in Seq(Lifecycle) /\ Now > 0
  BY <1>ty DEF StoreTyped, DesktopAssumption, Now
<1>1. job' = [job EXCEPT !.row = n, !.snapshot = n, !.items = TRUE] /\ NoteStatus(n) /\ Posts(n) /\ Arrives(n)
  BY DEF ApplyDetail, Posts
<1>2. job' \in JobRecords /\ job'.row = n
  <2>1. PICK j : j = [job EXCEPT !.row = n]
    OBVIOUS
  <2>2. PICK k : k = [j EXCEPT !.snapshot = n]
    OBVIOUS
  <2>0. n \in Nat
    BY <1>0
  <2>3. j \in JobRecords /\ j.row = n
    BY ONLY <1>0, <2>0, <2>1 DEF JobRecords
  <2>4. k \in JobRecords /\ k.row = n
    BY <1>0, <2>2, <2>3 DEF JobRecords
  <2>5. job' = [k EXCEPT !.items = TRUE]
    BY <1>0, <1>1, <2>1, <2>2 DEF JobRecords
  <2> QED BY <2>4, <2>5 DEF JobRecords
<1>3. EndsKept' /\ seen' \in Over \union {NoValue} /\ told' \in [Runs -> Nat]
  BY <1>ty, <1>1, NewsKeeps
<1>4. /\ newest' \in 0..GoneMark /\ newest <= newest' /\ n <= newest' /\ late' \in BOOLEAN
      /\ newest' <= Now \/ (newest' = GoneMark /\ deleted)
      /\ ~late' => newest' = n /\ newest' # GoneMark
  BY <1>ty, <1>1, ArriveKeeps, <1>0
<1>7. StoreTyped'
  BY <1>ty, <1>2, <1>3, <1>4 DEF StoreTyped, GoneMark, Runs, FeedRecords, JobRecords, FollowerRecords,
                                             TracksRecords, Now
<1>8. Recorded'
  BY <1>ty, RecordStays
<1>9. ReadBack'
  BY <1>ty, <1>0, <1>2 DEF ReadBack, Now, GoneMark
<1>10. NewestShown'
  <2>1. feed.cursor \in Nat
    BY <1>0 DEF FeedRecords, GoneMark
  <2> QED BY <2>1, <1>ty, <1>0, <1>2, <1>4 DEF NewestShown, GoneMark, Now
<1>11. RunningFollowed'
  <2> SUFFICES ASSUME ~late', StatusAfter(n) = "running", follower' = NoFollower, feed.phase \notin {"list", "listed"}
               PROVE  feed.cursor < n
    BY <1>2 DEF RunningFollowed, Known, StatusAfter
  <2>1. follower = NoFollower /\ feed.cursor \in Nat /\ feed.cursor <= newest
    BY <1>ty, <1>0 DEF FeedRecords, GoneMark, NewestShown
  <2>2. ~late /\ newest <= n /\ newest \in Nat /\ newest # GoneMark
    <3>1. late' = (late \/ n < newest)
      BY <1>1 DEF Arrives
    <3>2. ~late /\ ~(n < newest)
      BY <3>1
    <3> QED BY <3>2, <1>0, <1>4 DEF GoneMark
  <2>3. CASE newest < n
    BY <2>1, <2>2, <2>3
  <2>4. CASE newest = n
    <3>1. job.row = n
      BY <2>2, <2>4, <1>ty DEF NewestShown
    <3>2. feed.cursor < job.row
      BY <3>1, <2>1, <2>2, <1>ty DEF RunningFollowed, Known
    <3> QED BY <3>1, <3>2
  <2> QED BY <2>2, <2>3, <2>4
<1> QED BY <1>3, <1>7, <1>8, <1>9, <1>10, <1>11 DEF StoreInv

LEMMA DropKeeps ==
    ASSUME DesktopAssumption, StoreInv, DropJob, deleted, UNCHANGED <<story, events, deleted, submit, tracks>>,
           \/ feed' = feed
           \/ feed' \in FeedRecords /\ feed'.phase = "live" /\ feed'.row = feed.row
    PROVE  StoreInv'
<1>ty. StoreTyped /\ Recorded /\ ReadBack /\ NewestShown /\ RunningFollowed /\ EndsKept
  BY DEF StoreInv
<1>1. job' = NoJob /\ seen' = NoValue /\ follower' = NoFollower /\ detail' = FALSE /\ Arrives(GoneMark) /\ told' = told
  BY DEF DropJob, Posts
<1>2. newest' = GoneMark /\ newest <= newest' /\ late' \in BOOLEAN /\ GoneMark \in Nat /\ EndsKept'
  BY <1>1, <1>ty, GoneKeeps
<1>3. feed' \in FeedRecords /\ feed'.row = feed.row /\ feed'.cursor <= GoneMark
      /\ (feed'.phase \in {"listed", "upserted", "deleted"} => feed' = feed)
  <2>1. feed \in FeedRecords
    BY <1>ty DEF StoreTyped
  <2> QED BY <2>1 DEF FeedRecords
<1>4. StoreTyped'
  <2>1. newest' \in (0..GoneMark)' /\ job' \in JobRecords' /\ follower' \in FollowerRecords' /\ feed' \in FeedRecords'
    BY <1>1, <1>2, <1>3, NoJobIs, NoFollowerIs DEF GoneMark, FeedRecords, JobRecords, FollowerRecords
  <2>2. tracks' \in TracksRecords' /\ told' \in [Runs -> Nat]'
    BY <1>ty, <1>1 DEF StoreTyped, TracksRecords, Runs
  <2> QED BY <2>1, <2>2, <1>ty, <1>1, <1>2 DEF StoreTyped, Now
<1>5. Recorded'
  BY <1>ty, RecordStays
<1>6. ReadBack'
  <2>1. Now \in Nat
    BY <1>ty DEF StoreTyped, Now
  <2> QED BY <2>1, <1>ty, <1>1, <1>3, NoJobIs, NoFollowerIs DEF ReadBack, Now, GoneMark, NoValue
<1>7. NewestShown' /\ RunningFollowed'
  BY <1>1, <1>2, <1>3, NoJobIs DEF NewestShown, RunningFollowed, Known, GoneMark, Now
<1> QED BY <1>2, <1>4, <1>5, <1>6, <1>7 DEF StoreInv

-----------------------------------------------------------------------------
\* What only reads.
Told == <<story, events, deleted, submit, job, seen, told, saw, newest, late>>

LEMMA QuietKeeps ==
    ASSUME DesktopAssumption, StoreInv, UNCHANGED Told, feed' \in FeedRecords, detail' \in BOOLEAN,
           tracks' \in TracksRecords, follower' \in FollowerRecords,
           feed'.cursor = feed.cursor \/ feed'.phase \in {"list", "listed"},
           feed'.phase \in {"list", "listed"} \/ feed.phase \notin {"list", "listed"},
           follower' = NoFollower => follower = NoFollower \/ ~Known \/ StatusAfter(job.row) # "running",
           ReadBack'
    PROVE  StoreInv'
<1>ty. StoreTyped /\ Recorded /\ ReadBack /\ NewestShown /\ RunningFollowed /\ EndsKept
  BY DEF StoreInv
<1>1. /\ UNCHANGED <<story, events, deleted, submit, job, seen, told, saw, newest, late>> /\ UNCHANGED News
  BY DEF Told, News
<1>2. StoreTyped'
  BY <1>ty, <1>1 DEF StoreTyped, GoneMark, Runs, FeedRecords, JobRecords, FollowerRecords, TracksRecords, Now
<1>3. Recorded' /\ EndsKept'
  BY <1>ty, <1>1, RecordStays, EndsStay
<1>4. NewestShown'
  BY <1>ty, <1>1 DEF NewestShown, GoneMark, Now
<1>5. RunningFollowed'
  BY <1>ty, <1>1 DEF RunningFollowed, Known, StatusAfter
<1> QED BY <1>2, <1>3, <1>4, <1>5 DEF StoreInv

LEMMA FeedReadsKeeps == ASSUME DesktopAssumption, StoreInv, FeedReads PROVE StoreInv'
<1>ty. StoreTyped /\ ReadBack
  BY DEF StoreInv
<1>0. Now \in 0..MaxEvents /\ GoneMark \in Nat /\ MaxEvents \in Nat /\ GoneMark = MaxEvents + 1 /\ deleted \in BOOLEAN
  BY <1>ty DEF StoreTyped, Now, GoneMark, DesktopAssumption
<1>1. /\ feed.phase = "list" /\ UNCHANGED Told /\ UNCHANGED <<tracks, detail, follower>>
      /\ feed' = [phase |-> "listed", cursor |-> IF deleted THEN GoneMark ELSE Now, id |-> 0,
                  row |-> IF deleted THEN 0 ELSE Now]
  BY DEF FeedReads, Told, Store
<1>2. feed' \in FeedRecords /\ feed'.phase = "listed" /\ feed'.row <= Now
      /\ (feed'.cursor = feed'.row \/ (feed'.cursor = GoneMark /\ feed'.row = 0 /\ deleted))
  BY <1>0, <1>1 DEF FeedRecords
<1>3. ReadBack'
  BY <1>ty, <1>0, <1>1, <1>2 DEF ReadBack, Told, Now, GoneMark
<1> QED BY <1>ty, <1>1, <1>2, <1>3, QuietKeeps DEF StoreTyped

LEMMA FeedSendsKeeps == ASSUME DesktopAssumption, StoreInv, FeedSends PROVE StoreInv'
<1>ty. StoreTyped /\ ReadBack
  BY DEF StoreInv
<1>0. Now \in 0..MaxEvents /\ GoneMark \in Nat /\ MaxEvents \in Nat /\ GoneMark = MaxEvents + 1 /\ deleted \in BOOLEAN
      /\ feed \in FeedRecords
  BY <1>ty DEF StoreTyped, Now, GoneMark, DesktopAssumption
<1>1. /\ feed.phase = "live" /\ UNCHANGED Told /\ UNCHANGED <<tracks, detail, follower>>
      /\ \/ deleted /\ feed' = [feed EXCEPT !.phase = "deleted", !.id = GoneMark]
         \/ feed.cursor <= Now /\ Now > 0 /\ feed' = [feed EXCEPT !.phase = "upserted", !.row = Now, !.id = Now]
  <2>1. feed.cursor \in Nat
    BY <1>0 DEF FeedRecords
  <2> QED BY <2>1, <1>0 DEF FeedSends, Told, Store
<1>2. /\ feed' \in FeedRecords /\ feed'.cursor = feed.cursor /\ feed'.row <= Now
      /\ feed'.phase \in {"upserted", "deleted"}
      /\ feed'.phase = "upserted" => feed'.id = feed'.row /\ feed'.row > 0
      /\ feed'.phase = "deleted" => feed'.id = GoneMark /\ deleted
  <2>1. CASE deleted /\ feed' = [feed EXCEPT !.phase = "deleted", !.id = GoneMark]
    <3>1. PICK m : m = [feed EXCEPT !.phase = "deleted"]
      OBVIOUS
    <3>2. m \in FeedRecords /\ m.row = feed.row /\ m.cursor = feed.cursor /\ m.phase = "deleted"
      BY <3>1, <1>0 DEF FeedRecords
    <3>3. feed' = [m EXCEPT !.id = GoneMark]
      BY <2>1, <3>1, <1>0 DEF FeedRecords
    <3>4. feed.row <= Now
      BY <1>ty DEF ReadBack
    <3> QED BY <2>1, <3>2, <3>3, <3>4, <1>0 DEF FeedRecords
  <2>2. CASE Now > 0 /\ feed' = [feed EXCEPT !.phase = "upserted", !.row = Now, !.id = Now]
    <3>1. PICK m : m = [feed EXCEPT !.phase = "upserted"]
      OBVIOUS
    <3>2. PICK r : r = [m EXCEPT !.row = Now]
      OBVIOUS
    <3>3. m \in FeedRecords /\ m.cursor = feed.cursor /\ m.phase = "upserted"
      BY <3>1, <1>0 DEF FeedRecords
    <3>4. r \in FeedRecords /\ r.row = Now /\ r.cursor = feed.cursor /\ r.phase = "upserted"
      BY <3>2, <3>3, <1>0 DEF FeedRecords
    <3>5. feed' = [r EXCEPT !.id = Now]
      BY <2>2, <3>1, <3>2, <1>0 DEF FeedRecords
    <3> QED BY <2>2, <3>4, <3>5, <1>0 DEF FeedRecords
  <2> QED BY <2>1, <2>2, <1>1
<1>3. ReadBack'
  BY <1>ty, <1>0, <1>1, <1>2 DEF ReadBack, Told, Now, GoneMark
<1> QED BY <1>ty, <1>1, <1>2, <1>3, QuietKeeps DEF StoreTyped

LEMMA FeedCutKeeps == ASSUME DesktopAssumption, StoreInv, FeedCut PROVE StoreInv'
<1>ty. StoreTyped /\ ReadBack
  BY DEF StoreInv
<1>1. /\ feed.phase \in {"upserted", "deleted"} /\ UNCHANGED Told /\ UNCHANGED <<tracks, detail, follower>>
      /\ feed' = [feed EXCEPT !.phase = "live"]
  BY DEF FeedCut, Told, Store
<1>2. feed' \in FeedRecords /\ feed'.cursor = feed.cursor /\ feed'.row = feed.row /\ feed'.phase = "live"
  BY <1>ty, <1>1 DEF StoreTyped, FeedRecords
<1>3. ReadBack'
  BY <1>ty, <1>1, <1>2 DEF ReadBack, Told, Now, GoneMark
<1> QED BY <1>ty, <1>1, <1>2, <1>3, QuietKeeps DEF StoreTyped

LEMMA FollowerReadsKeeps == ASSUME DesktopAssumption, StoreInv, FollowerReads PROVE StoreInv'
<1>ty. StoreTyped /\ ReadBack
  BY DEF StoreInv
<1>0. Now \in Nat /\ follower \in FollowerRecords
  BY <1>ty DEF StoreTyped, Now
<1>1. /\ follower.phase = "detail" /\ UNCHANGED Told /\ UNCHANGED <<tracks, detail, feed>>
      /\ follower' = IF deleted THEN [follower EXCEPT !.phase = "gone"]
                     ELSE [follower EXCEPT !.phase = "detailed", !.row = Now]
  BY DEF FollowerReads, Goes, Told
<1>2. /\ follower' \in FollowerRecords /\ follower'.row <= Now /\ follower'.phase \in {"gone", "detailed"}
      /\ follower'.phase = "detailed" => follower'.row = Now
      /\ follower'.phase = "gone" => deleted
  <2>1. CASE deleted
    BY <2>1, <1>ty, <1>0, <1>1 DEF FollowerRecords, ReadBack
  <2>2. CASE ~deleted
    <3>1. PICK f : f = [follower EXCEPT !.phase = "detailed"]
      OBVIOUS
    <3>2. f \in FollowerRecords /\ f.phase = "detailed"
      BY <3>1, <1>0 DEF FollowerRecords
    <3>3. follower' = [f EXCEPT !.row = Now]
      BY <2>2, <3>1, <1>1, <1>0 DEF FollowerRecords
    <3> QED BY <3>2, <3>3, <1>0 DEF FollowerRecords
  <2> QED BY <2>1, <2>2
<1>3. Now > 0
  BY <1>ty, <1>1 DEF ReadBack, NoValue
<1>4. ReadBack'
  BY <1>ty, <1>0, <1>1, <1>2, <1>3 DEF ReadBack, Told, Now, GoneMark
<1>5. follower' # NoFollower
  BY <1>2, NoFollowerIs DEF NoValue
<1> QED BY <1>ty, <1>1, <1>2, <1>4, <1>5, QuietKeeps DEF StoreTyped

LEMMA FollowerEndsKeeps == ASSUME DesktopAssumption, StoreInv, FollowerEnds PROVE StoreInv'
<1>ty. StoreTyped /\ ReadBack
  BY DEF StoreInv
<1>1. PICK p \in {"gone", "detail"} :
      /\ follower.phase = "stream" /\ UNCHANGED Told /\ UNCHANGED <<tracks, detail, feed>>
      /\ follower' = [follower EXCEPT !.phase = p] /\ (p = "gone" => deleted)
  BY DEF FollowerEnds, Goes, Told
<1>2. follower' \in FollowerRecords /\ follower'.row = follower.row /\ follower'.phase = p
  BY <1>ty, <1>1 DEF StoreTyped, FollowerRecords
<1>4. ReadBack'
  BY <1>ty, <1>1, <1>2 DEF ReadBack, Told, Now, GoneMark, NoValue
<1>5. follower' # NoFollower
  BY <1>2, NoFollowerIs DEF NoValue
<1> QED BY <1>ty, <1>1, <1>2, <1>4, <1>5, QuietKeeps DEF StoreTyped

LEMMA TracksAskedKeeps == ASSUME DesktopAssumption, StoreInv, WantTracks \/ TracksRead PROVE StoreInv'
<1>ty. StoreTyped /\ ReadBack
  BY DEF StoreInv
<1>0. Now \in 0..MaxEvents /\ tracks \in TracksRecords /\ MaxEvents \in Nat /\ job \in JobRecords
  BY <1>ty DEF StoreTyped, Now, DesktopAssumption
<1>1. UNCHANGED Told /\ UNCHANGED <<follower, detail, feed>>
  BY DEF WantTracks, TracksRead, Told, Store
<1>2. /\ tracks' \in TracksRecords /\ tracks'.row <= Now /\ Now > 0
      /\ tracks'.phase = "read" => tracks'.row > 0
  <2>1. CASE WantTracks
    <3>1. tracks' = [tracks EXCEPT !.phase = "sent"] /\ Known
      BY <2>1 DEF WantTracks
    <3>2. Now > 0
      BY <3>1, <1>ty, <1>0 DEF ReadBack, Known, JobRecords
    <3> QED BY <3>1, <3>2, <1>ty, <1>0 DEF TracksRecords, ReadBack
  <2>2. CASE TracksRead
    <3>1. /\ tracks.phase = "sent"
          /\ tracks' = IF deleted THEN [phase |-> "done", row |-> 0] ELSE [phase |-> "read", row |-> Now]
      BY <2>2 DEF TracksRead
    <3>2. Now > 0
      BY <3>1, <1>ty DEF ReadBack, NoValue
    <3> QED BY <3>1, <3>2, <1>0 DEF TracksRecords
  <2> QED BY <2>1, <2>2
<1>3. ReadBack'
  BY <1>ty, <1>0, <1>1, <1>2 DEF ReadBack, Told, Now, GoneMark
<1> QED BY <1>ty, <1>1, <1>2, <1>3, QuietKeeps DEF StoreTyped

LEMMA ScreenKeeps == ASSUME DesktopAssumption, StoreInv, OpenDetail \/ CloseDetail PROVE StoreInv'
<1>ty. StoreTyped /\ ReadBack
  BY DEF StoreInv
<1>0. Now \in Nat /\ follower \in FollowerRecords /\ job \in JobRecords
  BY <1>ty DEF StoreTyped, Now
<1>1. UNCHANGED Told /\ UNCHANGED <<tracks, feed>> /\ detail' \in BOOLEAN
  BY DEF OpenDetail, CloseDetail, Told
<1>2. \/ Known /\ follower' = Following(TRUE)
      \/ follower' = follower
      \/ follower' = NoFollower /\ (~Known \/ StatusAfter(job.row) # "running")
  BY DEF OpenDetail, CloseDetail
<1>3. /\ follower' \in FollowerRecords /\ follower'.row <= Now
      /\ follower'.phase = "detailed" => follower'.row > 0
      /\ follower'.phase = "gone" => deleted
      /\ follower'.phase # NoValue => Now > 0
      /\ follower' = NoFollower => follower = NoFollower \/ ~Known \/ StatusAfter(job.row) # "running"
  <2>1. CASE Known /\ follower' = Following(TRUE)
    <3>1. Now > 0
      BY <2>1, <1>0, <1>ty DEF Known, ReadBack, JobRecords
    <3>2. PICK f : f \in FollowerRecords /\ f = Following(TRUE) /\ f # NoFollower /\ f.phase = "detail" /\ f.row <= Now
      BY FollowingIs, FollowingReads, <1>ty
    <3>3. follower' = f
      BY <2>1, <3>2
    <3> QED BY ONLY <3>1, <3>2, <3>3, <1>0
  <2>2. CASE follower' = follower
    BY <2>2, <1>0, <1>ty DEF ReadBack
  <2>3. CASE follower' = NoFollower /\ (~Known \/ StatusAfter(job.row) # "running")
    BY <2>3, <1>0, NoFollowerIs DEF NoValue
  <2> QED BY <1>2, <2>1, <2>2, <2>3
<1>4. ReadBack'
  BY <1>ty, <1>1, <1>3 DEF ReadBack, Told, Now, GoneMark
<1> QED BY <1>ty, <1>1, <1>3, <1>4, QuietKeeps DEF StoreTyped

-----------------------------------------------------------------------------
\* What posts.
LEMMA FeedListsKeeps == ASSUME DesktopAssumption, StoreInv, FeedLists PROVE StoreInv'
<1>ty. StoreTyped /\ Recorded /\ ReadBack /\ NewestShown /\ RunningFollowed /\ EndsKept
  BY DEF StoreInv
<1>0. job \in JobRecords /\ follower \in FollowerRecords /\ detail \in BOOLEAN /\ feed \in FeedRecords /\ MaxEvents \in Nat
      /\ Now \in 0..MaxEvents /\ newest \in 0..GoneMark /\ events \in Seq(Lifecycle) /\ GoneMark = MaxEvents + 1
  BY <1>ty DEF StoreTyped, DesktopAssumption, Now, GoneMark
<1>1. /\ feed.phase = "listed" /\ feed' = [feed EXCEPT !.phase = "live"]
      /\ Lists(IF feed.cursor = GoneMark THEN GoneMark ELSE feed.row)
      /\ UNCHANGED <<story, events, deleted, submit, tracks, told>>
  BY DEF FeedLists
<1>2. feed' \in FeedRecords /\ feed'.phase = "live" /\ feed'.cursor = feed.cursor /\ feed'.row = feed.row
  BY <1>0, <1>1 DEF FeedRecords
<1>3. /\ feed.cursor = feed.row \/ (feed.cursor = GoneMark /\ feed.row = 0 /\ deleted)
      /\ feed.row \in 0..Now /\ feed.row # GoneMark
  BY <1>0, <1>1, <1>ty DEF ReadBack, FeedRecords
<1>4. CASE feed.row = 0
  <2>1. /\ job' = NoJob /\ detail' = FALSE /\ seen' = seen
        /\ follower' = IF detail THEN follower ELSE NoFollower
    BY <1>4 DEF FeedLists
  <2>2. NoJob \in JobRecords /\ NoJob.row = 0 /\ follower' \in FollowerRecords /\ follower'.row <= Now
        /\ (follower'.phase # NoValue => follower' = follower)
    BY <2>1, <1>0, <1>ty, NoJobIs, NoFollowerIs DEF ReadBack
  <2>3. /\ newest' \in 0..GoneMark /\ late' \in BOOLEAN /\ newest <= newest' /\ EndsKept'
        /\ newest' <= Now \/ (newest' = GoneMark /\ deleted)
        /\ ~late' => newest' = feed.cursor /\ (newest' = 0 \/ newest' = GoneMark)
        /\ feed.cursor <= newest'
    <3>1. CASE feed.cursor = GoneMark
      <4>1. Arrives(GoneMark) /\ deleted
        BY <3>1, <1>1, <1>3, <1>0 DEF Lists
      <4> QED BY <3>1, <4>1, GoneKeeps, <1>ty, <1>0
    <3>2. CASE feed.cursor # GoneMark
      <4>1. Lists(0) /\ Arrives(0) /\ feed.cursor = 0
        BY <3>2, <1>1, <1>3, <1>4 DEF Lists
      <4>2. /\ newest' \in 0..GoneMark /\ newest <= newest' /\ 0 <= newest' /\ late' \in BOOLEAN
            /\ newest' <= Now \/ (newest' = GoneMark /\ deleted)
            /\ ~late' => newest' = 0 /\ newest' # GoneMark
        BY <4>1, <1>ty, <1>0, ArriveKeeps
      <4>3. EndsKept'
        <5> SUFFICES ASSUME ~late', newest' # GoneMark PROVE EndsKept'
          BY DEF EndsKept, GoneMark
        <5>1. ~late /\ newest = 0 /\ newest' = 0
          <6>1. late' = (late \/ 0 < newest)
            BY <4>1 DEF Arrives
          <6>2. ~late /\ ~(0 < newest)
            BY <6>1
          <6> QED BY <6>2, <4>2, <1>0
        <5>2. saw' = {}
          BY <4>1 DEF Lists, AtWork
        <5>3. \A r \in Runs : r > Run(0) => told[r] = 0
          BY <5>1, <1>0, <1>ty DEF EndsKept
        <5> QED BY <5>1, <5>2, <5>3, <1>1 DEF EndsKept, Run, Runs
      <4> QED BY <4>1, <4>2, <4>3, <1>0
    <3> QED BY <3>1, <3>2
  <2>4. StoreTyped'
    <3>1. newest' \in (0..GoneMark)' /\ job' \in JobRecords' /\ follower' \in FollowerRecords' /\ feed' \in FeedRecords'
      BY <2>1, <2>2, <2>3, <1>2 DEF GoneMark, FeedRecords, JobRecords, FollowerRecords
    <3>2. tracks' \in TracksRecords' /\ told' \in [Runs -> Nat]'
      BY <1>ty, <1>1 DEF StoreTyped, TracksRecords, Runs
    <3> QED BY <3>1, <3>2, <2>1, <2>3, <1>ty, <1>1 DEF StoreTyped, Now
  <2>5. Recorded'
    BY <1>ty, <1>1, RecordStays
  <2>6. ReadBack'
    BY <1>ty, <1>0, <1>1, <1>2, <2>1, <2>2 DEF ReadBack, Now, GoneMark, NoValue
  <2>7. NewestShown'
    BY <1>0, <1>1, <1>2, <2>1, <2>2, <2>3 DEF NewestShown, Now, GoneMark
  <2>8. RunningFollowed'
    BY <2>1, <2>2 DEF RunningFollowed, Known
  <2> QED BY <2>3, <2>4, <2>5, <2>6, <2>7, <2>8 DEF StoreInv
<1>5. CASE feed.row # 0
  <2>1. PICK n \in 1..Now : n = feed.row /\ feed.cursor = n
    BY <1>0, <1>3, <1>5
  <2>2. /\ job' = [job EXCEPT !.row = n] /\ detail' = detail
        /\ seen' = (IF Terminal(StatusAfter(n)) THEN StatusAfter(n) ELSE seen)
        /\ follower' = IF StatusAfter(n) = "running" /\ follower = NoFollower THEN Following(FALSE) ELSE follower
        /\ Lists(n) /\ Arrives(n)
    BY <1>5, <1>1, <1>3, <2>1 DEF FeedLists, Lists
  <2>3. EndsKept' /\ seen' \in Over \union {NoValue}
    BY <1>ty, <1>1, <2>2, ListKeeps
  <2>4. /\ newest' \in 0..GoneMark /\ newest <= newest' /\ n <= newest' /\ late' \in BOOLEAN
        /\ newest' <= Now \/ (newest' = GoneMark /\ deleted)
        /\ ~late' => newest' = n /\ newest' # GoneMark
    BY <1>ty, <1>0, <2>2, ArriveKeeps
  <2>5. n \in Nat /\ job' \in JobRecords /\ job'.row = n
    BY <1>0, <2>2 DEF JobRecords
  <2>6. /\ follower' \in FollowerRecords /\ follower'.row <= Now
        /\ follower'.phase = "detailed" => follower'.row > 0
        /\ follower'.phase = "gone" => deleted
        /\ StatusAfter(n) = "running" => follower' # NoFollower
    <3>1. PICK f : f \in FollowerRecords /\ f = Following(FALSE) /\ f # NoFollower /\ f.phase = "detail" /\ f.row <= Now
      BY FollowingIs, FollowingReads, <1>ty
    <3>2. CASE follower' = f
      BY ONLY <3>1, <3>2, <1>0
    <3>3. CASE follower' = follower
      BY <3>3, <2>2, <3>1, <1>0, <1>ty DEF ReadBack
    <3> QED BY <2>2, <3>1, <3>2, <3>3
  <2>7. StoreTyped'
    <3>1. newest' \in (0..GoneMark)' /\ job' \in JobRecords' /\ follower' \in FollowerRecords' /\ feed' \in FeedRecords'
      BY <2>4, <2>5, <2>6, <1>2 DEF GoneMark, FeedRecords, JobRecords, FollowerRecords
    <3>2. tracks' \in TracksRecords' /\ told' \in [Runs -> Nat]'
      BY <1>ty, <1>1 DEF StoreTyped, TracksRecords, Runs
    <3> QED BY <3>1, <3>2, <2>2, <2>3, <2>4, <1>ty, <1>1 DEF StoreTyped, Now
  <2>8. Recorded'
    BY <1>ty, <1>1, RecordStays
  <2>9. ReadBack'
    BY <1>ty, <1>0, <1>1, <1>2, <2>5, <2>6 DEF ReadBack, Now, GoneMark, NoValue
  <2>10. NewestShown'
    BY <1>0, <1>1, <1>2, <2>1, <2>4, <2>5 DEF NewestShown, Now, GoneMark
  <2>11. RunningFollowed'
    <3>1. StatusAfter(n)' = StatusAfter(n) /\ job'.row = n
      BY <1>1, <2>5 DEF StatusAfter
    <3>2. StatusAfter(job.row)' = StatusAfter(n)
      BY <3>1 DEF StatusAfter
    <3> QED BY <3>2, <2>6 DEF RunningFollowed
  <2> QED BY <2>3, <2>7, <2>8, <2>9, <2>10, <2>11 DEF StoreInv
<1> QED BY <1>4, <1>5

LEMMA FeedTellsKeeps == ASSUME DesktopAssumption, StoreInv, FeedTells PROVE StoreInv'
<1>ty. StoreTyped /\ Recorded /\ ReadBack /\ NewestShown /\ RunningFollowed /\ EndsKept
  BY DEF StoreInv
<1>0. feed \in FeedRecords /\ Now \in Nat /\ submit \in {NoValue, "sent", "done"} /\ GoneMark \in Nat
  BY <1>ty DEF StoreTyped, DesktopAssumption, Now, GoneMark
<1>1. feed' = [feed EXCEPT !.phase = "live", !.cursor = feed.id] /\ UNCHANGED <<story, events, deleted, submit, tracks>>
  BY DEF FeedTells
<1>2. feed' \in FeedRecords /\ feed'.phase = "live" /\ feed'.cursor = feed.id /\ feed'.row = feed.row
  <2>1. PICK m : m = [feed EXCEPT !.phase = "live"]
    OBVIOUS
  <2>2. m \in FeedRecords /\ m.row = feed.row /\ m.id = feed.id /\ m.phase = "live"
    BY <2>1, <1>0 DEF FeedRecords
  <2>3. feed' = [m EXCEPT !.cursor = feed.id] /\ feed.id \in 0..GoneMark
    BY <2>1, <1>1, <1>0 DEF FeedRecords
  <2> QED BY <2>2, <2>3 DEF FeedRecords
<1>3. CASE feed.phase = "upserted" /\ Upsert(feed.row) /\ UNCHANGED detail
  <2>1. PICK n \in 1..Now : n = feed.row /\ feed.id = n
    BY <1>3, <1>0, <1>ty DEF ReadBack, FeedRecords
  <2> QED BY <1>0, <1>1, <1>2, <1>3, <2>1, UpsertKeeps
<1>4. CASE feed.phase = "deleted" /\ Known /\ DropJob
  <2>1. deleted
    BY <1>4, <1>ty DEF ReadBack
  <2> QED BY <1>1, <1>2, <1>4, <2>1, DropKeeps
<1>5. CASE feed.phase = "deleted" /\ ~Known /\ Posts(GoneMark) /\ UNCHANGED <<job, seen, detail, follower, told>>
  <2>1. deleted /\ feed.id = GoneMark /\ Arrives(GoneMark) /\ job.row = 0
    BY <1>5, <1>ty DEF ReadBack, Posts, Known
  <2>2. newest' = GoneMark /\ late' \in BOOLEAN /\ GoneMark \in Nat /\ EndsKept'
    BY <2>1, <1>ty, GoneKeeps
  <2>3. StoreTyped'
    <3>1. newest' \in (0..GoneMark)' /\ job' \in JobRecords' /\ follower' \in FollowerRecords' /\ feed' \in FeedRecords'
      BY <1>ty, <1>5, <2>2, <1>2 DEF StoreTyped, GoneMark, FeedRecords, JobRecords, FollowerRecords
    <3>2. tracks' \in TracksRecords' /\ told' \in [Runs -> Nat]'
      BY <1>ty, <1>1, <1>5 DEF StoreTyped, TracksRecords, Runs
    <3> QED BY <3>1, <3>2, <2>2, <1>5, <1>ty, <1>1 DEF StoreTyped, Now
  <2>4. Recorded'
    BY <1>ty, <1>1, RecordStays
  <2>5. ReadBack'
    BY <1>ty, <1>1, <1>2, <1>5 DEF ReadBack, Now, GoneMark
  <2>6. NewestShown' /\ RunningFollowed'
    BY <1>1, <1>2, <1>5, <2>1, <2>2 DEF NewestShown, RunningFollowed, Known, GoneMark, Now
  <2> QED BY <2>2, <2>3, <2>4, <2>5, <2>6 DEF StoreInv
<1> QED BY <1>3, <1>4, <1>5 DEF FeedTells

LEMMA SubmitTellsKeeps == ASSUME DesktopAssumption, StoreInv, SubmitTells PROVE StoreInv'
<1>ty. StoreTyped /\ Recorded /\ ReadBack
  BY DEF StoreInv
<1>1. submit = "sent" /\ submit' = "done" /\ Upsert(1) /\ UNCHANGED <<story, events, deleted, feed, tracks, detail>>
  BY DEF SubmitTells
<1>2. 1 \in 1..Now /\ events[1] = "queued"
  BY <1>1, <1>ty DEF ReadBack, Recorded, StoreTyped, Now
<1>3. StatusAfter(1) # "running"
  BY <1>2 DEF StatusAfter
<1> QED BY <1>1, <1>2, <1>3, UpsertKeeps

LEMMA FollowerDetailsKeeps == ASSUME DesktopAssumption, StoreInv, FollowerDetails PROVE StoreInv'
<1>ty. StoreTyped /\ ReadBack
  BY DEF StoreInv
<1>0. follower \in FollowerRecords /\ Now \in Nat /\ detail \in BOOLEAN /\ tracks \in TracksRecords
  BY <1>ty DEF StoreTyped, Now
<1>1. /\ follower.phase = "detailed" /\ ApplyDetail(follower.row) /\ detail' = detail
      /\ UNCHANGED <<story, events, deleted, feed, submit, tracks>>
  BY DEF FollowerDetails, Goes
<1>2. PICK n \in 1..Now : n = follower.row
  BY <1>1, <1>0, <1>ty DEF ReadBack, FollowerRecords
<1>3. \/ follower' = NoFollower /\ StatusAfter(n) # "running"
      \/ follower' = [follower EXCEPT !.phase = "stream", !.at = 0, !.first = FALSE]
      \/ follower' = [follower EXCEPT !.phase = "ended"]
      \/ follower' = [follower EXCEPT !.phase = "stream", !.at = follower.row, !.first = FALSE]
  BY <1>2 DEF FollowerDetails, Goes
<1>4. ASSUME NEW k \in Nat PROVE
      LET f == [follower EXCEPT !.phase = "stream", !.at = k, !.first = FALSE] IN
      f \in FollowerRecords /\ f.row = n /\ f.phase = "stream"
  <2>1. PICK f : f = [follower EXCEPT !.phase = "stream"]
    OBVIOUS
  <2>2. PICK g : g = [f EXCEPT !.at = k]
    OBVIOUS
  <2>3. f \in FollowerRecords /\ f.row = n /\ f.phase = "stream"
    BY <2>1, <1>0, <1>2 DEF FollowerRecords
  <2>4. g \in FollowerRecords /\ g.row = n /\ g.phase = "stream"
    BY <2>2, <2>3 DEF FollowerRecords
  <2>5. [follower EXCEPT !.phase = "stream", !.at = k, !.first = FALSE] = [g EXCEPT !.first = FALSE]
    BY <2>1, <2>2, <1>0 DEF FollowerRecords
  <2> QED BY <2>4, <2>5 DEF FollowerRecords
<1>5. /\ follower' \in FollowerRecords /\ follower'.row <= Now /\ follower'.phase \notin {"detailed", "gone"}
      /\ follower' = NoFollower => StatusAfter(n) # "running"
  <2>1. CASE follower' = NoFollower /\ StatusAfter(n) # "running"
    BY <2>1, <1>0, NoFollowerIs DEF NoValue
  <2>2. CASE follower' = [follower EXCEPT !.phase = "ended"]
    <3>1. follower' \in FollowerRecords /\ follower'.row = n /\ follower'.phase = "ended"
      BY <2>2, <1>0, <1>2 DEF FollowerRecords
    <3> QED BY <3>1, NoFollowerIs, <1>0 DEF NoValue
  <2>3. CASE follower' = [follower EXCEPT !.phase = "stream", !.at = 0, !.first = FALSE]
    <3>1. follower' \in FollowerRecords /\ follower'.row = n /\ follower'.phase = "stream"
      BY <2>3, <1>4
    <3> QED BY <3>1, NoFollowerIs, <1>0 DEF NoValue
  <2>4. CASE follower' = [follower EXCEPT !.phase = "stream", !.at = follower.row, !.first = FALSE]
    <3>1. follower' \in FollowerRecords /\ follower'.row = n /\ follower'.phase = "stream"
      <4>1. n \in Nat /\ follower' = [follower EXCEPT !.phase = "stream", !.at = n, !.first = FALSE]
        BY <2>4, <1>0, <1>2
      <4> QED BY <4>1, <1>4
    <3> QED BY <3>1, NoFollowerIs, <1>0 DEF NoValue
  <2> QED BY <1>3, <2>1, <2>2, <2>3, <2>4
<1>6. tracks' \in TracksRecords /\ tracks'.row <= Now /\ (tracks'.phase = "read" => tracks'.row > 0)
  BY <1>0, <1>1, <1>ty DEF ReadBack
<1> QED BY <1>0, <1>1, <1>2, <1>5, <1>6, DetailKeeps

LEMMA TracksToldKeeps == ASSUME DesktopAssumption, StoreInv, TracksTold PROVE StoreInv'
<1>ty. StoreTyped /\ ReadBack
  BY DEF StoreInv
<1>0. follower \in FollowerRecords /\ Now \in Nat /\ detail \in BOOLEAN /\ tracks \in TracksRecords
  BY <1>ty DEF StoreTyped, Now
<1>1. /\ tracks.phase = "read" /\ tracks' = [tracks EXCEPT !.phase = "done"]
      /\ UNCHANGED <<story, events, deleted, feed, submit, detail, follower>>
      /\ IF Known THEN ApplyDetail(tracks.row) ELSE UNCHANGED <<job, seen, told, saw, newest, late>>
  BY DEF TracksTold
<1>2. PICK n \in 1..Now : n = tracks.row
  BY <1>1, <1>0, <1>ty DEF ReadBack, TracksRecords
<1>3. tracks' \in TracksRecords /\ tracks'.row = n /\ tracks'.phase = "done"
  BY <1>0, <1>1, <1>2 DEF TracksRecords
<1>5. CASE Known
  BY <1>0, <1>1, <1>2, <1>3, <1>5, <1>ty, DetailKeeps DEF ReadBack
<1>6. CASE ~Known
  <2>1. UNCHANGED Told
    BY <1>1, <1>6 DEF Told
  <2>2. ReadBack'
    BY <1>ty, <1>0, <1>1, <1>2, <1>3, <2>1 DEF ReadBack, Told, Now, GoneMark
  <2> QED BY <1>ty, <1>1, <1>3, <2>1, <2>2, QuietKeeps DEF StoreTyped
<1> QED BY <1>5, <1>6

\* An event moves the row on, or is only logged.
LEMMA FollowerEventKeeps == ASSUME DesktopAssumption, StoreInv, FollowerEvent PROVE StoreInv'
<1>ty. StoreTyped /\ Recorded /\ ReadBack /\ NewestShown /\ RunningFollowed /\ EndsKept
  BY DEF StoreInv
<1>0. /\ job \in JobRecords /\ follower \in FollowerRecords /\ feed \in FeedRecords /\ MaxEvents \in Nat /\ Now \in Nat
      /\ newest \in 0..GoneMark /\ events \in Seq(Lifecycle) /\ tracks \in TracksRecords /\ detail \in BOOLEAN
  BY <1>ty DEF StoreTyped, Now, DesktopAssumption
<1>1. PICK n : n = follower.at + 1
  OBVIOUS
<1>2. /\ follower.phase = "stream" /\ n \in 1..Now /\ n \in Nat
      /\ follower' = [follower EXCEPT !.at = n]
      /\ UNCHANGED <<story, events, deleted, submit, feed, tracks, detail>>
  BY <1>0, <1>1 DEF FollowerEvent, Goes, FollowerRecords
<1>3. follower' \in FollowerRecords /\ follower'.row = follower.row /\ follower'.phase = "stream" /\ follower' # NoFollower
  BY <1>0, <1>2, NoFollowerIs DEF FollowerRecords, NoValue
<1>4. PICK logged : logged = [job EXCEPT !.activity = Append(@, n)]
  OBVIOUS
<1>5. logged \in JobRecords /\ logged.row = job.row
  <2>1. Append(job.activity, n) \in Seq(Nat)
    BY <1>0, <1>2 DEF JobRecords
  <2> QED BY <2>1, <1>0, <1>4 DEF JobRecords
<1>6. \/ UNCHANGED <<job, seen, told, saw, newest, late>>
      \/ job' = logged /\ UNCHANGED <<seen, told, saw, newest, late>>
      \/ job' = [logged EXCEPT !.row = n] /\ NoteStatus(n) /\ Posts(n)
  BY <1>1, <1>4 DEF FollowerEvent, Goes
<1>7. ASSUME job' \in JobRecords, job'.row = job.row, UNCHANGED <<seen, told, saw, newest, late>> PROVE StoreInv'
  <2>1. StoreTyped'
    BY <1>ty, <1>2, <1>3, <1>7 DEF StoreTyped, GoneMark, Runs, FeedRecords, JobRecords, FollowerRecords, TracksRecords, Now
  <2>2. Recorded' /\ EndsKept'
    BY <1>ty, <1>2, <1>7, RecordStays, EndsStay DEF News
  <2>3. ReadBack'
    BY <1>ty, <1>2, <1>3, <1>7 DEF ReadBack, Now, GoneMark, NoValue
  <2>4. NewestShown'
    BY <1>ty, <1>2, <1>7 DEF NewestShown, Now, GoneMark
  <2>5. RunningFollowed'
    BY <1>3 DEF RunningFollowed
  <2> QED BY <2>1, <2>2, <2>3, <2>4, <2>5 DEF StoreInv
<1>8. ASSUME job' = [logged EXCEPT !.row = n], NoteStatus(n), Posts(n) PROVE StoreInv'
  <2>1. job' \in JobRecords /\ job'.row = n
    BY <1>2, <1>5, <1>8 DEF JobRecords
  <2>2. EndsKept' /\ seen' \in Over \union {NoValue} /\ told' \in [Runs -> Nat]
    BY <1>ty, <1>2, <1>8, NewsKeeps
  <2>3. /\ newest' \in 0..GoneMark /\ newest <= newest' /\ n <= newest' /\ late' \in BOOLEAN
        /\ newest' <= Now \/ (newest' = GoneMark /\ deleted)
        /\ ~late' => newest' = n /\ newest' # GoneMark
    BY <1>ty, <1>0, <1>2, <1>8, ArriveKeeps DEF Posts
  <2>4. StoreTyped'
    <3>1. newest' \in (0..GoneMark)' /\ job' \in JobRecords' /\ follower' \in FollowerRecords' /\ feed' \in FeedRecords'
      BY <2>1, <2>3, <1>0, <1>2, <1>3 DEF GoneMark, FeedRecords, JobRecords, FollowerRecords
    <3>2. tracks' \in TracksRecords' /\ told' \in [Runs -> Nat]'
      BY <1>0, <1>2, <2>2 DEF TracksRecords, Runs
    <3> QED BY <3>1, <3>2, <2>2, <2>3, <1>ty, <1>2 DEF StoreTyped, Now
  <2>5. Recorded'
    BY <1>ty, <1>2, RecordStays
  <2>6. ReadBack'
    BY <1>ty, <1>0, <1>2, <1>3, <2>1 DEF ReadBack, Now, GoneMark, NoValue
  <2>7. NewestShown'
    <3>1. feed.cursor \in Nat
      BY <1>0 DEF FeedRecords, GoneMark
    <3> QED BY <3>1, <1>ty, <1>0, <1>2, <2>1, <2>3 DEF NewestShown, Now, GoneMark
  <2>8. RunningFollowed'
    BY <1>3 DEF RunningFollowed
  <2> QED BY <2>2, <2>4, <2>5, <2>6, <2>7, <2>8 DEF StoreInv
<1>9. CASE UNCHANGED <<job, seen, told, saw, newest, late>>
  BY <1>0, <1>7, <1>9
<1>10. CASE job' = logged /\ UNCHANGED <<seen, told, saw, newest, late>>
  BY <1>5, <1>7, <1>10
<1> QED BY <1>6, <1>8, <1>9, <1>10

LEMMA FollowerLeavesKeeps == ASSUME DesktopAssumption, StoreInv, FollowerLeaves PROVE StoreInv'
<1>ty. StoreTyped /\ ReadBack
  BY DEF StoreInv
<1>0. follower \in FollowerRecords /\ Now \in Nat /\ job \in JobRecords
  BY <1>ty DEF StoreTyped, Now
<1>1. /\ follower.phase \in {"gone", "ended"}
      /\ UNCHANGED <<story, events, deleted, feed, submit, tracks>>
  BY DEF FollowerLeaves
<1>2. CASE follower.phase = "gone" /\ Known
  <2>1. DropJob /\ deleted
    BY <1>2, <1>ty DEF FollowerLeaves, ReadBack
  <2> QED BY <1>1, <2>1, DropKeeps
<1>3. CASE ~(follower.phase = "gone" /\ Known)
  <2>1. follower' = (IF RunsAgain THEN Following(FALSE) ELSE NoFollower) /\ UNCHANGED <<job, seen, detail, told, saw, newest, late>>
    BY <1>3 DEF FollowerLeaves
  <2>2. UNCHANGED Told /\ UNCHANGED <<tracks, feed, detail>>
    BY <1>1, <2>1 DEF Told
  <2>3. /\ follower' \in FollowerRecords /\ follower'.row <= Now /\ follower'.phase \notin {"detailed", "gone"}
        /\ follower' = NoFollower => follower = NoFollower \/ ~Known \/ StatusAfter(job.row) # "running"
    <3>1. CASE RunsAgain
      <4>1. PICK f : f \in FollowerRecords /\ f = Following(FALSE) /\ f # NoFollower /\ f.phase = "detail" /\ f.row <= Now
        BY FollowingIs, FollowingReads, <1>ty
      <4>2. follower' = f
        BY <2>1, <3>1, <4>1
      <4> QED BY ONLY <4>1, <4>2
    <3>2. CASE ~RunsAgain
      <4>1. follower' = NoFollower
        BY <2>1, <3>2
      <4>2. ~Known \/ StatusAfter(job.row) # "running"
        BY <3>2, <1>1, <1>3 DEF RunsAgain
      <4> QED BY <4>1, <4>2, <1>0, NoFollowerIs DEF NoValue
    <3> QED BY <3>1, <3>2
  <2>4. Now > 0
    BY <1>1, <1>ty DEF ReadBack, NoValue
  <2>5. ReadBack'
    BY <1>ty, <1>0, <2>2, <2>3, <2>4 DEF ReadBack, Told, Now, GoneMark
  <2> QED BY <1>ty, <2>2, <2>3, <2>5, QuietKeeps DEF StoreTyped
<1> QED BY <1>2, <1>3

LEMMA StoreInvStep == DesktopAssumption /\ StoreInv /\ [DesktopNext]_desktopVars => StoreInv'
<1> SUFFICES ASSUME DesktopAssumption, StoreInv, [DesktopNext]_desktopVars PROVE StoreInv'
  OBVIOUS
<1>1. CASE FeedNext
  BY <1>1, FeedReadsKeeps, FeedListsKeeps, FeedSendsKeeps, FeedTellsKeeps, FeedCutKeeps, SubmitTellsKeeps DEF FeedNext
<1>2. CASE FollowerNext
  BY <1>2, FollowerReadsKeeps, FollowerDetailsKeeps, FollowerEventKeeps, FollowerEndsKeeps, FollowerLeavesKeeps
     DEF FollowerNext
<1>3. CASE UserNext
  BY <1>3, TracksAskedKeeps, TracksToldKeeps, ScreenKeeps DEF UserNext
<1>4. CASE UNCHANGED desktopVars
  <2>1. UNCHANGED Told /\ UNCHANGED <<tracks, feed, detail, follower>>
    BY <1>4 DEF desktopVars, Told
  <2>2. StoreTyped /\ ReadBack
    BY DEF StoreInv
  <2>3. ReadBack'
    BY <2>1, <2>2 DEF ReadBack, Told, Now, GoneMark
  <2> QED BY <2>1, <2>2, <2>3, QuietKeeps DEF StoreTyped
<1> QED BY <1>1, <1>2, <1>3, <1>4, BackendKeeps DEF DesktopNext

LEMMA StoreInvHolds == DesktopAssumption /\ StoreInv => StoreHolds
<1> SUFFICES ASSUME DesktopAssumption, StoreInv PROVE StoreHolds
  OBVIOUS
<1>ty. StoreTyped /\ Recorded /\ ReadBack /\ NewestShown /\ RunningFollowed /\ EndsKept
  BY DEF StoreInv
<1>0. Now \in 0..MaxEvents /\ newest \in 0..GoneMark /\ GoneMark = MaxEvents + 1 /\ MaxEvents \in Nat
      /\ job \in JobRecords /\ events \in Seq(Lifecycle)
  BY <1>ty DEF StoreTyped, Now, GoneMark, DesktopAssumption
<1>1. ASSUME AllPosted, ~late
      PROVE  newest = (IF deleted THEN GoneMark ELSE Now) /\ job.row = (IF deleted THEN 0 ELSE Now)
  <2>1. feed.phase = "live" /\ feed.cursor = (IF deleted THEN GoneMark ELSE Now) /\ feed.cursor <= newest
    BY <1>1, <1>ty DEF AllPosted, NewestShown
  <2>2. newest = (IF deleted THEN GoneMark ELSE Now)
    BY <2>1, <1>0, <1>ty DEF NewestShown
  <2> QED BY <2>2, <1>0, <1>1, <1>ty DEF NewestShown
<1>2. StoreSettles
  <2> SUFFICES ASSUME AllPosted, ~late, Known, StatusAfter(job.row) = "running" PROVE follower # NoFollower
    BY <1>1 DEF StoreSettles
  <2>1. ~deleted /\ job.row = Now /\ feed.cursor = Now /\ feed.phase = "live"
    BY <1>1 DEF Known, AllPosted
  <2> QED BY <2>1, <1>0, <1>ty DEF RunningFollowed
<1>3. EndsAreTold
  <2> SUFFICES ASSUME AllPosted, ~late, ~deleted, Now > 0, StatusAfter(Now) \in {"completed", "failed"}, Run(Now) \in saw
               PROVE  told[Run(Now)] = 1
    BY DEF EndsAreTold
  <2>1. PICK n \in Nat : n = Now /\ newest = n /\ newest # GoneMark /\ n > 0
    BY <1>0, <1>1
  <2>2. Terminal(StatusAfter(n)) /\ StatusAfter(n) # "cancelled"
    BY <2>1 DEF Terminal, Over
  <2> QED BY <2>1, <2>2, <1>ty DEF EndsKept
<1> QED BY <1>2, <1>3 DEF StoreHolds

\* Whatever is submitted, retried and deleted, wherever, and in whichever order
\* the feed, the follower, the answers and the reads post what they found: the
\* download shown settles on the backend's, is followed while it runs, and its
\* ends are told once (jobs.go, upsert, applyDetail, applyEvent, noteStatus).
THEOREM StoreStands == DesktopSpec => []StoreHolds
<1>1. StoreInv /\ [DesktopNext]_desktopVars => StoreInv'
  BY DesktopAssumption, StoreInvStep
<1>2. DesktopInit => StoreInv
  BY DesktopAssumption, StoreInvInit
<1>3. StoreInv => StoreHolds
  BY DesktopAssumption, StoreInvHolds
<1> QED BY <1>1, <1>2, <1>3, PTL DEF DesktopSpec

=============================================================================
