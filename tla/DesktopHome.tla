----------------------------- MODULE DesktopHome -----------------------------
(* Home of the desktop app: the field's links and their previews, the catalog *)
(* search for its words, the artist opened from a hit and the album screen    *)
(* (apps/desktop/internal/store: omni.go, search.go, album.go). All state is  *)
(* read and changed on the UI thread; timers and requests end on goroutines   *)
(* of their own, in any order, and post their answers there. An answer counts *)
(* only for the connection, and mostly for the generation, it was asked under.*)
EXTENDS Naturals, FiniteSets, Sequences, SequencesExt

CONSTANTS
    Texts,      \* what the field may hold; Blank is one of them
    Blank,
    LinksIn,    \* LinksIn[t]: the Apple Music links in t
    TermOf,     \* TermOf[t]: the words of a text without links
    NoTerm,     \* the term of a text to search nothing for
    Groups,     \* the groups of hits
    Artists,
    Albums,
    CatalogPages,      \* the pages of every list in the catalog
    CacheMax,   \* searchCacheMax
    Screens     \* what a user does, and how often: sets of acts and bounds

ASSUME HomeAssumption ==
    /\ Blank \in Texts
    /\ LinksIn \in [Texts -> SUBSET UNION {LinksIn[t] : t \in Texts}]
    /\ LinksIn[Blank] = {} /\ TermOf[Blank] = NoTerm
    /\ CatalogPages \in Nat \ {0} /\ CacheMax \in Nat \ {0}

VARIABLES
    screen,     \* the member of Screens this behaviour follows
    acts,       \* what the user did so far
    conn,       \* the connections made so far: the backend the store follows
    online,     \* it has a client
    omni,       \* Omnibox
    cards,      \* the Link of every link in Omnibox.cache, or "none"
    running,    \* the links whose download is queued or running
    q,          \* Search
    artist,     \* Search.Artist
    album,      \* Search.Album
    air         \* timers and requests that have not posted yet

homeVars == <<screen, acts, conn, online, omni, cards, running, q, artist, album, air>>

Links == UNION {LinksIn[t] : t \in Texts}
Nil == "none"

\* A kept answer: what it answers, the backend that gave it, and the pages read.
Answer(of, pages) == [of |-> of, from |-> conn, pages |-> pages]
FirstPages == [g \in Groups |-> <<1>>]
Nothing == [of |-> Nil, from |-> 0, pages |-> <<>>]
NotPaging == [g \in Groups |-> "idle"]

NewOmni == [text |-> Blank, links |-> {}, submitting |-> FALSE, gen |-> 0]
NewSearch == [want |-> NoTerm, gen |-> 0, term |-> NoTerm, status |-> "idle", shown |-> Nothing,
              stale |-> FALSE, more |-> NotPaging, cache |-> <<>>]
NewArtist == [id |-> Nil, gen |-> 0, status |-> "idle", shown |-> Nothing, more |-> "idle",
              cache |-> <<>>]
NewAlbum == [id |-> Nil, gen |-> 0, status |-> "idle", shown |-> Nothing, cache |-> <<>>]

HomeInit ==
    /\ screen \in Screens /\ acts = 0
    /\ conn = 1 /\ online = TRUE
    /\ omni = NewOmni /\ cards = [l \in Links |-> Nil] /\ running = {}
    /\ q = NewSearch /\ artist = NewArtist /\ album = NewAlbum
    /\ air = {}

Kinds == {"typedLinks", "typedTerm", "lookup", "submit", "search", "more", "artist",
          "artistMore", "album"}
HomeTypeOK ==
    /\ screen \in Screens /\ acts \in 0..screen.acts /\ conn \in Nat /\ online \in BOOLEAN
    /\ omni.text \in Texts /\ omni.links \subseteq Links
    /\ cards \in [Links -> {Nil, "pending", "ready", "unsupported", "failed"}]
    /\ running \subseteq Links
    /\ \A x \in {q, artist, album} : x.status \in {"idle", "loading", "ready", "failed"}
    /\ \A x \in air : x.kind \in Kinds /\ x.conn <= conn

\* A request or timer under way on the present connection.
Sent(kind, gen, of) ==
    [kind |-> kind, conn |-> conn, gen |-> gen, of |-> of, links |-> {}, group |-> Nil, page |-> 1]
SentLinks(kind, gen, links) == [Sent(kind, gen, Nil) EXCEPT !.links = links]
SentMore(kind, gen, of, g, n) == [Sent(kind, gen, of) EXCEPT !.group = g, !.page = n]

-----------------------------------------------------------------------------
\* Mutant: the generation of an answer is not looked at.
CurrentAny(x, gen) == TRUE

\* What an answer was asked under is still what the screen waits for.
Current(x, gen) == x.gen = gen

\* The cache of recent answers: the newest last, the oldest dropped first.
Holds(cache, k) == \E i \in 1..Len(cache) : cache[i].of = k
Place(cache, k) == CHOOSE i \in 1..Len(cache) : cache[i].of = k
Kept(cache, k) == cache[Place(cache, k)]
Touch(cache, v) ==
    LET rest == IF Holds(cache, v.of) THEN RemoveAt(cache, Place(cache, v.of)) ELSE cache
        all == Append(rest, v) IN
    IF Len(all) > CacheMax THEN Tail(all) ELSE all

\* A page after those shown; an id shown already is not added again.
AppendPage(pages, n) == IF Contains(pages, n) THEN pages ELSE Append(pages, n)
More(pages) == Len(pages) < CatalogPages

-----------------------------------------------------------------------------
Act(name) ==
    /\ name \in screen.does /\ acts < screen.acts
    /\ acts' = acts + 1 /\ UNCHANGED screen

\* Connect: everything known about the previous backend is dropped.
Connect ==
    /\ Act("connect")
    /\ conn' = conn + 1
    /\ online' \in BOOLEAN
    /\ omni' = NewOmni /\ cards' = [l \in Links |-> Nil] /\ running' = {}
    /\ q' = NewSearch /\ artist' = NewArtist /\ album' = NewAlbum
    /\ UNCHANGED air

\* SetOmniText: links seen for the first time are looked up once typing pauses.
Fresh(t) == {l \in LinksIn[t] : cards[l] = Nil}
SetOmniText(t) ==
    /\ Act("type") /\ t # omni.text
    /\ cards' = [l \in Links |-> IF l \in Fresh(t) THEN "pending" ELSE cards[l]]
    /\ IF Fresh(t) # {} /\ online
       THEN /\ omni' = [omni EXCEPT !.text = t, !.links = LinksIn[t], !.gen = @ + 1]
            /\ air' = air \union {SentLinks("typedLinks", omni'.gen, Fresh(t))}
       ELSE /\ omni' = [omni EXCEPT !.text = t, !.links = LinksIn[t]]
            /\ UNCHANGED air
    /\ UNCHANGED <<conn, online, running, q, artist, album>>

\* Typing paused: the links of that text are looked up, unless it changed since.
LooksUp(x) ==
    /\ air' = (air \ {x}) \union
              (IF Current(x, omni.gen)
               THEN {Sent("lookup", 0, l) : l \in {k \in x.links : cards[k] = "pending"}}
               ELSE {})
    /\ UNCHANGED <<conn, online, omni, cards, running, q, artist, album>>

ApplyLookup(x) ==
    /\ air' = air \ {x}
    /\ \E state \in {"ready", "unsupported", "failed"} : cards' = [cards EXCEPT ![x.of] = state]
    /\ UNCHANGED <<conn, online, omni, running, q, artist, album>>

\* SubmitLinks starts the links shown, previewed and not running already.
Startable == {l \in omni.links : cards[l] = "ready"} \ running
SubmitLinks ==
    /\ Act("submit") /\ Startable # {} /\ online /\ ~omni.submitting
    /\ omni' = [omni EXCEPT !.submitting = TRUE]
    /\ air' = air \union {SentLinks("submit", 0, Startable)}
    /\ UNCHANGED <<conn, online, cards, running, q, artist, album>>

\* Its outcome: all accepted clears the field, a refusal or an error keeps it.
ApplySubmit(x) ==
    /\ air' = air \ {x}
    /\ \E accepted \in SUBSET x.links :
         /\ running' = running \union accepted
         /\ omni' = IF accepted = x.links
                    THEN [omni EXCEPT !.submitting = FALSE, !.text = Blank, !.links = {}]
                    ELSE [omni EXCEPT !.submitting = FALSE]
    /\ UNCHANGED <<conn, online, cards, q, artist, album>>

-----------------------------------------------------------------------------
\* OpenArtist(""): back to the hits.
CloseArtist ==
    artist' = [NewArtist EXCEPT !.gen = artist.gen + 1, !.cache = artist.cache]

Term == IF omni.links # {} THEN NoTerm ELSE TermOf[omni.text]

\* A new term: a new generation, without further pages.
Asked(term) == [q EXCEPT !.want = term, !.gen = @ + 1, !.term = term, !.more = NotPaging]

\* WantSearch, which the screen calls every frame with the words of the field.
WantSearch ==
    /\ Term # q.want
    /\ CloseArtist
    /\ LET asked == Asked(Term) IN
       \/ /\ Term = NoTerm
          /\ q' = [asked EXCEPT !.status = "idle", !.shown = Nothing, !.stale = FALSE]
          /\ UNCHANGED air
       \/ /\ Term # NoTerm /\ Holds(q.cache, Term)
          /\ q' = [asked EXCEPT !.status = "ready", !.shown = Kept(q.cache, Term),
                                !.stale = FALSE, !.cache = Touch(@, Kept(@, Term))]
          /\ UNCHANGED air
       \/ /\ Term # NoTerm /\ ~Holds(q.cache, Term) /\ ~online
          /\ q' = [asked EXCEPT !.status = "failed", !.shown = Nothing, !.stale = FALSE]
          /\ UNCHANGED air
       \/ /\ Term # NoTerm /\ ~Holds(q.cache, Term) /\ online
          /\ q' = [asked EXCEPT !.status = "loading", !.stale = q.shown # Nothing]
          /\ air' = air \union {Sent("typedTerm", q'.gen, Term)}
    /\ UNCHANGED <<screen, acts, conn, online, omni, cards, running, album>>

\* startSearch, of a client the store has.
Searching(s, term) == [s EXCEPT !.term = term, !.status = "loading", !.stale = s.shown # Nothing,
                               !.more = NotPaging]
StartsSearch(x) ==
    /\ IF Current(x, q.gen)
       THEN /\ q' = Searching(q, x.of)
            /\ air' = (air \ {x}) \union {Sent("search", q.gen, x.of)}
       ELSE air' = air \ {x} /\ UNCHANGED q
    /\ UNCHANGED <<conn, online, omni, cards, running, artist, album>>

RetrySearch ==
    /\ Act("retry") /\ q.status = "failed" /\ q.term # NoTerm
    /\ IF online
       THEN /\ q' = Searching([q EXCEPT !.gen = @ + 1], q.term)
            /\ air' = air \union {Sent("search", q'.gen, q.term)}
       ELSE /\ q' = [q EXCEPT !.gen = @ + 1, !.stale = FALSE, !.more = NotPaging]
            /\ UNCHANGED air
    /\ UNCHANGED <<conn, online, omni, cards, running, artist, album>>

ApplySearch(x) ==
    /\ air' = air \ {x}
    /\ IF ~Current(x, q.gen)
       THEN UNCHANGED q
       ELSE LET got == Answer(x.of, FirstPages) IN
            \/ q' = [q EXCEPT !.status = "ready", !.shown = got, !.stale = FALSE,
                              !.cache = Touch(@, got)]
            \/ q' = [q EXCEPT !.status = "failed", !.shown = Nothing, !.stale = FALSE]
    /\ UNCHANGED <<conn, online, omni, cards, running, artist, album>>

\* MoreSearch: the page after those of group g.
MoreSearch(g) ==
    /\ Act("more") /\ q.status = "ready" /\ q.more[g] # "loading"
    /\ More(q.shown.pages[g]) /\ online
    /\ q' = [q EXCEPT !.more[g] = "loading"]
    /\ air' = air \union {SentMore("more", q.gen, q.term, g, Len(q.shown.pages[g]) + 1)}
    /\ UNCHANGED <<conn, online, omni, cards, running, artist, album>>

ApplyMore(x) ==
    LET g == x.group
        merged == [q.shown EXCEPT !.of = x.of, !.pages[g] = AppendPage(@, x.page)] IN
    /\ air' = air \ {x}
    /\ IF ~Current(x, q.gen) \/ q.shown = Nothing
       THEN UNCHANGED q
       ELSE \/ q' = [q EXCEPT !.more[g] = "failed"]
            \/ q' = [q EXCEPT !.more[g] = "idle", !.shown = merged, !.cache = Touch(@, merged)]
    /\ UNCHANGED <<conn, online, omni, cards, running, artist, album>>

-----------------------------------------------------------------------------
\* The first page of the artist opened at a generation.
FirstPage(gen, id) ==
    /\ artist' = [artist EXCEPT !.gen = gen, !.id = id, !.shown = Nothing, !.more = "idle",
                                !.status = IF online THEN "loading" ELSE "failed"]
    /\ air' = IF online THEN air \union {Sent("artist", gen, id)} ELSE air

OpenArtist(id) ==
    /\ Act("artist") /\ ~(id = artist.id /\ artist.status # "idle")
    /\ IF Holds(artist.cache, id)
       THEN /\ artist' = [artist EXCEPT !.gen = @ + 1, !.id = id, !.status = "ready",
                                        !.shown = Kept(artist.cache, id), !.more = "idle",
                                        !.cache = Touch(@, Kept(@, id))]
            /\ UNCHANGED air
       ELSE FirstPage(artist.gen + 1, id)
    /\ UNCHANGED <<conn, online, omni, cards, running, q, album>>

BackToHits ==
    /\ Act("artist") /\ CloseArtist
    /\ UNCHANGED <<conn, online, omni, cards, running, q, album, air>>

RetryArtist ==
    /\ Act("retry") /\ artist.status = "failed" /\ artist.id # Nil
    /\ FirstPage(artist.gen + 1, artist.id)
    /\ UNCHANGED <<conn, online, omni, cards, running, q, album>>

MoreArtist ==
    /\ Act("more") /\ artist.status = "ready" /\ More(artist.shown.pages)
    /\ artist.more # "loading" /\ online
    /\ artist' = [artist EXCEPT !.more = "loading"]
    /\ air' = air \union
              {SentMore("artistMore", artist.gen, artist.id, Nil, Len(artist.shown.pages) + 1)}
    /\ UNCHANGED <<conn, online, omni, cards, running, q, album>>

ApplyArtist(x) ==
    LET more == x.kind = "artistMore" IN
    /\ air' = air \ {x}
    /\ IF ~Current(x, artist.gen) \/ x.of # artist.id
       THEN UNCHANGED artist
       ELSE \/ artist' = IF more THEN [artist EXCEPT !.more = "failed"]
                         ELSE [artist EXCEPT !.status = "failed"]
            \/ LET got == Answer(x.of, IF more THEN AppendPage(artist.shown.pages, x.page)
                                       ELSE <<1>>) IN
               artist' = [artist EXCEPT !.status = "ready", !.shown = got,
                                        !.more = IF more THEN "idle" ELSE @,
                                        !.cache = Touch(@, got)]
    /\ UNCHANGED <<conn, online, omni, cards, running, q, album>>

-----------------------------------------------------------------------------
\* readAlbum, at a generation.
ReadAlbum(gen, id) ==
    /\ album' = [album EXCEPT !.gen = gen, !.id = id, !.shown = Nothing,
                              !.status = IF online THEN "loading" ELSE "failed"]
    /\ air' = IF online THEN air \union {Sent("album", gen, id)} ELSE air

OpenAlbum(id) ==
    /\ Act("album") /\ ~(id = album.id /\ album.status \notin {"idle", "failed"})
    /\ IF Holds(album.cache, id)
       THEN /\ album' = [album EXCEPT !.gen = @ + 1, !.id = id, !.status = "ready",
                                      !.shown = Kept(album.cache, id),
                                      !.cache = Touch(@, Kept(@, id))]
            /\ UNCHANGED air
       ELSE ReadAlbum(album.gen + 1, id)
    /\ UNCHANGED <<conn, online, omni, cards, running, q, artist>>

RetryAlbum ==
    /\ Act("retry") /\ album.status = "failed" /\ album.id # Nil
    /\ ReadAlbum(album.gen + 1, album.id)
    /\ UNCHANGED <<conn, online, omni, cards, running, q, artist>>

ApplyAlbum(x) ==
    /\ air' = air \ {x}
    /\ IF ~Current(x, album.gen) \/ x.of # album.id
       THEN UNCHANGED album
       ELSE LET got == Answer(x.of, <<1>>) IN
            \/ album' = [album EXCEPT !.status = "failed"]
            \/ album' = [album EXCEPT !.status = "ready", !.shown = got, !.cache = Touch(@, got)]
    /\ UNCHANGED <<conn, online, omni, cards, running, q, artist>>

-----------------------------------------------------------------------------
\* postIf: what a connection that ended asked for is dropped.
Dropped(x) ==
    /\ air' = air \ {x}
    /\ UNCHANGED <<conn, online, omni, cards, running, q, artist, album>>

Takes(x) ==
    CASE x.kind = "typedLinks" -> LooksUp(x)
      [] x.kind = "lookup" -> ApplyLookup(x)
      [] x.kind = "submit" -> ApplySubmit(x)
      [] x.kind = "typedTerm" -> StartsSearch(x)
      [] x.kind = "search" -> ApplySearch(x)
      [] x.kind = "more" -> ApplyMore(x)
      [] x.kind \in {"artist", "artistMore"} -> ApplyArtist(x)
      [] x.kind = "album" -> ApplyAlbum(x)

Posted(x) ==
    /\ IF x.conn = conn /\ online THEN Takes(x) ELSE Dropped(x)
    /\ UNCHANGED <<screen, acts>>

\* The feed reports the end of a link's download.
DownloadEnds(l) ==
    /\ l \in running /\ running' = running \ {l}
    /\ UNCHANGED <<screen, acts, conn, online, omni, cards, q, artist, album, air>>

User ==
    \/ Connect \/ SubmitLinks \/ BackToHits \/ RetrySearch \/ RetryArtist \/ MoreArtist \/ RetryAlbum
    \/ \E t \in Texts : SetOmniText(t)
    \/ \E g \in Groups : MoreSearch(g)
    \/ \E id \in Artists : OpenArtist(id)
    \/ \E id \in Albums : OpenAlbum(id)

HomeNext ==
    \/ User \/ WantSearch
    \/ \E x \in air : Posted(x)
    \/ \E l \in Links : DownloadEnds(l)

HomeSpec == HomeInit /\ [][HomeNext]_homeVars

-----------------------------------------------------------------------------
\* Everything asked has posted and the last frame is drawn.
HomeQuiet == online /\ air = {} /\ Term = q.want

\* Nothing loads for ever (search.go, album.go): whatever generations passed
\* each other on the way, once every timer and request has posted, no search,
\* page, artist, album or submit still says it is under way.
HomeSettles ==
    HomeQuiet => /\ \A x \in {q, artist, album} : x.status # "loading"
             /\ \A g \in Groups : q.more[g] # "loading"
             /\ artist.more # "loading"
             /\ ~q.stale /\ ~omni.submitting

\* What a screen shows as ready answers what the screen names, from the
\* backend the store follows, its pages in order and each once, and so does
\* what the caches keep for later (applySearch, applyMore, applyArtist,
\* applyAlbum, postIf).
InOrder(pages) == \A i \in 1..Len(pages) : pages[i] = i
Belongs(v, k) == v.of = k /\ v.from = conn
AnswersBelong ==
    /\ q.status = "ready" => Belongs(q.shown, q.term)
    /\ artist.status = "ready" => Belongs(artist.shown, artist.id) /\ InOrder(artist.shown.pages)
    /\ album.status = "ready" => Belongs(album.shown, album.id)
    /\ q.shown # Nothing => \A g \in Groups : InOrder(q.shown.pages[g])
    /\ \A v \in Range(q.cache) : v.from = conn /\ \A g \in Groups : InOrder(v.pages[g])
    /\ \A v \in Range(artist.cache) : v.from = conn /\ InOrder(v.pages)

\* What the screens show is an answer to what they ask, and comes to rest.
HomeHolds == HomeSettles /\ AnswersBelong
=============================================================================
