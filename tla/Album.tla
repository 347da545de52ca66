------------------------------- MODULE Album -------------------------------
(***************************************************************************)
(* The album's files as app_server.c keeps them: an upload is given a       *)
(* number, the counter in .imgseq is rewritten in place, the photograph     *)
(* renamed and, once the storage lock is free again, its tile written       *)
(* beside it.  A browser keeps each tile it has seen, by name.  One         *)
(* httpd worker; the card changes where the lock is free, power anywhere.   *)
(***************************************************************************)
EXTENDS Integers, FiniteSets

CONSTANTS
    LastNumber,    \* 999
    Uploads,       \* bound: photographs uploaded
    Accidents      \* bound: power cuts and changes of the card, of either

ASSUME AlbumAssumption == {LastNumber, Uploads, Accidents} \subseteq Nat /\ LastNumber > 0

VARIABLES
    volume,        \* the medium at /data
    photo,        \* per medium and number: the photograph of that name
    tile,          \* the same for .thumbs/
    counter,       \* .imgseq; 0 is one that is absent or torn
    worker,        \* where the httpd worker is
    number, sent, made,    \* the name in hand, what was uploaded, the tile made of it
    cached,        \* per medium and number: the tile of that name the browser saw there and keeps
    uploads, accidents,    \* the bounds' counters
    given, twice,  \* ghost: the numbers given on a medium, and those given again
    forgot,        \* ghost: numbers given that no counter covers: of the factory, or of one lost
    orphan,        \* ghost: numbers whose tile the power or the card left behind or cut short
    ended,         \* ghost: the media whose last number was handed out
    crossed        \* ghost: numbers whose tile was made of another file than it lies beside

files == <<photo, tile, counter>>
hand == <<number, sent, made>>
albumBounds == <<uploads, accidents>>
albumGhosts == <<given, twice, forgot, ended, orphan, crossed>>
albumVars == <<volume, files, worker, hand, cached, albumBounds, albumGhosts>>

Volume == {"card", "flash"}
Number == 1..LastNumber
Nobodys == 0                   \* no photograph, no tile
CutTile == -1
Photos == 1..(Uploads + 1)     \* the first was there before
Factory == 1

NoNumbers == [v \in Volume |-> {}]

Locked == worker \in {"named", "opened", "recorded", "tile", "unlink"}

AlbumTypeOK ==
    /\ volume \in Volume
    /\ photo \in [Volume -> [Number -> Photos \cup {Nobodys}]]
    /\ tile \in [Volume -> [Number -> Photos \cup {Nobodys, CutTile}]]
    /\ counter \in [Volume -> 0..LastNumber]
    /\ worker \in {"idle", "named", "opened", "recorded", "renamed", "made", "tile", "unlink"}
    /\ number \in Number \cup {0} /\ {sent, made} \subseteq Photos \cup {Nobodys}
    /\ cached \in [Volume -> [Number -> Photos \cup {Nobodys, CutTile}]]
    /\ uploads \in 0..Uploads /\ accidents \in 0..Accidents
    /\ {given, twice, forgot, orphan, crossed} \subseteq [Volume -> SUBSET Number]
    /\ ended \subseteq Volume

\* The photographs of the factory have no counter and no tiles.
AlbumInit ==
    /\ volume \in Volume
    /\ photo \in [Volume -> {[n \in Number |-> IF n = 1 THEN p ELSE Nobodys]
                              : p \in {Nobodys, Factory}}]
    /\ tile = [v \in Volume |-> [n \in Number |-> Nobodys]]
    /\ counter = [v \in Volume |-> 0]
    /\ worker = "idle" /\ number = 0 /\ sent = Nobodys /\ made = Nobodys
    /\ cached = tile
    /\ uploads = 0 /\ accidents = 0
    /\ given = [v \in Volume |-> {n \in Number : photo[v][n] # Nobodys}]
    /\ twice = NoNumbers /\ forgot = given /\ orphan = NoNumbers /\ crossed = NoNumbers
    /\ ended = {}

-----------------------------------------------------------------------------
(* generate_next_photo_name(), for one letter: the other's counter shares the file. *)

Held == {n \in Number : photo[volume][n] # Nobodys}
Least(S) == CHOOSE n \in S : \A k \in S : n <= k
Highest == CHOOSE n \in Held \cup {counter[volume]} :
               \A k \in Held \cup {counter[volume]} : k <= n

PickLowest ==    \* mutant: the lowest free number, as before 2026-09-23
    IF Number \ Held = {} THEN 0 ELSE Least(Number \ Held)
Pick ==
    IF Highest < LastNumber THEN Highest + 1
    ELSE IF Number \ Held = {} THEN 0 ELSE Least(Number \ Held)

At(f, n, x) == [f EXCEPT ![volume][n] = x]
Joined(f, S) == [f EXCEPT ![volume] = @ \cup S]

\* The body has come and passed its tests; without a free number nothing is kept.
Upload ==
    /\ worker = "idle" /\ uploads < Uploads
    /\ Pick # 0
    /\ worker' = "named" /\ number' = Pick
    /\ uploads' = uploads + 1 /\ sent' = Factory + uploads'
    /\ ended' = IF number' = LastNumber THEN ended \cup {volume} ELSE ended
    /\ UNCHANGED <<volume, files, made, cached, accidents, given, twice, forgot, orphan, crossed>>

Recording(from, to) ==
    /\ worker = from /\ worker' = to
    /\ UNCHANGED <<volume, photo, tile, hand, cached, albumBounds, given, twice, ended, orphan, crossed>>

\* fopen "wb" empties the file; it may fail, and then the old count stands.
OpenCounter ==
    \/ /\ Recording("named", "opened")
       /\ counter' = [counter EXCEPT ![volume] = 0]
       /\ UNCHANGED forgot
    \/ /\ Recording("named", "recorded")
       /\ forgot' = Joined(forgot, {number})
       /\ UNCHANGED counter

\* A full file system may refuse it.
KeepCounter ==
    /\ Recording("opened", "recorded")
    /\ \/ counter' = [counter EXCEPT ![volume] = number] /\ UNCHANGED forgot
       \/ forgot' = Joined(forgot, given[volume] \cup {number}) /\ UNCHANGED counter

Rest == worker' = "idle" /\ number' = 0 /\ sent' = Nobodys /\ made' = Nobodys

\* The photograph gets its name and the lock is given back, or the upload is refused.
NamePhoto ==
    /\ worker = "recorded"
    /\ \/ /\ photo' = At(photo, number, sent)
          /\ worker' = "renamed"
          /\ given' = Joined(given, {number})
          /\ twice' = Joined(twice, given[volume] \cap {number})
          /\ UNCHANGED hand
       \/ Rest /\ UNCHANGED <<photo, given, twice>>
    /\ UNCHANGED <<volume, tile, counter, cached, albumBounds, forgot, ended, orphan, crossed>>

\* thumb_produce() reads the file under the lock and lets it go; it may fail.
MakeTile ==
    /\ worker = "renamed"
    /\ \/ /\ photo[volume][number] # Nobodys
          /\ worker' = "made" /\ made' = photo[volume][number]
          /\ UNCHANGED <<number, sent>>
       \/ Rest
    /\ UNCHANGED <<volume, files, cached, albumBounds, albumGhosts>>

\* A file is taken away if the card lets it go; nobody asks.
Unlinked(f, n) == {At(f, n, Nobodys), f}

\* The tile is written in place; if it cannot be opened, one that was there goes.
OpenTile ==
    /\ worker = "made"
    /\ \/ worker' = "tile" /\ tile' = At(tile, number, CutTile) /\ UNCHANGED hand
       \/ Rest /\ tile' \in Unlinked(tile, number)
    /\ UNCHANGED <<volume, photo, counter, cached, albumBounds, albumGhosts>>

KeepTileShort ==    \* mutant: a short write is left
    /\ worker = "tile"
    /\ tile' \in {At(tile, number, made), tile}
    /\ Rest
    /\ UNCHANGED <<volume, photo, counter, cached, albumBounds, albumGhosts>>
\* A short write is taken away again, if the card lets it go; one that only fclose() meets
\* is not seen.
KeepTile ==
    /\ worker = "tile"
    /\ \/ /\ tile' \in {At(tile, number, x) : x \in {made, Nobodys}}
          /\ UNCHANGED orphan
       \/ UNCHANGED tile /\ orphan' = Joined(orphan, {number})
    /\ Rest
    /\ UNCHANGED <<volume, photo, counter, cached, albumBounds, given, twice, forgot, ended, crossed>>

-----------------------------------------------------------------------------
(* h_photos_delete() and h_thumb_serve(). *)

\* The photograph may not be there, or not let go; its sidecar goes all the same.
Delete ==
    /\ worker = "idle"
    /\ worker' = "unlink" /\ number' \in Number
    /\ photo' \in Unlinked(photo, number')
    /\ UNCHANGED <<volume, tile, counter, sent, made, cached, albumBounds, albumGhosts>>

DeleteEndsLeavingTile ==    \* mutant: the sidecar is nobody's
    /\ worker = "unlink"
    /\ Rest
    /\ UNCHANGED <<volume, files, cached, albumBounds, albumGhosts>>
DeleteEnds ==
    /\ worker = "unlink"
    /\ \/ tile' = At(tile, number, Nobodys) /\ UNCHANGED orphan
       \/ /\ tile[volume][number] # Nobodys
          /\ UNCHANGED tile /\ orphan' = Joined(orphan, {number})
    /\ Rest
    /\ UNCHANGED <<volume, photo, counter, cached, albumBounds, given, twice, forgot, ended, crossed>>

\* The tile that is there, or one made of the photograph.  The browser keeps it for a day, by
\* its name alone, and asks for no other of that name.
View ==
    /\ worker = "idle"
    /\ \E n \in Held :
           /\ \A v \in Volume : cached[v][n] = Nobodys
           /\ cached' = At(cached, n, IF tile[volume][n] # Nobodys THEN tile[volume][n]
                                      ELSE photo[volume][n])
    /\ UNCHANGED <<volume, files, worker, hand, albumBounds, albumGhosts>>

\* The day is over, or the page's button clears the cache.
Forget(n) ==
    /\ cached' = [v \in Volume |-> [cached[v] EXCEPT ![n] = Nobodys]]
    /\ UNCHANGED <<volume, files, worker, hand, albumBounds, albumGhosts>>

-----------------------------------------------------------------------------
(* Accidents. *)

Accident == accidents < Accidents /\ accidents' = accidents + 1

\* The main loop changes the medium where the lock is free; the album is another one, and
\* the browser is told nothing.
CardMoves ==
    /\ Accident
    /\ ~Locked
    /\ volume' \in Volume \ {volume}
    /\ crossed' = IF worker = "made" THEN [crossed EXCEPT ![volume'] = @ \cup {number}] ELSE crossed
    /\ UNCHANGED <<files, worker, hand, cached, uploads, given, twice, forgot, ended, orphan>>

\* A file that was open for writing is left empty or cut short.
AlbumPowerCut ==
    /\ Accident
    /\ Rest
    /\ forgot' = IF worker = "opened" THEN Joined(forgot, given[volume]) ELSE forgot
    /\ orphan' = IF worker \in {"unlink", "tile"} THEN Joined(orphan, {number}) ELSE orphan
    /\ UNCHANGED <<volume, files, cached, uploads, given, twice, ended, crossed>>

AlbumNext ==
    \/ Upload \/ OpenCounter \/ KeepCounter \/ NamePhoto
    \/ MakeTile \/ OpenTile \/ KeepTile
    \/ Delete \/ DeleteEnds \/ View \/ \E n \in Number : Forget(n)
    \/ CardMoves \/ AlbumPowerCut

AlbumSpec == AlbumInit /\ [][AlbumNext]_albumVars

-----------------------------------------------------------------------------
(* Properties. *)

\* No number names two photographs, whatever is deleted in between, until the last number has
\* been handed out or the counter was lost with it (generate_next_photo_name).
NumbersAreNew ==
    \A v \in Volume : v \in ended \/ twice[v] \subseteq forgot[v]

\* No photograph has another one's tile, or half of one: neither beside it nor in the browser, which
\* keeps the one it saw on this medium; but for numbers that came again, a tile the power cut or
\* the card would not write or let go, and one that crossed a change of the card
\* (h_photos_upload, h_photos_delete, h_thumb_serve).
TrueTile(v, n, t) == t \in {Nobodys, photo[v][n]} \/ n \in orphan[v] \cup crossed[v]
TilesAreTrue ==
    \A v \in Volume, n \in Number : photo[v][n] # Nobodys =>
        /\ worker \notin {"tile"} \/ n # number => TrueTile(v, n, tile[v][n])
        /\ TrueTile(v, n, cached[v][n]) \/ n \in twice[v]

AlbumIsTrue == NumbersAreNew /\ TilesAreTrue
=============================================================================
