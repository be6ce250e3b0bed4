---------------------------- MODULE AvatarFetch ----------------------------
(***************************************************************************)
(* avatar.fetch: one download of an image at a time, a few downloads at    *)
(* once, and a cache of files.                                             *)
(*                                                                         *)
(* A request takes its URL's lock out of a table of weak references,       *)
(* making one if none is alive, waits for it, then for one of the slots,   *)
(* looks into the cache, downloads, and has the file written by a blocking *)
(* thread, which goes on when the request is dropped.                      *)
(***************************************************************************)
EXTENDS Integers, FiniteSets

CONSTANTS
    Fetcher,            \* the avatar.fetch requests
    ImageUrl,           \* image URLs that passed validation
    MAX_CONCURRENT_AVATAR_FETCHES,
    MaxAvatarFaults     \* bound: failures, disconnections, crashes, ageing files

None == "none"

ASSUME AvatarAssumption ==
    /\ None \notin Fetcher
    /\ MAX_CONCURRENT_AVATAR_FETCHES \in Nat \ {0}
    /\ MaxAvatarFaults \in Nat

VARIABLES
    fetch,          \* what each request is doing
    keyLocks,       \* Daemon.avatar_key_locks: the lock a URL's entry refers to
    lockOwner,      \* per lock, who holds it
    slots,          \* free permits of Daemon.avatar_fetch_slots
    cache,          \* the cache's file of each URL
    temporary,      \* the temporary files, by the request that wrote them
    avatarFaults

avatarVars == <<fetch, keyLocks, lockOwner, slots, cache, temporary, avatarFaults>>
-----------------------------------------------------------------------------
\* "lock": the request has its lock, and waits for it; "write": its thread writes.
Busy == {"lock", "slot", "read", "download", "write"}

Holding == {"slot", "read", "download", "write"}

InSlot == {"read", "download", "write"}

\* A lock is named by the request that made it.
AvatarTypeOK ==
    /\ fetch \in [Fetcher ->
                    [pc : {"idle", "answered", "failed", "dropped"}]
                        \cup [pc : Busy, url : ImageUrl, lock : Fetcher]]
    /\ keyLocks \in [ImageUrl -> Fetcher \cup {None}]
    /\ lockOwner \in [Fetcher -> Fetcher \cup {None}]
    /\ \A r \in Fetcher : fetch[r].pc \in Holding <=> \E k \in Fetcher : lockOwner[k] = r
    /\ slots = MAX_CONCURRENT_AVATAR_FETCHES
                 - Cardinality({r \in Fetcher : fetch[r].pc \in InSlot})
    /\ slots >= 0
    /\ cache \in [ImageUrl -> {"none", "fresh", "stale", "partial"}]
    /\ temporary \in [Fetcher -> [of : ImageUrl \cup {None}, text : {"partial", "whole"},
                                  running : BOOLEAN]]
    /\ avatarFaults \in 0..MaxAvatarFaults

NoFile == [of |-> None, text |-> "partial", running |-> FALSE]

AvatarInit ==
    /\ fetch = [r \in Fetcher |-> [pc |-> "idle"]]
    /\ keyLocks = [u \in ImageUrl |-> None]
    /\ lockOwner = [k \in Fetcher |-> None]
    /\ slots = MAX_CONCURRENT_AVATAR_FETCHES
    /\ cache \in [ImageUrl -> {"none", "fresh", "stale"}]
    /\ temporary = [r \in Fetcher |-> NoFile]
    /\ avatarFaults = 0

AvatarFault == avatarFaults < MaxAvatarFaults /\ avatarFaults' = avatarFaults + 1

-----------------------------------------------------------------------------
(* Locks and slots                                                         *)

\* A weak reference is alive as long as a request has the lock.
Alive(k) == \E r \in Fetcher : fetch[r].pc \in Busy /\ fetch[r].lock = k

\* Mutant of Pruned: an entry is dropped when nobody holds its lock.
PrunedUnheld ==
    [u \in ImageUrl |->
        IF keyLocks[u] # None /\ lockOwner[keyLocks[u]] # None THEN keyLocks[u] ELSE None]

\* avatar_key_lock: dead entries are dropped, then the URL's own is found or made.
Pruned == [u \in ImageUrl |-> IF keyLocks[u] # None /\ Alive(keyLocks[u]) THEN keyLocks[u] ELSE None]

GetKeyLock(r, u) ==
    LET lock == IF Pruned[u] = None THEN r ELSE Pruned[u] IN
    /\ fetch[r].pc = "idle"
    /\ keyLocks' = [Pruned EXCEPT ![u] = lock]
    /\ fetch' = [fetch EXCEPT ![r] = [pc |-> "lock", url |-> u, lock |-> lock]]
    /\ UNCHANGED <<lockOwner, slots, cache, temporary, avatarFaults>>

TakeKeyLock(r) ==
    /\ fetch[r].pc = "lock"
    /\ lockOwner[fetch[r].lock] = None
    /\ lockOwner' = [lockOwner EXCEPT ![fetch[r].lock] = r]
    /\ fetch' = [fetch EXCEPT ![r].pc = "slot"]
    /\ UNCHANGED <<keyLocks, slots, cache, temporary, avatarFaults>>

TakeSlot(r) ==
    /\ fetch[r].pc = "slot"
    /\ slots > 0
    /\ slots' = slots - 1
    /\ fetch' = [fetch EXCEPT ![r].pc = "read"]
    /\ UNCHANGED <<keyLocks, lockOwner, cache, temporary, avatarFaults>>

\* The request ends, however it ends: lock, slot and reference are dropped.
Ends(r, pc) ==
    /\ fetch' = [fetch EXCEPT ![r] = [pc |-> pc]]
    /\ lockOwner' = [k \in Fetcher |-> IF lockOwner[k] = r THEN None ELSE lockOwner[k]]
    /\ slots' = IF fetch[r].pc \in InSlot THEN slots + 1 ELSE slots

-----------------------------------------------------------------------------
(* The image                                                               *)

\* A fresh file that is an image is the answer; a stale one is fetched again.
ReadCache(r) ==
    /\ fetch[r].pc = "read"
    /\ IF cache[fetch[r].url] = "fresh"
       THEN Ends(r, "answered")
       ELSE /\ fetch' = [fetch EXCEPT ![r].pc = "download"]
            /\ UNCHANGED <<lockOwner, slots>>
    /\ UNCHANGED <<keyLocks, cache, temporary, avatarFaults>>

\* The image is there and checked; a thread starts to write it.
Download(r) ==
    /\ fetch[r].pc = "download"
    /\ fetch' = [fetch EXCEPT ![r].pc = "write"]
    /\ temporary' = [temporary EXCEPT ![r] =
                       [of |-> fetch[r].url, text |-> "partial", running |-> TRUE]]
    /\ UNCHANGED <<keyLocks, lockOwner, slots, cache, avatarFaults>>

\* No address that may be used, no image, too large an image, or nothing for 10
\* seconds.
DownloadFails(r) ==
    /\ fetch[r].pc = "download"
    /\ AvatarFault
    /\ Ends(r, "failed")
    /\ UNCHANGED <<keyLocks, cache, temporary>>

\* Mutant of WriteTemporary: the cache's own file is written.
WriteInPlace(r) ==
    /\ temporary[r].running
    /\ temporary[r].text = "partial"
    /\ temporary' = [temporary EXCEPT ![r].text = "whole"]
    /\ cache' = [cache EXCEPT ![temporary[r].of] = "partial"]
    /\ UNCHANGED <<fetch, keyLocks, lockOwner, slots, avatarFaults>>

\* write_all and sync_all.
WriteTemporary(r) ==
    /\ temporary[r].running
    /\ temporary[r].text = "partial"
    /\ temporary' = [temporary EXCEPT ![r].text = "whole"]
    /\ UNCHANGED <<fetch, keyLocks, lockOwner, slots, cache, avatarFaults>>

\* The end of the thread, which answers the request if there is one still.
ThreadEnds(r, pc) ==
    /\ temporary' = [temporary EXCEPT ![r] = NoFile]
    /\ IF fetch[r].pc = "write" THEN Ends(r, pc) ELSE UNCHANGED <<fetch, lockOwner, slots>>

RenameTemporary(r) ==
    /\ temporary[r].running
    /\ temporary[r].text = "whole"
    /\ cache' = [cache EXCEPT ![temporary[r].of] = "fresh"]
    /\ ThreadEnds(r, "answered")
    /\ UNCHANGED <<keyLocks, avatarFaults>>

WriteFails(r) ==
    /\ temporary[r].running
    /\ AvatarFault
    /\ ThreadEnds(r, "failed")
    /\ UNCHANGED <<keyLocks, cache>>

-----------------------------------------------------------------------------
GrowOld(u) ==
    /\ cache[u] = "fresh"
    /\ AvatarFault
    /\ cache' = [cache EXCEPT ![u] = "stale"]
    /\ UNCHANGED <<fetch, keyLocks, lockOwner, slots, temporary>>

\* The client disconnects: the request is dropped, a thread that writes is not.
AbortFetch(r) ==
    /\ fetch[r].pc \in Busy
    /\ AvatarFault
    /\ Ends(r, "dropped")
    /\ UNCHANGED <<keyLocks, cache, temporary>>

\* The daemon dies: temporary files stay where they are.
CrashFetches ==
    /\ \E r \in Fetcher : fetch[r].pc \in Busy \/ temporary[r].running
    /\ AvatarFault
    /\ fetch' = [r \in Fetcher |-> IF fetch[r].pc \in Busy THEN [pc |-> "dropped"] ELSE fetch[r]]
    /\ keyLocks' = [u \in ImageUrl |-> None]
    /\ lockOwner' = [k \in Fetcher |-> None]
    /\ slots' = MAX_CONCURRENT_AVATAR_FETCHES
    /\ temporary' = [r \in Fetcher |-> [temporary[r] EXCEPT !.running = FALSE]]
    /\ UNCHANGED cache

FetchStep(r) ==
    \/ TakeKeyLock(r) \/ TakeSlot(r) \/ ReadCache(r) \/ Download(r)
    \/ WriteTemporary(r) \/ RenameTemporary(r)

AvatarNext ==
    \/ \E r \in Fetcher :
         \/ \E u \in ImageUrl : GetKeyLock(r, u)
         \/ FetchStep(r)
         \/ DownloadFails(r)
         \/ WriteFails(r)
         \/ AbortFetch(r)
    \/ \E u \in ImageUrl : GrowOld(u)
    \/ CrashFetches

AvatarSpec == AvatarInit /\ [][AvatarNext]_avatarVars

\* Mutex and semaphore are fair queues, and the connection and the transfer have
\* their timeouts.  The look-up of the host's name before them has none of the
\* daemon's own: that it ends, as the C library's does, is assumed.
AvatarFairness == \A r \in Fetcher : SF_avatarVars(FetchStep(r))

-----------------------------------------------------------------------------
(* Properties                                                              *)

\* No image is downloaded by two requests at once, although the table forgets a
\* lock as soon as no request has it: whoever needs one finds the one in use.
OneDownload ==
    \A r, q \in Fetcher :
        /\ r # q
        /\ {fetch[r].pc, fetch[q].pc} \subseteq {"read", "download", "write"}
        => fetch[r].url # fetch[q].url

\* A file in the cache is a whole image whenever it is looked at, whatever fails
\* or dies while it is written.
CacheWhole == \A u \in ImageUrl : cache[u] # "partial"

\* Every avatar.fetch is answered or dropped: no request waits for a lock while
\* it keeps a slot from others.
FetchesAtRest == \A r \in Fetcher : fetch[r].pc \notin Busy

=============================================================================
