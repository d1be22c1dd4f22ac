------------------------------ MODULE Catalogue ------------------------------
(***************************************************************************)
(* The listings of one provider and the verification that lets the         *)
(* provider sell: ProviderService, AdminService and VerificationService.   *)
(* Hardly any of their operations is a transaction: each looks up a row,   *)
(* decides, and writes later, while the same provider works in another tab *)
(* and administrators decide what is waiting.  The listings have a single  *)
(* price; the packages of older ones are left out.                         *)
(***************************************************************************)
EXTENDS Naturals, FiniteSets

CONSTANTS
  Listing,       \* the provider's listings
  Tab,           \* sessions of the provider
  Admin,         \* administrators
  Cover,         \* storage keys of cover images
  Portfolio,     \* storage keys of portfolio files
  MaxPortfolio,  \* files a portfolio may have: 5 in the code
  Request        \* bound: requests for verification

ASSUME FilesAreOneKind == Cover \cap Portfolio = {}
ASSUME PortfolioIsNat  == MaxPortfolio \in Nat

VARIABLES
  status,    \* Service.status, or "NONE"
  media,     \* ServiceMedia rows, each named by its storage key
  cleared,   \* history: the listing has been approved since its last revision
  late,      \* history: so it has by an administrator who looked before the revision
  seen,      \* what was published or shown last is what an administrator approved
  stored,    \* the objects in storage
  lost,      \* history: objects deleted by an upload that had given them rows
  tab,       \* the operation each session is in the middle of
  admin,     \* what each administrator has looked up
  request,   \* VerificationRequest.status, or "NONE"
  verification, \* StudentProfile.verificationStatus
  provider   \* the account has the role PROVIDER

listingVars == <<status, media, cleared, late, seen>>
fileVars    == <<stored, lost>>
studentVars == <<request, verification, provider>>
catalogueVars == <<listingVars, fileVars, tab, admin, studentVars>>

File          == Cover \cup Portfolio
ListingStatus == {"NONE", "DRAFT", "PENDING_REVIEW", "PUBLISHED", "PAUSED", "REJECTED", "ARCHIVED"}
Verdict       == {"NONE", "PENDING", "APPROVED", "REJECTED"}
Shown         == {"PUBLISHED", "PAUSED", "ARCHIVED"}
Editable      == {"DRAFT", "REJECTED"}

\* transitionServiceStatus and reviseService: the statuses an operation moves a
\* listing from, and the one it moves it to.
Move == [revise  |-> [from |-> {"PUBLISHED", "PAUSED"}, to |-> "DRAFT"],
         pause   |-> [from |-> {"PUBLISHED"}, to |-> "PAUSED"],
         resume  |-> [from |-> {"PAUSED"}, to |-> "PUBLISHED"],
         archive |-> [from |-> {"PUBLISHED", "PAUSED"}, to |-> "ARCHIVED"],
         restore |-> [from |-> {"ARCHIVED"}, to |-> "PAUSED"]]

Idle == [op |-> "idle", listing |-> "none", was |-> "NONE", files |-> {}, old |-> {}]
Nothing == [of |-> "none", id |-> "none", stale |-> FALSE]
Ops == {"idle", "edit", "submit", "upload", "clean", "remove", "apply"} \cup DOMAIN Move

CatalogueTypeOK ==
  /\ status \in [Listing -> ListingStatus]
  /\ media \in [Listing -> SUBSET File] /\ stored \subseteq File /\ lost \subseteq File
  /\ cleared \in [Listing -> BOOLEAN] /\ late \subseteq Listing /\ seen \in [Listing -> BOOLEAN]
  /\ tab \in [Tab -> [op : Ops, listing : Listing \cup {"none"}, was : ListingStatus,
                      files : SUBSET File, old : SUBSET File]]
  /\ admin \in [Admin -> [of : {"none", "listing", "student"}, id : Listing \cup Request \cup {"none"},
                          stale : BOOLEAN]]
  /\ request \in [Request -> Verdict]
  /\ verification \in Verdict /\ provider \in BOOLEAN

CatalogueInit ==
  /\ status = [l \in Listing |-> "NONE"]
  /\ media = [l \in Listing |-> {}] /\ stored = {} /\ lost = {}
  /\ cleared = [l \in Listing |-> FALSE] /\ late = {} /\ seen = [l \in Listing |-> FALSE]
  /\ tab = [t \in Tab |-> Idle]
  /\ admin = [a \in Admin |-> Nothing]
  /\ request = [r \in Request |-> "NONE"]
  /\ verification = "NONE" /\ provider = FALSE

-----------------------------------------------------------------------------
Begin(t, op, l, files, old) ==
  /\ tab[t] = Idle
  /\ tab' = [tab EXCEPT ![t] = [op |-> op, listing |-> l, was |-> status[l],
                                files |-> files, old |-> old]]
End(t) == tab' = [tab EXCEPT ![t] = Idle]

\* createService
Create(t, l) ==
  /\ tab[t] = Idle /\ verification = "APPROVED"
  /\ status[l] = "NONE"
  /\ status' = [status EXCEPT ![l] = "DRAFT"]
  /\ UNCHANGED <<media, cleared, late, seen, fileVars, tab, admin, studentVars>>

\* The half of updateService, submitService and of the moves that reads.
LookUp(t, op, l) ==
  /\ status[l] \in IF op \in {"edit", "submit"} THEN Editable ELSE Move[op].from
  /\ op = "edit" => verification = "APPROVED"
  /\ Begin(t, op, l, {}, {})
  /\ UNCHANGED <<listingVars, fileVars, admin, studentVars>>

\* An edit replaces the terms whatever the listing's status has become ...
Edit(t) ==
  LET l == tab[t].listing IN
  /\ tab[t].op = "edit"
  /\ seen' = [seen EXCEPT ![l] = FALSE]
  /\ End(t)
  /\ UNCHANGED <<status, media, cleared, late, fileVars, admin, studentVars>>

\* ... and so does a submission.
Submit(t) ==
  /\ tab[t].op = "submit"
  /\ status' = [status EXCEPT ![tab[t].listing] = "PENDING_REVIEW"]
  /\ End(t)
  /\ UNCHANGED <<media, cleared, late, seen, fileVars, admin, studentVars>>

\* After a revision what the administrators have looked at is not what there is.
Moved(l, op) ==
  /\ status' = [status EXCEPT ![l] = Move[op].to]
  /\ IF op = "revise"
     THEN /\ cleared' = [cleared EXCEPT ![l] = FALSE] /\ late' = late \ {l}
          /\ admin' = [a \in Admin |-> IF admin[a].of = "listing" /\ admin[a].id = l
                                       THEN [admin[a] EXCEPT !.stale = TRUE] ELSE admin[a]]
     ELSE UNCHANGED <<cleared, late, admin>>

\* Slip: the listing is moved whatever its status has become.
MoveUnguarded(t) ==
  /\ tab[t].op \in DOMAIN Move
  /\ Moved(tab[t].listing, tab[t].op)
  /\ End(t)
  /\ UNCHANGED <<media, seen, fileVars, studentVars>>

\* A move takes place only from the status that was read.
MoveListing(t) ==
  LET l == tab[t].listing IN
  /\ tab[t].op \in DOMAIN Move
  /\ IF status[l] = tab[t].was THEN Moved(l, tab[t].op) ELSE UNCHANGED <<status, cleared, late, admin>>
  /\ End(t)
  /\ UNCHANGED <<media, seen, fileVars, studentVars>>

-----------------------------------------------------------------------------
\* Storage gives every file a key that none had before: here one that none has now.
Free == {f \in File \ stored : /\ \A l \in Listing : f \notin media[l]
                              /\ \A t \in Tab : f \notin tab[t].files \cup tab[t].old}

\* uploadServiceMedia: the checks, and the files put into storage.
Upload(t, l, files) ==
  /\ status[l] \in Editable
  /\ files # {} /\ files \subseteq Free /\ Cardinality(files \cap Cover) <= 1
  /\ Cardinality((media[l] \cup files) \cap Portfolio) <= MaxPortfolio
  /\ \E old \in SUBSET (media[l] \cap Cover) :
       /\ Cardinality(old) = IF files \cap Cover = {} \/ media[l] \cap Cover = {} THEN 0 ELSE 1
       /\ Begin(t, "upload", l, files, old)
  /\ stored' = stored \cup files /\ lost' = lost \ files
  /\ UNCHANGED <<listingVars, admin, studentVars>>

\* Slip: an upload that fails halfway deletes the old cover before its row.
InsertAfterDelete(t) ==
  LET l == tab[t].listing IN
  /\ tab[t].op = "upload"
  /\ stored' = stored \ tab[t].old
  /\ media' = [media EXCEPT ![l] = @ \cup tab[t].files]
  /\ seen' = [seen EXCEPT ![l] = FALSE]
  /\ tab' = [tab EXCEPT ![t].op = "clean"]
  /\ UNCHANGED <<status, cleared, late, lost, admin, studentVars>>

\* The rows, in one transaction.  It fails if the old cover is gone, and the
\* files are deleted again.
InsertMedia(t) ==
  LET l == tab[t].listing IN
  /\ tab[t].op = "upload"
  /\ IF tab[t].old \subseteq media[l]
     THEN /\ media' = [media EXCEPT ![l] = (@ \ tab[t].old) \cup tab[t].files]
          /\ seen' = [seen EXCEPT ![l] = FALSE]
          /\ tab' = [tab EXCEPT ![t].op = "clean"] /\ UNCHANGED stored
     ELSE /\ stored' = stored \ tab[t].files
          /\ End(t) /\ UNCHANGED <<media, seen>>
  /\ UNCHANGED <<status, cleared, late, lost, admin, studentVars>>

\* The old object goes last, of an upload as of a removal ...
Clean(t) ==
  /\ tab[t].op = "clean"
  /\ stored' = stored \ tab[t].old
  /\ End(t)
  /\ UNCHANGED <<listingVars, lost, admin, studentVars>>

\* ... and if that fails, the upload deletes its new objects too, as if it had
\* stored no rows.  Any of these deletions may have taken place.
CleanFails(t) ==
  /\ tab[t].op = "clean"
  /\ \E gone \in SUBSET (tab[t].old \cup tab[t].files) :
       /\ stored' = stored \ gone
       /\ lost' = lost \cup (gone \cap tab[t].files)
  /\ End(t)
  /\ UNCHANGED <<listingVars, admin, studentVars>>

\* removeServiceMedia
LookRemove(t, l, f) ==
  /\ status[l] \in Editable /\ f \in media[l]
  /\ Begin(t, "remove", l, {}, {f})
  /\ UNCHANGED <<listingVars, fileVars, admin, studentVars>>

Remove(t) ==
  LET l == tab[t].listing IN
  /\ tab[t].op = "remove"
  /\ IF tab[t].old \subseteq media[l]
     THEN /\ media' = [media EXCEPT ![l] = @ \ tab[t].old]
          /\ seen' = [seen EXCEPT ![l] = FALSE]
          /\ tab' = [tab EXCEPT ![t].op = "clean"]
     ELSE End(t) /\ UNCHANGED <<media, seen>>
  /\ UNCHANGED <<status, cleared, late, fileVars, admin, studentVars>>

\* The process stops, or the database fails: what is in storage stays there.
Abandon(t) ==
  /\ tab[t] # Idle
  /\ End(t)
  /\ UNCHANGED <<listingVars, fileVars, admin, studentVars>>

-----------------------------------------------------------------------------
\* VerificationService.submit
LookApply(t) ==
  /\ verification \notin {"PENDING", "APPROVED"}
  /\ tab[t] = Idle
  /\ tab' = [tab EXCEPT ![t].op = "apply"]
  /\ UNCHANGED <<listingVars, fileVars, admin, studentVars>>

Apply(t, r) ==
  /\ tab[t].op = "apply" /\ request[r] = "NONE"
  /\ request' = [request EXCEPT ![r] = "PENDING"]
  /\ verification' = "PENDING"
  /\ End(t)
  /\ UNCHANGED <<listingVars, fileVars, admin, provider>>

\* What an administrator reads is pending ...
LookListing(a, l) ==
  /\ admin[a] = Nothing /\ status[l] = "PENDING_REVIEW"
  /\ admin' = [admin EXCEPT ![a] = [of |-> "listing", id |-> l, stale |-> FALSE]]
  /\ seen' = [seen EXCEPT ![l] = TRUE]
  /\ UNCHANGED <<status, media, cleared, late, fileVars, tab, studentVars>>

LookStudent(a, r) ==
  /\ admin[a] = Nothing /\ request[r] = "PENDING"
  /\ admin' = [admin EXCEPT ![a] = [of |-> "student", id |-> r, stale |-> FALSE]]
  /\ UNCHANGED <<listingVars, fileVars, tab, studentVars>>

\* ... and is decided whatever it has become.
ReviewService(a, approved) ==
  LET l == admin[a].id IN
  /\ admin[a].of = "listing"
  /\ status' = [status EXCEPT ![l] = IF approved THEN "PUBLISHED" ELSE "REJECTED"]
  /\ IF approved /\ admin[a].stale THEN late' = late \cup {l} /\ UNCHANGED cleared
     ELSE cleared' = [cleared EXCEPT ![l] = @ \/ approved] /\ UNCHANGED late
  /\ admin' = [admin EXCEPT ![a] = Nothing]
  /\ UNCHANGED <<media, seen, fileVars, tab, studentVars>>

\* Slip: a rejection is recorded in the request and not in the profile.
ReviewRequestOnly(a, approved) ==
  LET verdict == IF approved THEN "APPROVED" ELSE "REJECTED" IN
  /\ admin[a].of = "student"
  /\ request' = [request EXCEPT ![admin[a].id] = verdict]
  /\ verification' = IF approved THEN verdict ELSE verification
  /\ provider' = (provider \/ approved)
  /\ admin' = [admin EXCEPT ![a] = Nothing]
  /\ UNCHANGED <<listingVars, fileVars, tab>>

ReviewStudent(a, approved) ==
  LET verdict == IF approved THEN "APPROVED" ELSE "REJECTED" IN
  /\ admin[a].of = "student"
  /\ request' = [request EXCEPT ![admin[a].id] = verdict]
  /\ verification' = verdict
  /\ provider' = (provider \/ approved)
  /\ admin' = [admin EXCEPT ![a] = Nothing]
  /\ UNCHANGED <<listingVars, fileVars, tab>>

TabStep(t) ==
  \/ \E l \in Listing :
       \/ Create(t, l)
       \/ \E op \in {"edit", "submit"} \cup DOMAIN Move : LookUp(t, op, l)
       \/ \E files \in SUBSET Free : Upload(t, l, files)
       \/ \E f \in media[l] : LookRemove(t, l, f)
  \/ Edit(t) \/ Submit(t) \/ MoveListing(t) \/ InsertMedia(t)
  \/ Clean(t) \/ CleanFails(t) \/ Remove(t)
  \/ LookApply(t) \/ Abandon(t)
  \/ \E r \in Request : Apply(t, r)

AdminStep(a) ==
  \/ \E l \in Listing : LookListing(a, l)
  \/ \E r \in Request : LookStudent(a, r)
  \/ \E approved \in BOOLEAN : ReviewService(a, approved) \/ ReviewStudent(a, approved)

CatalogueNext == (\E t \in Tab : TabStep(t)) \/ (\E a \in Admin : AdminStep(a))

CatalogueSpec == CatalogueInit /\ [][CatalogueNext]_catalogueVars

-----------------------------------------------------------------------------
(* Properties *)

\* A listing that was taken back for revision (reviseService: "moved to a private
\* draft") is public again only after it was submitted and approved again,
\* whatever the provider's other tabs had begun before; or if another administrator
\* had taken up what was approved and taken back, and approves it now.
DraftStaysPrivate == \A l \in Listing : status[l] \in Shown => cleared[l] \/ l \in late

\* A listing is public with the terms and files an administrator looked at.
PublicAsReviewed == \A l \in Listing : status[l] = "PUBLISHED" => seen[l]

\* Every file a listing names is in storage, however uploads and removals in
\* several tabs overlap and wherever they stop, unless an upload failed after its
\* rows were stored and deleted their files itself.
RowsHaveFiles == \A l \in Listing : media[l] \subseteq stored \cup lost

\* A student is never left waiting for a review nobody can make: a pending profile
\* has a pending request, and a decided one a request that was decided so, with
\* the role of a provider if it was approved.
VerdictStands ==
  /\ verification # "NONE" => \E r \in Request : request[r] = verification
  /\ verification = "APPROVED" => provider
-----------------------------------------------------------------------------
(* What makes them inductive *)

\* An operation on a listing knows which one, and a move read a status it may
\* take place from.
TabsKnow ==
  \A t \in Tab :
    /\ tab[t].op \notin {"idle", "apply"} => tab[t].listing \in Listing
    /\ tab[t].op \in DOMAIN Move => tab[t].was \in Move[tab[t].op].from

\* An administrator decides about what was looked up.
AdminsKnow ==
  \A a \in Admin :
    /\ admin[a].of = "listing" => admin[a].id \in Listing
    /\ admin[a].of = "student" => admin[a].id \in Request

\* The objects a tab will still give a row or delete.
InHand(t) == IF tab[t].op = "upload" THEN tab[t].files ELSE IF tab[t].op = "clean" THEN tab[t].old ELSE {}

\* They are in storage or lost, no row names them, and no two tabs have the same ones;
\* a file belongs to one listing.
FilesApart ==
  /\ \A l, m \in Listing : l # m => media[l] \cap media[m] = {}
  /\ \A t \in Tab : InHand(t) \subseteq stored \cup lost /\ \A l \in Listing : InHand(t) \cap media[l] = {}
  /\ \A t, u \in Tab : t # u => InHand(t) \cap InHand(u) = {}

CatalogueInv ==
  /\ CatalogueTypeOK /\ TabsKnow /\ AdminsKnow
  /\ DraftStaysPrivate /\ FilesApart /\ RowsHaveFiles /\ VerdictStands
=============================================================================
