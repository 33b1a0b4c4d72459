---------------------------- MODULE MonthlyScrape ----------------------------
(***************************************************************************)
(* The operator's monthly scrape of WISeREP,                               *)
(* src/app/wiserep_scrape/wiserep_monthly_scrape.py.  A run walks the      *)
(* search pages for the spectra created in a window, then takes the        *)
(* candidates one by one: find the type and the ASCII link on the object's *)
(* page, download unless the file is there, drop the file if its samples   *)
(* are those of a file already kept.  At the end it replaces metadata.csv  *)
(* and then snapshot.json.                                                 *)
(*                                                                         *)
(* A run may be killed between any two steps, and a later one starts from  *)
(* the directory it left; spectra are published while a run walks.  Each   *)
(* row has a Spec. ID, so file names are distinct; a row stands for its    *)
(* file name, and rows are numbers in the order of those names.            *)
(***************************************************************************)
EXTENDS Naturals, Sequences, FiniteSets, FiniteSetsExt, SequencesExt

CONSTANTS
    Rows,           \* spectra WISeREP may hold
    ListedAt,       \* where its listing has them: the lower, the further up
    Late,           \* those of them published while a run walks the pages
    Entry,          \* the listing's row: the day of its creation, and whether the
                    \* row tells it; its object, and whether it is named; type,
                    \* redshift, file, public
    ObjectPage,     \* an object's page: its type, its redshift, and its links,
                    \* each with a file name, the rows its text mentions and
                    \* the samples behind it
    Windows,        \* pairs of --start and --end
    PageSize,       \* rows on a search page
    MaxPages,       \* --max-pages
    SignatureRows,  \* how much of a page is compared with the next
    MaxRuns,        \* bound on the runs
    NoFile, Torn,   \* contents of a missing and of a half-written file
    Unreadable,     \* samples of a file with fewer than two numeric rows
    Incomparable    \* samples of which one is not a number, or a flux infinite

ASSUME RowsAreNumbers ==
    /\ Cardinality(Rows) \in Nat /\ Rows = 1..Cardinality(Rows)
    /\ Late \subseteq Rows
ASSUME RowsHavePages ==
    \A r \in Rows : Entry[r].day \in Nat /\ Entry[r].object \in DOMAIN ObjectPage
ASSUME ListedNewestFirst ==
    /\ ListedAt \in [Rows -> Nat] /\ IsInjective(ListedAt)
    /\ \A r, s \in Rows :
        Entry[r].dated /\ Entry[s].dated /\ ListedAt[r] < ListedAt[s] =>
            Entry[r].day >= Entry[s].day
ASSUME WindowsAreDays == Windows \subseteq Nat \X Nat /\ Windows # {}
ASSUME PositiveSizes ==
    /\ PageSize \in Nat \ {0} /\ SignatureRows \in Nat \ {0}
    /\ MaxPages \in Nat /\ MaxRuns \in Nat

VARIABLES
    published,  \* rows the server lists by now
    files,      \* contents of spectra/
    listed,     \* rows of metadata.csv
    stamp,      \* the run whose snapshot.json is in place, 0 for none
    pc,         \* what the run does next, "off" between runs
    run,        \* number of the last run
    window, overwrite, filtered,    \* its arguments; whether it found the date filter
    page, lastPage,     \* next search page, and the one before
    todo,       \* candidates found, or still to be taken
    rows,       \* metadata in memory
    owner,      \* accepted_identities: the file that has these samples
    failed,     \* whether a candidate failed
    publishedAtStart,   \* history: what was published when the run began
    misled,     \* history: whether a page without a table ended the walk
    taken,      \* history: candidates of the run
    listedBy,   \* history: the run that wrote metadata.csv
    mishaps     \* history: what went wrong in earlier steps

disk == <<files, listed, stamp>>
walk == <<window, overwrite, filtered, page, lastPage>>
memory == <<todo, rows, owner, failed>>
history == <<publishedAtStart, misled, taken, listedBy, mishaps>>
vars == <<published, disk, pc, run, walk, memory, history>>

Samples == {link.data : link \in UNION {p.links : p \in Range(ObjectPage)}} \ {Unreadable}
NoOwner == [s \in Samples |-> 0]

ASSUME FilesAreTold ==
    /\ NoFile \notin Samples \cup {Unreadable, Torn}
    /\ Torn \notin Samples \cup {Unreadable}

TypeOK ==
    /\ published \subseteq Rows /\ publishedAtStart \subseteq Rows
    /\ files \in [Rows -> Samples \cup {Unreadable, NoFile, Torn}]
    /\ listed \subseteq Rows /\ rows \subseteq Rows /\ taken \subseteq Rows
    /\ run \in 0..MaxRuns /\ stamp \in 0..run /\ listedBy \in 0..run
    /\ pc \in {"off", "search", "index", "collect", "write", "compare", "stamp"}
    /\ page \in 0..MaxPages
    /\ todo \in Seq(Rows) /\ lastPage \subseteq Rows
    /\ owner \in [Samples -> Rows \cup {0}]
    /\ failed \in BOOLEAN /\ misled \in BOOLEAN
    /\ mishaps \subseteq {"killed", "torn", "unreleased", "killed overwriting"}

AnyWindow == CHOOSE w \in Windows : TRUE

Init ==
    /\ published = Rows \ Late
    /\ files = [r \in Rows |-> NoFile]
    /\ listed = {} /\ stamp = 0 /\ run = 0
    /\ pc = "off"
    /\ window = AnyWindow /\ overwrite = FALSE /\ filtered = FALSE
    /\ page = 0 /\ lastPage = {}
    /\ todo = <<>> /\ rows = {} /\ owner = NoOwner /\ failed = FALSE
    /\ publishedAtStart = {} /\ misled = FALSE
    /\ taken = {} /\ listedBy = 0 /\ mishaps = {}

\* The process ends, and its memory with it.
Exit ==
    /\ pc' = "off"
    /\ window' = AnyWindow /\ overwrite' = FALSE /\ filtered' = FALSE
    /\ page' = 0 /\ lastPage' = {}
    /\ todo' = <<>> /\ rows' = {} /\ owner' = NoOwner /\ failed' = FALSE
    /\ publishedAtStart' = {} /\ misled' = FALSE /\ taken' = {}

-----------------------------------------------------------------------------
(* The search: pages of the listing, newest first.                          *)

InWindow(r) == window[1] <= Entry[r].day /\ Entry[r].day <= window[2]

\* What is asked for: with the date fields of the search form, when they were
\* discovered, only the window.
Asked == IF filtered THEN {r \in published : InWindow(r)} ELSE published

Above(r, s) == ListedAt[r] < ListedAt[s]
Place(r) == Cardinality({s \in Asked : Above(s, r)})

SearchPage(n) ==
    {r \in Asked : Place(r) \in n * PageSize .. (n + 1) * PageSize - 1}

\* The first rows of a page.
Signature(rs) ==
    {r \in rs : Cardinality({s \in rs : Above(s, r)}) < SignatureRows}

\* Mutant: a page without a spectrum of the window ends the walk.
OutsideTheWindow(rs) == ~filtered /\ \A r \in rs : ~InWindow(r)

\* A page whose dates are all before the window, where the server does not
\* filter; a page without a date says nothing.
PastTheWindow(rs) ==
    LET dates == {Entry[r].day : r \in {q \in rs : Entry[q].dated}}
    IN  ~filtered /\ dates # {} /\ \A d \in dates : d < window[1]

\* Rows in the order of the listing.
InOrder(rs) ==
    {s \in [1..Cardinality(rs) -> rs] :
        \A i, j \in DOMAIN s : i < j => Above(s[i], s[j])}

\* Rows without a date or an IAU name are passed over, and so are private ones.
CanBeTaken(r) == Entry[r].dated /\ Entry[r].named /\ Entry[r].public

\* The window is verified here whatever the server filtered; a row met before
\* is not taken again.
Wanted(r) == CanBeTaken(r) /\ InWindow(r) /\ r \notin ToSet(todo)

\* What is published at another time is for the next walk.
Publish(r) ==
    /\ pc = "search" /\ r \notin published
    /\ published' = published \cup {r}
    /\ UNCHANGED <<disk, pc, run, walk, memory, history>>

Start ==
    /\ pc = "off" /\ run < MaxRuns
    /\ \E w \in Windows, o, f \in BOOLEAN :
        window' = w /\ overwrite' = o /\ filtered' = f
    /\ run' = run + 1
    /\ page' = 0 /\ lastPage' = {}
    /\ todo' = <<>> /\ rows' = {} /\ owner' = NoOwner /\ failed' = FALSE
    /\ publishedAtStart' = published /\ misled' = FALSE /\ taken' = {}
    /\ pc' = "search"
    /\ UNCHANGED <<published, disk, listedBy, mishaps>>

\* An empty page ends the walk, and so does a repeated one: the server ignores
\* the page number.
NothingNew(rs) ==
    \/ rs = {}
    \/ page > 0 /\ Signature(rs) = Signature(lastPage)

\* Mutant: one page too many.
OnePageMore == page <= MaxPages

PageLeft == page < MaxPages

EndOfPages ==
    /\ pc = "search" /\ PageLeft
    /\ NothingNew(SearchPage(page))
    /\ pc' = "index"
    /\ UNCHANGED <<published, disk, run, walk, memory, history>>

\* An answer without the table of results, such as an error page served with
\* status 200, reads as a page without rows.
TablelessPage ==
    /\ pc = "search" /\ PageLeft
    /\ pc' = "index" /\ misled' = TRUE
    /\ UNCHANGED <<published, disk, run, walk, memory,
                   publishedAtStart, taken, listedBy, mishaps>>

TakePage ==
    /\ pc = "search" /\ PageLeft
    /\ LET rs == SearchPage(page) IN
        /\ ~NothingNew(rs)
        /\ \E found \in InOrder({r \in rs : Wanted(r)}) : todo' = todo \o found
        /\ pc' = IF PastTheWindow(rs) THEN "index" ELSE "search"
        /\ page' = page + 1 /\ lastPage' = rs
    /\ UNCHANGED <<published, disk, run, window, overwrite, filtered,
                   rows, owner, failed, history>>

\* The first page with rows tells the columns.  Without a date, a name, and an
\* identifier or a file name, no row can be placed, and the search is given up.
MissingColumns ==
    /\ pc = "search" /\ page = 0 /\ SearchPage(0) # {}
    /\ Exit
    /\ UNCHANGED <<published, disk, run, listedBy, mishaps>>

\* A request fails the search; so does --max-pages, since nothing has shown the
\* walk to be complete.  Nothing is written.
SearchFails ==
    /\ pc = "search"
    /\ Exit
    /\ UNCHANGED <<published, disk, run, listedBy, mishaps>>

-----------------------------------------------------------------------------
(* What is known of a candidate.                                            *)

\* A row type is preferred when it is specific.
TypeOf(r) ==
    IF Entry[r].type # "SN" THEN Entry[r].type ELSE ObjectPage[Entry[r].object].type

\* The row's redshift, else the page's; a missing one is not made zero.
RedshiftKnown(r) ==
    Entry[r].redshift \/ ObjectPage[Entry[r].object].redshift

IsSupernova(r) == TypeOf(r) \in {"SN", "SN Ia", "SN Ib", "SN II", "SLSN"}

Links(r) == ObjectPage[Entry[r].object].links

\* resolve_ascii_link: by the export's file name if that is one link's only,
\* else by a mention of the spectrum in one link's table row only.
LinksOf(r) ==
    LET byName == {l \in Links(r) : l.file = Entry[r].file}
        byMention == {l \in Links(r) : r \in l.mentions}
    IN  IF Cardinality(byName) = 1 THEN byName
        ELSE IF Cardinality(byMention) = 1 THEN byMention ELSE {}

Remote(r) == (CHOOSE l \in LinksOf(r) : TRUE).data

Eligible(r) == IsSupernova(r) /\ LinksOf(r) # {}

\* The first file in name order that holds these samples, 0 for none.
FirstHolder(s) ==
    LET holders == {r \in Rows : files[r] = s}
    IN  IF holders = {} THEN 0 ELSE Min(holders)

ReleasedOwner(r) == [s \in Samples |-> IF owner[s] = r THEN 0 ELSE owner[s]]

\* Mutant: a second spectrum of an object is taken for a copy.
IsSameObject(r) ==
    \E s \in Rows \ {r} : files[s] \in Samples /\ Entry[s].object = Entry[r].object

\* A file whose residual against another that is kept is 0.  With samples that
\* are not all finite the residual is never 0, not even against the same.
IsCopy(r) ==
    /\ files[r] \in Samples \ Incomparable
    /\ owner[files[r]] \notin {0, r}
    /\ files[owner[files[r]]] = files[r]

-----------------------------------------------------------------------------
(* The candidates, one by one.                                              *)

\* Mutant: the run knows only the identities of what it downloads itself.
ReadMetadataOnly ==
    /\ pc = "index"
    /\ rows' = listed
    /\ owner' = NoOwner
    /\ taken' = ToSet(todo)
    /\ pc' = "collect"
    /\ UNCHANGED <<published, disk, run, walk, todo, failed,
                   publishedAtStart, misled, listedBy, mishaps>>

ReadDirectory ==
    /\ pc = "index"
    /\ rows' = listed
    /\ owner' = [s \in Samples |-> FirstHolder(s)]
    /\ taken' = ToSet(todo)
    /\ pc' = "collect"
    /\ UNCHANGED <<published, disk, run, walk, todo, failed,
                   publishedAtStart, misled, listedBy, mishaps>>

Current == Head(todo)
AtCandidate == pc = "collect" /\ todo # <<>>
NextCandidate == todo' = Tail(todo) /\ pc' = "collect"

\* The file that is being written, or compared with those that are kept.
InHand(r) == pc \in {"write", "compare"} /\ r = Current

\* Mutant: what is there is downloaded again.
AlwaysDownload(r) == TRUE

MustDownload(r) == files[r] = NoFile \/ overwrite

\* Not a supernova, or no link that is surely its own.
Skip ==
    /\ AtCandidate /\ ~Eligible(Current)
    /\ NextCandidate
    /\ UNCHANGED <<published, disk, run, walk, rows, owner, failed, history>>

\* The object's page cannot be loaded or read.
PageFails ==
    /\ AtCandidate
    /\ NextCandidate /\ failed' = TRUE
    /\ UNCHANGED <<published, disk, run, walk, rows, owner, history>>

AlreadyThere ==
    /\ AtCandidate /\ Eligible(Current) /\ ~MustDownload(Current)
    /\ rows' = rows \cup {Current}
    /\ NextCandidate
    /\ UNCHANGED <<published, disk, run, walk, owner, failed, history>>

\* The identity of a file that is overwritten is released before the download,
\* and stays released when the download fails.
DownloadFails ==
    /\ AtCandidate /\ Eligible(Current) /\ MustDownload(Current)
    /\ owner' = ReleasedOwner(Current)
    /\ NextCandidate /\ failed' = TRUE
    /\ mishaps' = mishaps \cup (IF files[Current] # NoFile THEN {"unreleased"} ELSE {})
    /\ UNCHANGED <<published, disk, run, walk, rows, publishedAtStart, misled, taken, listedBy>>

\* write_bytes truncates the file and fills it.
BeginWrite ==
    /\ AtCandidate /\ Eligible(Current) /\ MustDownload(Current)
    /\ owner' = ReleasedOwner(Current)
    /\ files' = [files EXCEPT ![Current] = Torn]
    /\ pc' = "write"
    /\ UNCHANGED <<published, listed, stamp, run, walk, todo, rows, failed, history>>

WriteFails ==
    /\ pc = "write"
    /\ NextCandidate /\ failed' = TRUE
    /\ mishaps' = mishaps \cup {"torn"}
    /\ UNCHANGED <<published, disk, run, walk, rows, owner,
                   publishedAtStart, misled, taken, listedBy>>

EndWrite ==
    /\ pc = "write"
    /\ files' = [files EXCEPT ![Current] = Remote(Current)]
    /\ pc' = "compare"
    /\ UNCHANGED <<published, listed, stamp, run, walk, memory, history>>

\* Mutant: the newer download replaces the file it repeats.
DropOwner ==
    /\ pc = "compare" /\ IsCopy(Current)
    /\ files' = [files EXCEPT ![owner[files[Current]]] = NoFile]
    /\ rows' = rows \cup {Current}
    /\ NextCandidate
    /\ UNCHANGED <<published, listed, stamp, run, walk, owner, failed, history>>

DropCopy ==
    /\ pc = "compare" /\ IsCopy(Current)
    /\ files' = [files EXCEPT ![Current] = NoFile]
    /\ rows' = rows \ {Current}
    /\ NextCandidate
    /\ UNCHANGED <<published, listed, stamp, run, walk, owner, failed, history>>

Keep ==
    /\ pc = "compare" /\ ~IsCopy(Current)
    /\ owner' = IF files[Current] \in Samples
                THEN [owner EXCEPT ![files[Current]] = Current] ELSE owner
    /\ rows' = rows \cup {Current}
    /\ NextCandidate
    /\ UNCHANGED <<published, disk, run, walk, failed, history>>

\* Both are written beside their place and moved there, metadata.csv first.
WriteMetadata ==
    /\ pc = "collect" /\ todo = <<>>
    /\ listed' = rows /\ listedBy' = run
    /\ pc' = "stamp"
    /\ UNCHANGED <<published, files, stamp, run, walk, memory,
                   publishedAtStart, misled, taken, mishaps>>

WriteSnapshot ==
    /\ pc = "stamp"
    /\ stamp' = run
    /\ Exit
    /\ UNCHANGED <<published, files, listed, run, listedBy, mishaps>>

Killed ==
    /\ pc # "off"
    /\ Exit
    /\ mishaps' = mishaps \cup {"killed"}
                   \cup (IF overwrite THEN {"killed overwriting"} ELSE {})
                   \cup (IF pc = "write" THEN {"torn"} ELSE {})
    /\ UNCHANGED <<published, disk, run, listedBy>>

Search ==
    \/ Start \/ EndOfPages \/ TablelessPage \/ TakePage
    \/ MissingColumns \/ SearchFails
Collect ==
    \/ ReadDirectory \/ Skip \/ PageFails \/ AlreadyThere \/ DownloadFails
    \/ BeginWrite \/ WriteFails \/ EndWrite \/ DropCopy \/ Keep
    \/ WriteMetadata \/ WriteSnapshot

ScrapeNext == Search \/ Collect \/ Killed \/ \E r \in Late : Publish(r)

ScrapeSpec == Init /\ [][ScrapeNext]_vars

-----------------------------------------------------------------------------
(* Properties.                                                              *)

\* A search that is taken to be complete has every public, dated and named
\* spectrum of the window that WISeREP listed when it began, although spectra
\* were published between its pages (collect_candidates: an incomplete walk
\* raises).  A page's worth of them makes a page repeat the one before, which
\* ends the walk; an answer without a table ends it anywhere (misled).
SearchIsComplete ==
    /\ pc = "index" /\ ~misled
    /\ Cardinality(published \ publishedAtStart) < PageSize
    =>  \A r \in publishedAtStart :
            InWindow(r) /\ CanBeTaken(r) => r \in ToSet(todo)

\* A row of metadata.csv has its file, whole or torn, also when runs were killed
\* in any step; only a run that overwrites takes a listed file away before it
\* rewrites metadata.csv ("Only add metadata after the physical file exists").
RowsHaveFiles ==
    ~overwrite /\ "killed overwriting" \notin mishaps =>
        \A r \in listed : files[r] # NoFile

\* A spectrum of finite samples is not listed a second time under another name
\* ("rejects a spectrum whose residual vs any already-kept spectrum is 0"),
\* unless a run was killed, or a download to overwrite a file failed; a file
\* that is written anew is as yet to be compared.
OneNamePerSpectrum ==
    mishaps \cap {"killed", "unreleased"} = {} =>
        \A r, s \in {q \in listed : ~InHand(q)} :
            r # s /\ files[r] \in Samples \ Incomparable => files[r] # files[s]

\* Whatever went wrong before, a run that ends without a failure has each
\* candidate it may take listed with its samples, or with another name for them
\* on disk, which is listed unless a run was killed.  Excepted is a file left
\* torn by an earlier run: it exists, so it is never fetched again.
NothingLost ==
    pc = "stamp" /\ ~failed =>
        \A r \in {q \in taken : Eligible(q)} :
            \/ r \in listed /\ files[r] = Remote(r)
            \/ /\ Remote(r) \in Samples \ Incomparable
               /\ \E s \in Rows : /\ files[s] = Remote(r)
                                  /\ s \in listed \/ "killed" \in mishaps
            \/ files[r] = Torn /\ "torn" \in mishaps

\* A run that does not overwrite leaves the files of earlier runs alone ("is
\* idempotent").  It may take away what it downloaded itself.
EarlierFilesStand ==
    [][~overwrite => \A r \in Rows :
        files'[r] # files[r] => files[r] = NoFile \/ InHand(r)]_vars
=============================================================================
