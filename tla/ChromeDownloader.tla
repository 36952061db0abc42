--------------------------- MODULE ChromeDownloader ---------------------------
(***************************************************************************)
(* utils/chrome_downloader.go: finding or fetching a Chrome before the     *)
(* server starts (EnsureChrome, called first in main.go), and the search   *)
(* every launcher repeats later (GetChromeExecutablePath).                 *)
(*                                                                         *)
(* The download directory outlives the process (docker-compose.yml keeps   *)
(* it in a volume): Crash forgets what is in memory and leaves the disk    *)
(* as it is, in the middle of an extraction too.                           *)
(*                                                                         *)
(* Abstracted: a directory of the download directory stands for the        *)
(* Chrome in it, of which disk keeps what the code or a browser can tell   *)
(* apart; a URL is the site, the entry there and the directory its archive *)
(* unpacks to; the answers of the network and of the disk are free.        *)
(***************************************************************************)
EXTENDS Naturals, Sequences, FiniteSetsExt, Functions

CONSTANTS Platforms,    \* the hosts considered
          GithubMax,    \* maxVersions of getGitHubOfficialUrls
          Mirrors,      \* how many mirrors getChinaMirrorUrls lists
          MaxRetries,   \* maxRetries of DownloadChrome
          MaxBoots,     \* bound: how often the process is started
          System,       \* a Chrome installed outside the download directory
          None          \* ""

Targets == {"win64", "win32", "linux64", "mac-x64", "mac-arm64"}

\* The directory an archive of chrome-for-testing unpacks to, and one of the
\* chromium snapshots.
OfficialDir == [t \in Targets |-> CASE t = "win64" -> "chrome-win64"
                                    [] t = "win32" -> "chrome-win32"
                                    [] t = "linux64" -> "chrome-linux64"
                                    [] t = "mac-x64" -> "chrome-mac-x64"
                                    [] t = "mac-arm64" -> "chrome-mac-arm64"]
SnapshotDir == [t \in Targets |-> IF t = "linux64" THEN "chrome-linux"
                                  ELSE IF t \in {"win64", "win32"} THEN "chrome-win"
                                  ELSE "chrome-mac"]

Dirs == {"chrome-win64", "chrome-win", "chrome-win32", "Win_x64", "Win", "chromium-win64",
         "chromium-win", "chrome-linux64", "chrome-linux", "Linux_x64", "Linux",
         "chromium-linux64", "chromium-linux", "chrome-mac-arm64", "chrome-mac-x64",
         "chrome-mac", "Mac_Arm", "Mac"}

ASSUME DownloaderAssumption ==
    /\ Platforms \subseteq [os : {"windows", "linux", "darwin", "other"},
                            arch : {"amd64", "386", "arm64", "arm"}, wsl : BOOLEAN, container : BOOLEAN]
    /\ GithubMax \in Nat /\ Mirrors \in Nat \ {0} /\ MaxRetries \in Nat \ {0}
    /\ {System, None} \cap Dirs = {}

VARIABLES platform,          \* what detectPlatform found
          disk,              \* the Chrome in each directory
          zip,               \* chrome.zip: "none", "cut" short, or "whole"
          chromeExecutable,  \* cd.chromeExecutable: the directory of the cached path
          urls,              \* what getWorkingChromeUrls listed
          todo,              \* the entries of urls not given up yet
          retry,             \* attempts at the present one
          pc,                \* where the process is
          chosen,            \* what EnsureChrome returned
          boots,             \* bound: starts of the process
          cut                \* history: directories whose last extraction was cut short

files == <<disk, zip, cut>>
memory == <<chromeExecutable, urls, todo, retry, chosen>>
vars == <<platform, files, memory, pc, boots>>

\* What is in a directory: nothing; a file too small to be a Chrome, or that
\* cannot be made executable; an executable whose other files are missing or
\* of another version; or a Chrome.
Contents == {"absent", "stub", "partial", "complete"}
Extracting == {"unpack", "truncate", "copy"}
Places == {"off", "check", "list", "fetch", "open", "look", "failed", "up"} \cup Extracting

TypeOK ==
    /\ platform \in Platforms
    /\ disk \in [Dirs -> Contents]
    /\ zip \in {"none", "cut", "whole"}
    /\ chromeExecutable \in Dirs \cup {None}
    /\ todo \subseteq DOMAIN urls
    /\ retry \in 0..(MaxRetries - 1)
    /\ pc \in Places
    /\ chosen \in Dirs \cup {System, None}
    /\ cut \subseteq Dirs

-------------------------------------------------------------------------------
(* The platform. *)

IsARM(p) == p.arch \in {"arm64", "arm"}

mapChromePlatform(p) ==
    CASE p.os = "linux"  -> IF p.arch = "amd64" THEN "linux64" ELSE "linux32"
      [] p.os = "darwin" -> IF IsARM(p) THEN "mac-arm64" ELSE "mac-x64"
      [] p.os = "windows" -> IF p.arch = "amd64" THEN "win64" ELSE "win32"
      [] OTHER -> "win64"

IsSupported(p) == mapChromePlatform(p) \in Targets

getFallbackPlatform(p) ==
    CASE p.os = "linux" -> "linux64"
      [] p.os = "darwin" -> IF IsARM(p) THEN "mac-arm64" ELSE "mac-x64"
      [] OTHER -> "win64"

Target(p) == IF IsSupported(p) THEN mapChromePlatform(p) ELSE getFallbackPlatform(p)

(* The search: the first directory whose executable passes for a Chrome,   *)
(* or the default one.                                                     *)

WindowsPaths(p) ==
    (IF p.arch = "386" THEN <<"chrome-win32", "chrome-win", "Win">> ELSE <<>>)
        \o <<"chrome-win64", "chrome-win", "chrome-win32", "Win_x64", "Win",
             "chromium-win64", "chromium-win">>
LinuxPaths(p) ==
    (IF p.wsl THEN <<"chrome-linux64", "Linux_x64">> ELSE <<>>)
        \o <<"chrome-linux64", "chrome-linux", "Linux_x64", "Linux",
             "chromium-linux64", "chromium-linux">>
\* Faulty: a directory of the search is forgotten.
MacPathsNoSnapshot(p) == IF IsARM(p) THEN <<"chrome-mac-arm64", "Mac_Arm", "Mac">>
                                     ELSE <<"chrome-mac-x64", "Mac">>
MacPaths(p) == IF IsARM(p) THEN <<"chrome-mac-arm64", "chrome-mac", "Mac_Arm", "Mac">>
                           ELSE <<"chrome-mac-x64", "chrome-mac", "Mac">>
possiblePaths(p) == CASE p.os = "linux" -> LinuxPaths(p)
                      [] p.os = "darwin" -> MacPaths(p)
                      [] OTHER -> WindowsPaths(p)
Searched(p) == Range(possiblePaths(p))

validateChromeExecutable(d) == disk[d] \in {"partial", "complete"}
Exists(d) == disk[d] # "absent"                                 \* os.Stat finds the executable

getDefaultChromePath(p) ==
    CASE p.os = "linux" -> "chrome-linux64"
      [] p.os = "darwin" -> IF IsARM(p) THEN "chrome-mac-arm64" ELSE "chrome-mac-x64"
      [] p.os = "windows" -> IF p.arch = "amd64" THEN "chrome-win64" ELSE "chrome-win32"
      [] OTHER -> "chrome-win64"

Found(p) == {i \in DOMAIN possiblePaths(p) : validateChromeExecutable(possiblePaths(p)[i])}
findChrome(p) == IF Found(p) = {} THEN getDefaultChromePath(p) ELSE possiblePaths(p)[Min(Found(p))]

\* GetChromeExecutablePath with path cached, and the path IsChromeBinaryExists
\* ends with: it searches again when nothing is where the first answer says.
GetChromeExecutablePath(path) == IF path # None THEN path ELSE findChrome(platform)
PathAfterLook(path) ==
    IF Exists(GetChromeExecutablePath(path)) THEN GetChromeExecutablePath(path) ELSE findChrome(platform)
\* Faulty: a path is enough.
AnyPathExists(path) == PathAfterLook(path) # None
IsChromeBinaryExists(path) == Exists(PathAfterLook(path))

-------------------------------------------------------------------------------
(* The sources. *)

URL(site, n, dir) == [site |-> site, n |-> n, dir |-> dir]
getGitHubOfficialUrls(t, n) == [i \in 1..n |-> URL("github", i, OfficialDir[t])]
getChinaMirrorUrls(t) == [i \in 1..Mirrors |-> URL("mirror", i, SnapshotDir[t])]

\* The index of the Huawei mirror lists any two snapshots, in any order, among
\* which the one the list of mirrors names as well (its second).
getHuaweiCloudUrls(t) ==
    LET listed == {URL("huawei", i, SnapshotDir[t]) : i \in {1, 2}}
                  \cup (IF t # "mac-arm64" THEN {URL("mirror", 2, SnapshotDir[t])} ELSE {})
    IN  {<<>>} \cup {<<u>> : u \in listed} \cup {<<u, v>> : u \in listed, v \in listed}

\* The container's extra source is the static one again, for two targets.
getVerifiedStaticUrls(t) == <<URL("static", 1, OfficialDir[t])>>
getContainerOptimizedUrls(t) == IF t \in {"win64", "linux64"} THEN getVerifiedStaticUrls(t) ELSE <<>>

\* The positions deduplicateUrls keeps.
deduplicateUrls(list) == {i \in DOMAIN list : \A j \in 1..(i - 1) : list[j] # list[i]}

Source == urls[Min(todo)]
-------------------------------------------------------------------------------
(* EnsureChrome. *)

\* Nothing on disk but, perhaps, one Chrome somebody unpacked there.
Init ==
    /\ platform \in Platforms
    /\ disk \in {[d \in Dirs |-> IF d \in there THEN "complete" ELSE "absent"] :
                     there \in {{}} \cup {{d} : d \in Searched(platform)}}
    /\ zip = "none" /\ cut = {}
    /\ chromeExecutable = None /\ urls = <<>> /\ todo = {} /\ retry = 0 /\ chosen = None
    /\ pc = "off" /\ boots = 0

Goto(from, to) == pc = from /\ pc' = to /\ UNCHANGED <<platform, boots>>

Boot ==
    /\ boots < MaxBoots /\ boots' = boots + 1
    /\ pc = "off" /\ pc' = "check"
    /\ UNCHANGED <<platform, files, memory>>

\* The look that decides whether anything has to be fetched.
Check ==
    /\ chromeExecutable' = PathAfterLook(None)
    /\ IF IsChromeBinaryExists(None)
       THEN Goto("check", "up") /\ chosen' = PathAfterLook(None)
       ELSE Goto("check", "list") /\ UNCHANGED chosen
    /\ UNCHANGED <<files, urls, todo, retry>>

\* The sites answer or not; the download directory is made.
ListSources ==
    /\ Goto("list", "fetch")
    /\ \E g \in 0..GithubMax, isInChina \in BOOLEAN,
          huawei \in getHuaweiCloudUrls(Target(platform)) :
            urls' = getGitHubOfficialUrls(Target(platform), g)
                    \o (IF isInChina THEN getChinaMirrorUrls(Target(platform)) ELSE <<>>)
                    \o huawei
                    \o getVerifiedStaticUrls(Target(platform))
                    \o (IF platform.container THEN getContainerOptimizedUrls(Target(platform)) ELSE <<>>)
    /\ todo' = deduplicateUrls(urls')
    /\ retry' = 0
    /\ UNCHANGED <<files, chromeExecutable, chosen>>

MkdirFails == Goto("list", "failed") /\ UNCHANGED <<files, memory>>

\* Faulty: the sources are taken in turn for ever.
SameSource == retry' = 0 /\ UNCHANGED todo
NextSource == todo' = todo \ {Min(todo)} /\ retry' = 0
TryAgain == IF retry + 1 < MaxRetries THEN retry' = retry + 1 /\ UNCHANGED todo ELSE NextSource

\* What the last attempt left of chrome.zip when this one begins.
Leftover == IF retry > 0 THEN "none" ELSE zip

Fetching == todo # {} /\ UNCHANGED <<disk, cut, chromeExecutable, urls, chosen>>

DownloadFile == Goto("fetch", "open") /\ Fetching /\ zip' = "whole" /\ UNCHANGED <<todo, retry>>

\* An answer of less than 10 MB is thrown away.
DownloadTooSmall == Goto("fetch", "fetch") /\ Fetching /\ zip' = "none" /\ TryAgain

\* No answer, a status other than 200, or an answer that breaks off.
DownloadFails == Goto("fetch", "fetch") /\ Fetching /\ zip' \in {Leftover, "cut"} /\ TryAgain

DownloadMissing == Goto("fetch", "fetch") /\ Fetching /\ zip' = Leftover /\ NextSource

\* DownloadChrome returns; the list, the position in it and the count of
\* attempts are its own.
Return == urls' = <<>> /\ todo' = {} /\ retry' = 0

NoSourceLeft ==
    /\ Goto("fetch", "failed") /\ todo = {}
    /\ Return
    /\ UNCHANGED <<files, chromeExecutable, chosen>>

Unpacking == UNCHANGED <<chromeExecutable, urls, chosen>>

\* Not a zip file, or a name in it that leaves the directory.
OpenFails ==
    /\ Goto("open", "fetch") /\ Unpacking
    /\ zip' = "none" /\ NextSource
    /\ UNCHANGED <<disk, cut>>

\* The archive holds no executable where the search expects it.
ExtractElsewhere ==
    /\ Goto("open", "look") /\ Unpacking
    /\ zip' = "none"
    /\ UNCHANGED <<disk, cut, todo, retry>>

\* The first files replace those of a Chrome already there.
ExtractBegins ==
    /\ Goto("open", "unpack") /\ Unpacking
    /\ disk' = [disk EXCEPT ![Source.dir] = IF @ = "complete" THEN "partial" ELSE @]
    /\ UNCHANGED <<zip, cut, todo, retry>>

\* O_TRUNC on the executable, then its bytes, then the files after it.
Extract(from, to, content) ==
    /\ Goto(from, to) /\ Unpacking
    /\ disk' = [disk EXCEPT ![Source.dir] = content]
    /\ UNCHANGED <<todo, retry>>

ExtractTruncates == Extract("unpack", "truncate", "stub") /\ UNCHANGED <<zip, cut>>
ExtractCopies == Extract("truncate", "copy", "partial") /\ UNCHANGED <<zip, cut>>
\* Abstracted: what has been extracted is more than the megabyte that the
\* validation asks for; a bundle with a small launcher would be refused.
ExtractEnds ==
    /\ Extract("copy", "look", "complete")
    /\ zip' = "none" /\ cut' = cut \ {Source.dir}

\* A damaged entry or a full disk: what has been written stays.
ExtractFails ==
    /\ \E place \in Extracting : Goto(place, "fetch")
    /\ Unpacking
    /\ zip' = "none" /\ cut' = cut \cup {Source.dir} /\ NextSource
    /\ UNCHANGED disk

\* Faulty: the cached path is kept.
PathKept == chromeExecutable
\* After an extraction the cached path is forgotten.
PathAfterExtraction == None

LookAgain ==
    /\ chromeExecutable' = PathAfterLook(PathAfterExtraction)
    /\ IF IsChromeBinaryExists(PathAfterExtraction)
       THEN Goto("look", "up") /\ chosen' = chromeExecutable' /\ Return
       ELSE Goto("look", "fetch") /\ UNCHANGED <<urls, chosen>> /\ NextSource
    /\ UNCHANGED files

\* Only on Windows is an installed Chrome looked for.
findSystemChrome ==
    /\ Goto("failed", "up")
    /\ chosen' \in {None} \cup (IF platform.os = "windows" THEN {System} ELSE {})
    /\ UNCHANGED <<files, chromeExecutable, urls, todo, retry>>

\* The process is killed, or ends after it served.
Crash ==
    /\ pc # "off"
    /\ Goto(pc, "off")
    /\ cut' = IF pc \in Extracting THEN cut \cup {Source.dir} ELSE cut
    /\ chromeExecutable' = None /\ chosen' = None /\ Return
    /\ UNCHANGED <<disk, zip>>

Step ==
    \/ Check \/ ListSources \/ MkdirFails
    \/ DownloadFile \/ DownloadTooSmall \/ DownloadFails \/ DownloadMissing \/ NoSourceLeft
    \/ OpenFails \/ ExtractElsewhere \/ ExtractBegins
    \/ ExtractTruncates \/ ExtractCopies \/ ExtractEnds \/ ExtractFails
    \/ LookAgain \/ findSystemChrome

Next == Boot \/ Step \/ Crash

\* Every call of EnsureChrome is bounded by a timeout; nothing makes the
\* process crash or start again.
Spec == Init /\ [][Next]_vars /\ WF_vars(Step)

-------------------------------------------------------------------------------
(* Properties. *)

\* Nothing the start of the server does, over any number of crashes, spoils a
\* Chrome that was complete: a download begins, and goes on to its next
\* source, only while the search finds nothing, and every archive unpacks to
\* a directory that is searched (823-948, 592-692, 1447-1504).
GoodChromeKept == [][\A d \in Dirs : disk[d] = "complete" => disk'[d] = "complete"]_vars

\* The Chrome EnsureChrome reports is there, and is a complete one unless its
\* last extraction, in this life of the process or in an earlier one, was cut
\* short: IsChromeBinaryExists takes any file for a Chrome (755-780).
WholeUnlessCut ==
    pc = "up" /\ chosen \in Dirs => disk[chosen] = "complete" \/ chosen \in cut

\* The launchers, which search again with downloaders of their own
\* (services/chrome_manager.go:134, utils/chrome.go:1077), find the Chrome
\* that EnsureChrome reported.
LaunchersAgree == pc = "up" /\ chosen \in Dirs => findChrome(platform) = chosen

\* The server does without a Chrome of its own only when none is on disk: no
\* source's directory is missing from the search, and no failure comes after
\* a success.
NothingOverlooked ==
    pc = "up" /\ chosen \notin Dirs =>
        /\ disk[OfficialDir[Target(platform)]] # "complete"
        /\ disk[SnapshotDir[Target(platform)]] # "complete"

\* EnsureChrome holds the server's start up for a bounded number of attempts
\* only: it returns, or the process is killed.
StartEnds == pc \notin {"off", "up"} ~> pc \in {"off", "up"}
===============================================================================
