------------------------ MODULE ChromeDownloaderProofs ------------------------
(***************************************************************************)
(* What ChromeDownloader promises, for every set of hosts, number of       *)
(* sources, attempts and starts.  The argument is in Inv: while the        *)
(* downloader is at work no searched directory holds a complete Chrome,    *)
(* every source writes to a searched directory, and what an extraction     *)
(* leaves unfinished is in cut.                                            *)
(*                                                                         *)
(* The measure WorkLeft, at the end, counts what a start has left to do:   *)
(* every step of the downloader lowers it.                                 *)
(***************************************************************************)
EXTENDS ChromeDownloader, FiniteSetTheorems, SequenceTheorems, WellFoundedInduction, NaturalsInduction, TLAPS

(* The smallest of some numbers is one of them. *)
LEMMA MinIsMember ==
    ASSUME NEW S \in SUBSET Nat, S # {}
    PROVE  Min(S) \in S
<1>1. PICK x \in S : \A y \in S : <<y, x>> \notin OpToRel(<, Nat)
  BY WFMin, NatLessThanWellFounded, Zenon
<1>2. \A y \in S : ~ (y < x)
  BY <1>1, Zenon DEF OpToRel
<1>3. x \in Nat /\ S \subseteq Nat
  OBVIOUS
<1>4. \A y \in S : x =< y
  BY <1>2, <1>3
<1> QED BY <1>4 DEF Min

Archives(p) == {OfficialDir[Target(p)], SnapshotDir[Target(p)]}

(* Every archive of a host's sources unpacks to a directory of its search. *)
LEMMA TargetIsOne ==
    ASSUME NEW p \in Platforms
    PROVE  Target(p) \in Targets
BY DownloaderAssumption DEF Target, IsSupported, mapChromePlatform, getFallbackPlatform, Targets

(* A search path is a sequence of directories that holds those of its tail. *)
LEMMA PrefixedPath ==
    ASSUME NEW pre \in Seq(Dirs), NEW path \in Seq(Dirs), NEW q, q = pre \o path
    PROVE  q \in Seq(Dirs) /\ \A i \in DOMAIN path : path[i] \in Range(q)
<1>1. q \in Seq(Dirs) /\ Len(q) = Len(pre) + Len(path)
  BY ConcatProperties
<1>2. ASSUME NEW i \in DOMAIN path
      PROVE  path[i] \in Range(q)
  <2>1. i \in 1..Len(path) /\ Len(pre) \in Nat /\ Len(path) \in Nat
    BY <1>2, LenProperties
  <2>2. q[Len(pre) + i] = path[i]
    BY <2>1, ConcatProperties
  <2>3. Len(pre) + i \in DOMAIN q
    BY <2>1, <1>1, LenProperties
  <2> QED BY <2>2, <2>3 DEF Range
<1> QED BY <1>1, <1>2

LEMMA ArchivesSearched ==
    ASSUME NEW p \in Platforms
    PROVE  /\ possiblePaths(p) \in Seq(Dirs)
           /\ Archives(p) \subseteq Searched(p)
           /\ Archives(p) \subseteq Dirs
           /\ getDefaultChromePath(p) \in Dirs
<1> DEFINE linux == <<"chrome-linux64", "chrome-linux", "Linux_x64", "Linux",
                      "chromium-linux64", "chromium-linux">>
           windows == <<"chrome-win64", "chrome-win", "chrome-win32", "Win_x64", "Win",
                        "chromium-win64", "chromium-win">>
<1> USE DEF Dirs
<1>1. CASE p.os = "linux"
  <2>1. Target(p) = "linux64"
    BY <1>1 DEF Target, IsSupported, mapChromePlatform, getFallbackPlatform, Targets
  <2>2. linux \in Seq(Dirs)
    OBVIOUS
  <2> DEFINE pre == IF p.wsl THEN <<"chrome-linux64", "Linux_x64">> ELSE <<>>
  <2>3. pre \in Seq(Dirs) /\ possiblePaths(p) = pre \o linux
    <3>1. <<"chrome-linux64", "Linux_x64">> \in Seq(Dirs) /\ <<>> \in Seq(Dirs)
      OBVIOUS
    <3> QED BY <1>1, <3>1 DEF possiblePaths, LinuxPaths
  <2> HIDE DEF pre
  <2>4. possiblePaths(p) \in Seq(Dirs) /\ \A i \in DOMAIN linux : linux[i] \in Searched(p)
    BY <2>2, <2>3, PrefixedPath DEF Searched
  <2>5. 1 \in DOMAIN linux /\ 2 \in DOMAIN linux /\ linux[1] = "chrome-linux64" /\ linux[2] = "chrome-linux"
    OBVIOUS
  <2>6. Archives(p) = {"chrome-linux64", "chrome-linux"}
    BY <2>1 DEF Archives, OfficialDir, SnapshotDir, Targets
  <2> QED BY <1>1, <2>4, <2>5, <2>6 DEF getDefaultChromePath
<1>2. CASE p.os = "darwin"
  <2>1. Target(p) = IF IsARM(p) THEN "mac-arm64" ELSE "mac-x64"
    BY <1>2 DEF Target, IsSupported, mapChromePlatform, getFallbackPlatform, Targets
  <2>2. Archives(p) = {IF IsARM(p) THEN "chrome-mac-arm64" ELSE "chrome-mac-x64", "chrome-mac"}
    BY <2>1 DEF Archives, OfficialDir, SnapshotDir, Targets
  <2>3. possiblePaths(p) = MacPaths(p)
    BY <1>2 DEF possiblePaths
  <2>4. MacPaths(p) \in Seq(Dirs)
    <3>1. /\ <<"chrome-mac-arm64", "chrome-mac", "Mac_Arm", "Mac">> \in Seq(Dirs)
          /\ <<"chrome-mac-x64", "chrome-mac", "Mac">> \in Seq(Dirs)
      OBVIOUS
    <3> QED BY <3>1 DEF MacPaths
  <2>5. /\ 1 \in DOMAIN MacPaths(p) /\ 2 \in DOMAIN MacPaths(p)
        /\ MacPaths(p)[1] = IF IsARM(p) THEN "chrome-mac-arm64" ELSE "chrome-mac-x64"
        /\ MacPaths(p)[2] = "chrome-mac"
    BY DEF MacPaths
  <2> QED BY <1>2, <2>2, <2>3, <2>4, <2>5 DEF getDefaultChromePath, Searched, Range
<1>3. CASE p.os \notin {"linux", "darwin"}
  <2>1. Target(p) \in {"win64", "win32"}
    BY <1>3 DEF Target, IsSupported, mapChromePlatform, getFallbackPlatform, Targets
  <2>2. windows \in Seq(Dirs)
    OBVIOUS
  <2> DEFINE pre == IF p.arch = "386" THEN <<"chrome-win32", "chrome-win", "Win">> ELSE <<>>
  <2>3. pre \in Seq(Dirs) /\ possiblePaths(p) = pre \o windows
    <3>1. <<"chrome-win32", "chrome-win", "Win">> \in Seq(Dirs) /\ <<>> \in Seq(Dirs)
      OBVIOUS
    <3>2. possiblePaths(p) = WindowsPaths(p)
      BY <1>3 DEF possiblePaths
    <3> QED BY <3>1, <3>2 DEF WindowsPaths
  <2> HIDE DEF pre
  <2>4. possiblePaths(p) \in Seq(Dirs) /\ \A i \in DOMAIN windows : windows[i] \in Searched(p)
    BY <2>2, <2>3, PrefixedPath DEF Searched
  <2>5. /\ 1 \in DOMAIN windows /\ 2 \in DOMAIN windows /\ 3 \in DOMAIN windows
        /\ windows[1] = "chrome-win64" /\ windows[2] = "chrome-win" /\ windows[3] = "chrome-win32"
    OBVIOUS
  <2>6. Archives(p) \subseteq {"chrome-win64", "chrome-win", "chrome-win32"}
    BY <2>1 DEF Archives, OfficialDir, SnapshotDir, Targets
  <2> QED BY <1>3, <2>4, <2>5, <2>6 DEF getDefaultChromePath
<1> QED BY <1>1, <1>2, <1>3

-------------------------------------------------------------------------------
(* The search finds an executable when there is one that passes for a Chrome. *)
LEMMA SearchResult ==
    ASSUME TypeOK
    PROVE  /\ findChrome(platform) \in Dirs
           /\ (\E d \in Searched(platform) : validateChromeExecutable(d))
                 => validateChromeExecutable(findChrome(platform))
           /\ PathAfterLook(None) = findChrome(platform)
<1> DEFINE paths == possiblePaths(platform)
<1>1. paths \in Seq(Dirs) /\ getDefaultChromePath(platform) \in Dirs
  BY ArchivesSearched DEF TypeOK
<1>2. ASSUME Found(platform) # {}
      PROVE  findChrome(platform) \in Dirs /\ validateChromeExecutable(findChrome(platform))
  <2>1. DOMAIN paths \subseteq Nat /\ \A i \in DOMAIN paths : paths[i] \in Dirs
    BY <1>1, LenProperties, ElementOfSeq
  <2>2. Found(platform) \in SUBSET Nat
    BY <2>1 DEF Found
  <2>3. Min(Found(platform)) \in Found(platform)
    BY <1>2, <2>2, MinIsMember
  <2> QED BY <1>2, <2>1, <2>3 DEF findChrome, Found
<1>3. (\E d \in Searched(platform) : validateChromeExecutable(d)) => Found(platform) # {}
  BY DEF Searched, Range, Found
<1>4. PathAfterLook(None) = findChrome(platform)
  BY DEF PathAfterLook, GetChromeExecutablePath
<1> QED BY <1>1, <1>2, <1>3, <1>4 DEF findChrome

Working == {"list", "fetch", "open", "failed"} \cup Extracting

(* No archive would be unpacked over a complete Chrome. *)
NoneComplete == \A d \in Archives(platform) : disk[d] # "complete"

Sites == {"github", "mirror", "huawei", "static"}
SourcesFit == urls \in Seq([site : Sites, n : Nat, dir : Archives(platform)])
SourceLeft == pc \in {"open", "look"} \cup Extracting => todo # {}
WorkingMeansNone == pc \in Working => NoneComplete
IncompleteIsCut ==
    \A d \in Dirs : disk[d] \in {"stub", "partial"} => d \in cut \/ (pc \in Extracting /\ d = Source.dir)
ReportIsSearch ==
    pc = "up" => IF chosen \in Dirs THEN chosen = findChrome(platform) /\ Exists(chosen) ELSE NoneComplete

Inv == TypeOK /\ SourcesFit /\ SourceLeft /\ WorkingMeansNone /\ IncompleteIsCut /\ ReportIsSearch

(* The present source unpacks to one of the two directories of the host. *)
LEMMA SourceFits ==
    ASSUME TypeOK, SourcesFit, todo # {}
    PROVE  Min(todo) \in todo /\ Source.dir \in Archives(platform) /\ Source.dir \in Dirs
<1>1. todo \in SUBSET Nat /\ todo \subseteq DOMAIN urls
  BY LenProperties DEF TypeOK, SourcesFit
<1>2. Min(todo) \in todo
  BY <1>1, MinIsMember
<1>3. urls[Min(todo)] \in [site : Sites, n : Nat, dir : Archives(platform)]
  BY <1>1, <1>2, ElementOfSeq, LenProperties DEF SourcesFit
<1>4. Archives(platform) \subseteq Dirs
  BY ArchivesSearched DEF TypeOK
<1> QED BY <1>2, <1>3, <1>4 DEF Source

(* A look that finds nothing means that no Chrome is where an archive goes. *)
LEMMA NothingFound ==
    ASSUME TypeOK, ~ IsChromeBinaryExists(None)
    PROVE  NoneComplete
<1>1. ~ validateChromeExecutable(findChrome(platform))
  BY SearchResult DEF IsChromeBinaryExists, Exists, validateChromeExecutable
<1>2. Archives(platform) \subseteq Searched(platform)
  BY ArchivesSearched DEF TypeOK
<1> QED BY <1>1, <1>2, SearchResult DEF NoneComplete, validateChromeExecutable

LEMMA FunctionIsSeq ==
    ASSUME NEW S, NEW n \in Nat, NEW f \in [1..n -> S]
    PROVE  f \in Seq(S)
BY SeqDef

LEMMA ShortSeqs ==
    ASSUME NEW S
    PROVE  <<>> \in Seq(S) /\ \A u \in S : <<u>> \in Seq(S) /\ \A v \in S : <<u, v>> \in Seq(S)
OBVIOUS

(* The list holds only what the host's sources offer. *)
LEMMA ListFits ==
    ASSUME NEW p \in Platforms, NEW g \in Nat, NEW h \in getHuaweiCloudUrls(Target(p)),
           NEW t, t = Target(p), NEW U, U = [site : Sites, n : Nat, dir : Archives(p)]
    PROVE  /\ getGitHubOfficialUrls(t, g) \in Seq(U)
           /\ getChinaMirrorUrls(t) \in Seq(U)
           /\ h \in Seq(U)
           /\ getVerifiedStaticUrls(t) \in Seq(U)
           /\ getContainerOptimizedUrls(t) \in Seq(U)
<1>1. \A site \in Sites, n \in Nat : /\ URL(site, n, OfficialDir[t]) \in U
                                    /\ URL(site, n, SnapshotDir[t]) \in U
  BY DEF URL, Archives
<1> USE DEF Sites
<1>2. getGitHubOfficialUrls(t, g) \in Seq(U)
  <2>1. \A i \in 1..g : URL("github", i, OfficialDir[t]) \in U
    BY <1>1
  <2>2. getGitHubOfficialUrls(t, g) \in [1..g -> U]
    BY <2>1 DEF getGitHubOfficialUrls
  <2> QED BY <2>2, FunctionIsSeq
<1>3. getChinaMirrorUrls(t) \in Seq(U)
  <2>1. \A i \in 1..Mirrors : URL("mirror", i, SnapshotDir[t]) \in U
    BY <1>1
  <2>2. Mirrors \in Nat
    BY DownloaderAssumption
  <2>3. getChinaMirrorUrls(t) \in [1..Mirrors -> U]
    BY <2>1 DEF getChinaMirrorUrls
  <2> QED BY <2>2, <2>3, FunctionIsSeq
<1>4. h \in Seq(U)
  <2>1. /\ URL("huawei", 1, SnapshotDir[t]) \in U /\ URL("huawei", 2, SnapshotDir[t]) \in U
        /\ URL("mirror", 2, SnapshotDir[t]) \in U
    BY <1>1
  <2> DEFINE listed == {URL("huawei", i, SnapshotDir[t]) : i \in {1, 2}}
                       \cup (IF t # "mac-arm64" THEN {URL("mirror", 2, SnapshotDir[t])} ELSE {})
  <2>2. listed \subseteq U
    BY <2>1
  <2>3. h \in {<<>>} \cup {<<u>> : u \in listed} \cup {<<u, v>> : u \in listed, v \in listed}
    BY DEF getHuaweiCloudUrls
  <2> HIDE DEF listed
  <2>4. CASE h = <<>>
    BY <2>4, ShortSeqs
  <2>5. ASSUME NEW u \in listed, h = <<u>>
        PROVE  h \in Seq(U)
    BY <2>2, <2>5, ShortSeqs
  <2>6. ASSUME NEW u \in listed, NEW v \in listed, h = <<u, v>>
        PROVE  h \in Seq(U)
    BY <2>2, <2>6, ShortSeqs
  <2>7. \/ h = <<>>
        \/ \E u \in listed : h = <<u>>
        \/ \E u \in listed, v \in listed : h = <<u, v>>
    BY <2>3
  <2> QED BY <2>4, <2>5, <2>6, <2>7, Zenon
<1>5. getVerifiedStaticUrls(t) \in Seq(U)
  <2> DEFINE u == URL("static", 1, OfficialDir[t])
  <2>1. u \in U
    BY <1>1
  <2>2. getVerifiedStaticUrls(t) = <<u>>
    BY DEF getVerifiedStaticUrls
  <2> HIDE DEF u
  <2> QED BY <2>1, <2>2, ShortSeqs
<1>6. getContainerOptimizedUrls(t) \in Seq(U)
  BY <1>5 DEF getContainerOptimizedUrls
<1> QED BY <1>2, <1>3, <1>4, <1>5, <1>6

LEMMA SourcesStep ==
    ASSUME TypeOK, ListSources
    PROVE  /\ urls' \in Seq([site : Sites, n : Nat, dir : Archives(platform)])
           /\ todo' \subseteq DOMAIN urls'
<1> DEFINE t == Target(platform)
           U == [site : Sites, n : Nat, dir : Archives(platform)]
<1>1. platform \in Platforms /\ GithubMax \in Nat
  BY DownloaderAssumption DEF TypeOK
<1>2. PICK g \in 0..GithubMax, isInChina \in BOOLEAN, h \in getHuaweiCloudUrls(t) :
         urls' = getGitHubOfficialUrls(t, g)
                 \o (IF isInChina THEN getChinaMirrorUrls(t) ELSE <<>>)
                 \o h
                 \o getVerifiedStaticUrls(t)
                 \o (IF platform.container THEN getContainerOptimizedUrls(t) ELSE <<>>)
  BY DEF ListSources
<1>t. t = Target(platform) /\ U = [site : Sites, n : Nat, dir : Archives(platform)]
  OBVIOUS
<1> HIDE DEF t, U
<1>3. /\ getGitHubOfficialUrls(t, g) \in Seq(U) /\ getChinaMirrorUrls(t) \in Seq(U) /\ h \in Seq(U)
      /\ getVerifiedStaticUrls(t) \in Seq(U) /\ getContainerOptimizedUrls(t) \in Seq(U)
  <2>1. g \in Nat /\ platform \in Platforms /\ h \in getHuaweiCloudUrls(Target(platform))
    BY <1>1, <1>2, <1>t
  <2> QED BY <2>1, <1>t, ListFits
<1>4. <<>> \in Seq(U)
  BY EmptySeq
<1>5. urls' \in Seq(U)
  <2> DEFINE a == getGitHubOfficialUrls(t, g)
             b == IF isInChina THEN getChinaMirrorUrls(t) ELSE <<>>
             c == getVerifiedStaticUrls(t)
             d == IF platform.container THEN getContainerOptimizedUrls(t) ELSE <<>>
  <2>1. a \in Seq(U) /\ b \in Seq(U) /\ h \in Seq(U) /\ c \in Seq(U) /\ d \in Seq(U)
    BY <1>3, <1>4
  <2>2. urls' = a \o b \o h \o c \o d
    BY <1>2
  <2> HIDE DEF a, b, c, d
  <2> QED BY <2>1, <2>2, ConcatProperties
<1> QED BY <1>5, <1>t DEF ListSources, deduplicateUrls

LEMMA InitInv == Init => Inv
BY EmptySeq, DownloaderAssumption
   DEF Init, Inv, TypeOK, SourcesFit, SourceLeft, WorkingMeansNone, IncompleteIsCut, ReportIsSearch,
       Contents, Places, Extracting, Working

(* Giving up a source leaves the others; trying again leaves them all. *)
LEMMA TodoStep ==
    ASSUME TypeOK, SourcesFit, UNCHANGED urls, NextSource \/ TryAgain
    PROVE  todo' \subseteq DOMAIN urls' /\ retry' \in 0..(MaxRetries - 1)
BY DownloaderAssumption DEF TypeOK, NextSource, TryAgain

-------------------------------------------------------------------------------
LEMMA CheckInv ==
    ASSUME Inv, Check
    PROVE  Inv'
<1>1. findChrome(platform) \in Dirs /\ PathAfterLook(None) = findChrome(platform)
  BY SearchResult DEF Inv
<1>2. IsChromeBinaryExists(None) \/ NoneComplete
  BY NothingFound DEF Inv
<1>3. IsChromeBinaryExists(None) => Exists(findChrome(platform))
  BY <1>1 DEF IsChromeBinaryExists
<1>4. findChrome(platform)' = findChrome(platform)
  BY DEF Check, Goto, files, findChrome, Found, validateChromeExecutable
<1> QED
  BY <1>1, <1>2, <1>3, <1>4
     DEF Check, Goto, files, Inv, TypeOK, SourcesFit, SourceLeft, WorkingMeansNone, NoneComplete,
         IncompleteIsCut, ReportIsSearch, Places, Extracting, Working, Exists

LEMMA ListInv ==
    ASSUME Inv, ListSources
    PROVE  Inv'
<1>1. TypeOK /\ UNCHANGED platform
  BY DEF Inv, ListSources, Goto
<1>2. SourcesFit' /\ todo' \subseteq DOMAIN urls'
  BY <1>1, SourcesStep DEF SourcesFit, Archives
<1>3. /\ pc = "list" /\ pc' = "fetch" /\ retry' = 0
      /\ UNCHANGED <<platform, disk, zip, cut, chromeExecutable, chosen>>
  BY DEF ListSources, Goto, files
<1> QED
  BY <1>1, <1>2, <1>3, DownloaderAssumption
     DEF Inv, TypeOK, SourcesFit, SourceLeft, WorkingMeansNone, NoneComplete,
         IncompleteIsCut, ReportIsSearch, Places, Extracting, Working, Contents, Archives

(* DownloadFile, DownloadTooSmall, DownloadFails, DownloadMissing. *)
LEMMA FetchInv ==
    ASSUME Inv, DownloadFile \/ DownloadTooSmall \/ DownloadFails \/ DownloadMissing
    PROVE  Inv'
<1>1. /\ UNCHANGED <<platform, disk, cut, chromeExecutable, urls, chosen>>
      /\ pc = "fetch" /\ pc' \in {"fetch", "open"} /\ (pc' = "open" => todo' # {})
      /\ zip' \in {"none", "cut", "whole"}
  BY DEF DownloadFile, DownloadTooSmall, DownloadFails, DownloadMissing, Fetching, Goto, Leftover, Inv, TypeOK
<1>2. todo' \subseteq DOMAIN urls' /\ retry' \in 0..(MaxRetries - 1)
  <2>1. (UNCHANGED <<todo, retry>>) \/ NextSource \/ TryAgain
    BY DEF DownloadFile, DownloadTooSmall, DownloadFails, DownloadMissing
  <2>2. CASE UNCHANGED <<todo, retry>>
    BY <1>1, <2>2 DEF Inv, TypeOK
  <2>3. CASE NextSource \/ TryAgain
    BY <1>1, <2>3, TodoStep DEF Inv
  <2> QED BY <2>1, <2>2, <2>3
<1> QED
  BY <1>1, <1>2 DEF Inv, TypeOK, SourcesFit, SourceLeft, WorkingMeansNone, NoneComplete,
         IncompleteIsCut, ReportIsSearch, Places, Extracting, Working, Contents, Archives

(* The actions that leave an archive aside or have none: nothing is written. *)
LEMMA AsideInv ==
    ASSUME Inv, MkdirFails \/ NoSourceLeft \/ OpenFails \/ ExtractElsewhere \/ findSystemChrome
    PROVE  Inv'
<1> USE DEF Goto, files, memory, Contents, Archives
<1>1. CASE MkdirFails
  BY <1>1 DEF MkdirFails, Inv, TypeOK, SourcesFit, SourceLeft, WorkingMeansNone, NoneComplete,
         IncompleteIsCut, ReportIsSearch, Places, Extracting, Working
<1>2. CASE NoSourceLeft
  BY <1>2, EmptySeq, DownloaderAssumption DEF NoSourceLeft, Return, Inv, TypeOK, SourcesFit, SourceLeft, WorkingMeansNone, NoneComplete,
         IncompleteIsCut, ReportIsSearch, Places, Extracting, Working
<1>3. CASE OpenFails
  <2>1. todo' \subseteq DOMAIN urls' /\ retry' \in 0..(MaxRetries - 1)
    BY <1>3, TodoStep DEF OpenFails, Unpacking, Inv
  <2> QED BY <1>3, <2>1 DEF OpenFails, Unpacking, Inv, TypeOK, SourcesFit, SourceLeft, WorkingMeansNone, NoneComplete,
         IncompleteIsCut, ReportIsSearch, Places, Extracting, Working
<1>4. CASE ExtractElsewhere
  BY <1>4 DEF ExtractElsewhere, Unpacking, Inv, TypeOK, SourcesFit, SourceLeft, WorkingMeansNone, NoneComplete,
         IncompleteIsCut, ReportIsSearch, Places, Extracting, Working
<1>5. CASE findSystemChrome
  BY <1>5, DownloaderAssumption DEF findSystemChrome, Inv, TypeOK, SourcesFit, SourceLeft, WorkingMeansNone, NoneComplete,
         IncompleteIsCut, ReportIsSearch, Places, Extracting, Working
<1> QED BY <1>1, <1>2, <1>3, <1>4, <1>5

(* The steps of an extraction write to the directory of the present source. *)
LEMMA ExtractInv ==
    ASSUME Inv, ExtractBegins \/ ExtractTruncates \/ ExtractCopies \/ ExtractEnds \/ ExtractFails
    PROVE  Inv'
<1> USE DEF Goto, Contents, Archives
<1>1. pc \in {"open"} \cup Extracting
  BY DEF ExtractBegins, ExtractTruncates, ExtractCopies, ExtractEnds, ExtractFails, Extract, Extracting
<1>2. Source.dir \in Dirs /\ Source.dir \in Archives(platform)
  BY <1>1, SourceFits DEF Inv, SourceLeft
<1>3. disk[Source.dir] # "complete"
  BY <1>1, <1>2 DEF Inv, WorkingMeansNone, NoneComplete, Working
<1>4. CASE ExtractBegins \/ ExtractTruncates \/ ExtractCopies \/ ExtractEnds
  <2>1. Source' = Source
    BY <1>4 DEF ExtractBegins, ExtractTruncates, ExtractCopies, ExtractEnds, Extract, Unpacking, Source
  <2>2. CASE ExtractBegins
    BY <2>2, <2>1, <1>2, <1>3
       DEF ExtractBegins, Unpacking, Inv, TypeOK, SourcesFit, SourceLeft, WorkingMeansNone, NoneComplete,
         IncompleteIsCut, ReportIsSearch, Places, Extracting, Working
  <2>3. CASE ExtractTruncates
    BY <2>3, <2>1, <1>2, <1>3
       DEF ExtractTruncates, Extract, Unpacking, Inv, TypeOK, SourcesFit, SourceLeft, WorkingMeansNone, NoneComplete,
         IncompleteIsCut, ReportIsSearch, Places, Extracting, Working
  <2>4. CASE ExtractCopies
    BY <2>4, <2>1, <1>2, <1>3
       DEF ExtractCopies, Extract, Unpacking, Inv, TypeOK, SourcesFit, SourceLeft, WorkingMeansNone, NoneComplete,
         IncompleteIsCut, ReportIsSearch, Places, Extracting, Working
  <2>5. CASE ExtractEnds
    BY <2>5, <2>1, <1>2, <1>3
       DEF ExtractEnds, Extract, Unpacking, Inv, TypeOK, SourcesFit, SourceLeft, WorkingMeansNone, NoneComplete,
         IncompleteIsCut, ReportIsSearch, Places, Extracting, Working
  <2> QED BY <1>4, <2>2, <2>3, <2>4, <2>5
<1>5. CASE ExtractFails
  <2>1. todo' \subseteq DOMAIN urls' /\ retry' \in 0..(MaxRetries - 1)
    BY <1>5, TodoStep DEF ExtractFails, Unpacking, Inv
  <2> QED
    BY <1>5, <2>1, <1>2 DEF ExtractFails, Unpacking, Inv, TypeOK, SourcesFit, SourceLeft, WorkingMeansNone, NoneComplete,
         IncompleteIsCut, ReportIsSearch, Places, Extracting, Working
<1> QED BY <1>4, <1>5

LEMMA LookInv ==
    ASSUME Inv, LookAgain
    PROVE  Inv'
<1>1. findChrome(platform) \in Dirs /\ PathAfterLook(None) = findChrome(platform)
  BY SearchResult DEF Inv
<1>2. IsChromeBinaryExists(None) \/ NoneComplete
  BY NothingFound DEF Inv
<1>3. IsChromeBinaryExists(None) => Exists(findChrome(platform))
  BY <1>1 DEF IsChromeBinaryExists
<1>4. findChrome(platform)' = findChrome(platform) /\ UNCHANGED <<platform, disk, zip, cut>>
  BY DEF LookAgain, Goto, files, findChrome, Found, validateChromeExecutable
<1>5. CASE IsChromeBinaryExists(None)
  BY <1>1, <1>3, <1>4, <1>5, EmptySeq, DownloaderAssumption
     DEF LookAgain, PathAfterExtraction, Goto, Return, Exists, Contents, Archives,
         Inv, TypeOK, SourcesFit, SourceLeft, WorkingMeansNone, NoneComplete,
         IncompleteIsCut, ReportIsSearch, Places, Extracting, Working
<1>6. CASE ~ IsChromeBinaryExists(None)
  <2>1. NextSource /\ UNCHANGED <<urls, chosen>> /\ pc = "look" /\ pc' = "fetch"
        /\ chromeExecutable' = findChrome(platform)
    BY <1>1, <1>6 DEF LookAgain, PathAfterExtraction, Goto
  <2>2. todo' \subseteq DOMAIN urls' /\ retry' \in 0..(MaxRetries - 1)
    BY <2>1, TodoStep DEF Inv
  <2> QED
    BY <1>1, <1>2, <1>4, <1>6, <2>1, <2>2
       DEF Contents, Archives, Inv, TypeOK, SourcesFit, SourceLeft, WorkingMeansNone, NoneComplete,
         IncompleteIsCut, ReportIsSearch, Places, Extracting, Working
<1> QED BY <1>5, <1>6

LEMMA BootInv ==
    ASSUME Inv, Boot \/ Crash
    PROVE  Inv'
<1>1. pc' \in {"off", "check"} /\ UNCHANGED <<platform, disk, zip>>
  BY DEF Boot, Crash, Goto, files
<1>2. CASE Boot
  BY <1>1, <1>2 DEF Boot, files, memory, Contents, Archives, Inv, TypeOK, SourcesFit, SourceLeft, WorkingMeansNone, NoneComplete,
         IncompleteIsCut, ReportIsSearch, Places, Extracting, Working
<1>3. CASE Crash
  <2>1. pc \in Extracting => Source.dir \in Dirs
    BY SourceFits DEF Inv, SourceLeft
  <2> QED
    BY <1>1, <1>3, <2>1, EmptySeq, DownloaderAssumption
       DEF Crash, Return, Goto, Contents, Archives, Inv, TypeOK, SourcesFit, SourceLeft, WorkingMeansNone, NoneComplete,
         IncompleteIsCut, ReportIsSearch, Places, Extracting, Working
<1> QED BY <1>2, <1>3

LEMMA StepInv == Inv /\ [Next]_vars => Inv'
<1>1. ASSUME Inv, UNCHANGED vars
      PROVE  Inv'
  BY <1>1 DEF vars, files, memory, Inv, TypeOK, SourcesFit, SourceLeft, WorkingMeansNone, NoneComplete,
              IncompleteIsCut, ReportIsSearch, Source, Archives, findChrome, Found, validateChromeExecutable, Exists
<1> QED
  BY <1>1, CheckInv, ListInv, FetchInv, AsideInv, ExtractInv, LookInv, BootInv DEF Next, Step

THEOREM InvHolds == Spec => []Inv
BY InitInv, StepInv, PTL DEF Spec

-------------------------------------------------------------------------------
\* The state of the downloader has its types, for every set of hosts: the
\* path it ends with is a directory of the search.
THEOREM TypeHolds == Spec => []TypeOK
BY InvHolds, PTL DEF Inv

\* An executable reported by EnsureChrome is a complete Chrome, or one whose
\* extraction was cut short.
THEOREM ReportedIsWhole == Spec => []WholeUnlessCut
<1>1. Inv => WholeUnlessCut
  BY DEF Inv, WholeUnlessCut, TypeOK, IncompleteIsCut, ReportIsSearch, Extracting, Contents, Exists
<1> QED BY <1>1, InvHolds, PTL

\* Every later search finds what EnsureChrome reported.
THEOREM LaunchersFindIt == Spec => []LaunchersAgree
<1>1. Inv => LaunchersAgree
  BY DEF Inv, LaunchersAgree, ReportIsSearch
<1> QED BY <1>1, InvHolds, PTL

\* The server goes without a Chrome of its own only if there is none.
THEOREM OverlooksNothing == Spec => []NothingOverlooked
<1>1. Inv => NothingOverlooked
  BY DEF Inv, NothingOverlooked, ReportIsSearch, NoneComplete, Archives
<1> QED BY <1>1, InvHolds, PTL

\* No step spoils a complete Chrome.
THEOREM KeepsGoodChrome == Spec => GoodChromeKept
<1>1. ASSUME Inv, Next
      PROVE  \A d \in Dirs : disk[d] = "complete" => disk'[d] = "complete"
  <2>1. CASE pc \in {"open"} \cup Extracting
    <3>1. Source.dir \in Archives(platform) /\ Source.dir \in Dirs
      BY <1>1, <2>1, SourceFits DEF Inv, SourceLeft
    <3>2. disk[Source.dir] # "complete"
      BY <1>1, <2>1, <3>1 DEF Inv, WorkingMeansNone, NoneComplete, Working
    <3>3. disk \in [Dirs -> Contents]
      BY <1>1 DEF Inv, TypeOK
    <3>4. disk' = disk \/ \E content \in Contents : disk' = [disk EXCEPT ![Source.dir] = content]
      <4>1. CASE ExtractBegins
        BY <4>1, <3>1, <3>3 DEF ExtractBegins, Contents
      <4>2. CASE ExtractTruncates \/ ExtractCopies \/ ExtractEnds
        BY <4>2 DEF ExtractTruncates, ExtractCopies, ExtractEnds, Extract, Contents
      <4>3. CASE ~ (ExtractBegins \/ ExtractTruncates \/ ExtractCopies \/ ExtractEnds)
        BY <4>3, <1>1
           DEF Next, Boot, Step, Crash, Check, ListSources, MkdirFails, DownloadFile, DownloadTooSmall,
               DownloadFails, DownloadMissing, NoSourceLeft, OpenFails, ExtractElsewhere, ExtractFails,
               LookAgain, findSystemChrome, Fetching, files
      <4> QED BY <4>1, <4>2, <4>3
    <3> QED BY <3>1, <3>2, <3>3, <3>4
  <2>2. CASE pc \notin {"open"} \cup Extracting
    <3>1. disk' = disk
      BY <1>1, <2>2
         DEF Next, Boot, Step, Crash, Check, ListSources, MkdirFails, DownloadFile, DownloadTooSmall,
             DownloadFails, DownloadMissing, NoSourceLeft, OpenFails, ExtractElsewhere, ExtractFails,
             ExtractBegins, ExtractTruncates, ExtractCopies, ExtractEnds, Extract, Goto, Extracting,
             LookAgain, findSystemChrome, Fetching, files
    <3> QED BY <3>1
  <2> QED BY <2>1, <2>2
<1>2. Inv /\ [Next]_vars => [\A d \in Dirs : disk[d] = "complete" => disk'[d] = "complete"]_vars
  BY <1>1
<1> QED BY <1>2, InvHolds, PTL DEF Spec, GoodChromeKept

-------------------------------------------------------------------------------
(* How long a start can take.                                              *)

MaxSources == GithubMax + Mirrors + 4          \* two of Huawei's, the static one twice
PerSource == MaxRetries + 6                    \* attempts, and the steps of an unpacking
Unpacked == {"open", "look"} \cup Extracting
StepsAfter == [place \in Unpacked |->
                  CASE place = "open" -> 5 [] place = "unpack" -> 4 [] place = "truncate" -> 3
                    [] place = "copy" -> 2 [] place = "look" -> 1]
MaxWork == MaxSources * PerSource + MaxRetries + 4

\* How many steps EnsureChrome has left at most.
WorkLeft ==
    CASE pc = "check"    -> MaxWork
      [] pc = "list"     -> MaxWork - 1
      [] pc = "fetch"    -> Cardinality(todo) * PerSource + MaxRetries - retry + 2
      [] pc \in Unpacked -> (Cardinality(todo) - 1) * PerSource + MaxRetries + 2 + StepsAfter[pc]
      [] pc = "failed"   -> 1
      [] OTHER           -> 0

SourcesBounded == Len(urls) <= MaxSources

LEMMA Bounds == /\ MaxSources \in Nat /\ PerSource \in Nat /\ PerSource = MaxRetries + 6
                /\ MaxSources * PerSource \in Nat /\ MaxRetries \in Nat \ {0}
                /\ MaxWork = MaxSources * PerSource + MaxRetries + 4 /\ MaxWork \in Nat
BY DownloaderAssumption DEF MaxSources, PerSource, MaxWork

LEMMA Products ==
    ASSUME NEW c \in Nat, NEW n \in Nat, NEW k \in Nat, c <= n
    PROVE  c * k \in Nat /\ c * k <= n * k
<1>1. PICK d \in Nat : n = c + d
  <2>1. n - c \in Nat /\ n = c + (n - c)
    OBVIOUS
  <2> QED BY <2>1
<1>2. n * k = c * k + d * k
  BY <1>1
<1>3. c * k \in Nat /\ d * k \in Nat
  OBVIOUS
<1> QED BY <1>2, <1>3

LEMMA OneLess ==
    ASSUME NEW c \in Nat \ {0}, NEW k \in Nat
    PROVE  c * k = (c - 1) * k + k
OBVIOUS

(* Two lists after each other are as long as both. *)
LEMMA ListLength ==
    ASSUME TypeOK, ListSources
    PROVE  Len(urls') <= MaxSources
<1> DEFINE t == Target(platform)
           U == [site : Sites, n : Nat, dir : Archives(platform)]
<1>1. platform \in Platforms /\ GithubMax \in Nat /\ Mirrors \in Nat
  BY DownloaderAssumption DEF TypeOK
<1>2. PICK g \in 0..GithubMax, isInChina \in BOOLEAN, h \in getHuaweiCloudUrls(t) :
         urls' = getGitHubOfficialUrls(t, g)
                 \o (IF isInChina THEN getChinaMirrorUrls(t) ELSE <<>>)
                 \o h
                 \o getVerifiedStaticUrls(t)
                 \o (IF platform.container THEN getContainerOptimizedUrls(t) ELSE <<>>)
  BY DEF ListSources
<1> DEFINE a == getGitHubOfficialUrls(t, g)
           b == IF isInChina THEN getChinaMirrorUrls(t) ELSE <<>>
           c == getVerifiedStaticUrls(t)
           d == IF platform.container THEN getContainerOptimizedUrls(t) ELSE <<>>
<1>3. a \in Seq(U) /\ b \in Seq(U) /\ h \in Seq(U) /\ c \in Seq(U) /\ d \in Seq(U)
  <2>1. g \in Nat /\ h \in getHuaweiCloudUrls(t) /\ <<>> \in Seq(U)
    BY <1>1, <1>2, EmptySeq
  <2>2. t = Target(platform) /\ U = [site : Sites, n : Nat, dir : Archives(platform)]
    OBVIOUS
  <2> HIDE DEF t, U
  <2>3. /\ getGitHubOfficialUrls(t, g) \in Seq(U) /\ getChinaMirrorUrls(t) \in Seq(U) /\ h \in Seq(U)
        /\ getVerifiedStaticUrls(t) \in Seq(U) /\ getContainerOptimizedUrls(t) \in Seq(U)
    BY <1>1, <2>1, <2>2, ListFits
  <2> QED BY <2>1, <2>3
<1>4. Len(a) = g
  BY DEF getGitHubOfficialUrls
<1>5. Len(b) <= Mirrors
  BY <1>1 DEF getChinaMirrorUrls
<1>6. Len(h) <= 2
  <2> DEFINE listed == {URL("huawei", i, SnapshotDir[t]) : i \in {1, 2}}
                       \cup (IF t # "mac-arm64" THEN {URL("mirror", 2, SnapshotDir[t])} ELSE {})
  <2>1. \/ h = <<>>
        \/ \E u \in listed : h = <<u>>
        \/ \E u \in listed, v \in listed : h = <<u, v>>
    BY DEF getHuaweiCloudUrls
  <2> HIDE DEF listed
  <2>2. ASSUME NEW u \in listed, h = <<u>>
        PROVE  Len(h) <= 2
    BY <2>2
  <2>3. ASSUME NEW u \in listed, NEW v \in listed, h = <<u, v>>
        PROVE  Len(h) <= 2
    BY <2>3
  <2>4. h = <<>> => Len(h) <= 2
    OBVIOUS
  <2> QED BY <2>1, <2>2, <2>3, <2>4, Zenon
<1>7. Len(c) = 1 /\ Len(d) <= 1
  BY DEF getVerifiedStaticUrls, getContainerOptimizedUrls
<1>8. urls' = a \o b \o h \o c \o d
  BY <1>2
<1> HIDE DEF a, b, c, d, t, U
<1>9. Len(urls') = Len(a) + Len(b) + Len(h) + Len(c) + Len(d)
  BY <1>3, <1>8, ConcatProperties
<1> QED BY <1>1, <1>3, <1>4, <1>5, <1>6, <1>7, <1>9 DEF MaxSources

LEMMA SourcesBoundedStep ==
    ASSUME Inv, SourcesBounded, [Next]_vars
    PROVE  SourcesBounded'
<1>1. CASE ListSources
  BY <1>1, ListLength DEF Inv, SourcesBounded
<1>2. CASE ~ ListSources
  <2>1. urls' = urls \/ urls' = <<>>
    BY <1>2 DEF Next, Boot, Step, Crash, Check, MkdirFails, DownloadFile, DownloadTooSmall,
       DownloadFails, DownloadMissing, NoSourceLeft, OpenFails, ExtractElsewhere, ExtractBegins,
       ExtractTruncates, ExtractCopies, ExtractEnds, ExtractFails, Extract, LookAgain,
       findSystemChrome, Fetching, Unpacking, Return, memory, vars
  <2> QED BY <2>1, Bounds, EmptySeq DEF SourcesBounded
<1> QED BY <1>1, <1>2

(* The sources left of a list are finitely many. *)
LEMMA LeftCounted ==
    ASSUME NEW X, NEW list \in Seq(X), Len(list) <= MaxSources, NEW left \in SUBSET DOMAIN list
    PROVE  /\ IsFiniteSet(left) /\ Cardinality(left) \in Nat /\ Cardinality(left) <= MaxSources
           /\ left # {} => Cardinality(left) # 0
<1>1. DOMAIN list = 1..Len(list) /\ Len(list) \in Nat
  BY LenProperties
<1>2. IsFiniteSet(1..Len(list)) /\ Cardinality(1..Len(list)) = Len(list)
  <2> DEFINE n == Len(list)
  <2>1. n \in Int /\ 1 \in Int /\ n >= 0
    BY <1>1
  <2> HIDE DEF n
  <2>2. IsFiniteSet(1..n) /\ Cardinality(1..n) = IF 1 > n THEN 0 ELSE n - 1 + 1
    BY <2>1, FS_Interval
  <2>3. Cardinality(1..n) = n
    BY <2>1, <2>2
  <2> QED BY <2>2, <2>3 DEF n
<1>3. IsFiniteSet(left) /\ Cardinality(left) <= Len(list)
  BY <1>1, <1>2, FS_Subset
<1>4. Cardinality(left) \in Nat /\ (Cardinality(left) = 0 <=> left = {})
  BY <1>3, FS_CardinalityType, FS_EmptySet
<1> QED BY <1>1, <1>3, <1>4, Bounds

LEMMA TodoCounted ==
    ASSUME Inv, SourcesBounded
    PROVE  /\ Cardinality(todo) \in Nat /\ Cardinality(todo) <= MaxSources
           /\ todo # {} => Cardinality(todo) # 0
           /\ todo # {} => Cardinality(todo \ {Min(todo)}) = Cardinality(todo) - 1
<1>1. /\ IsFiniteSet(todo) /\ Cardinality(todo) \in Nat /\ Cardinality(todo) <= MaxSources
      /\ todo # {} => Cardinality(todo) # 0
  BY LeftCounted DEF Inv, TypeOK, SourcesFit, SourcesBounded
<1>2. todo # {} => Cardinality(todo \ {Min(todo)}) = Cardinality(todo) - 1
  BY <1>1, FS_RemoveElement, SourceFits DEF Inv
<1> QED BY <1>1, <1>2

LEMMA WorkFacts ==
    ASSUME Inv, SourcesBounded
    PROVE  WorkLeft \in 0..MaxWork /\ (WorkLeft = 0 <=> pc \in {"off", "up"})
<1> DEFINE c == Cardinality(todo)
<1>1. /\ c \in Nat /\ c <= MaxSources /\ (todo # {} => c # 0) /\ retry \in 0..(MaxRetries - 1)
      /\ (pc \in Unpacked => todo # {}) /\ pc \in Places
  BY TodoCounted DEF Inv, TypeOK, SourceLeft, Unpacked
<1>2. c * PerSource \in Nat /\ c * PerSource <= MaxSources * PerSource
  BY <1>1, Products, Bounds
<1>3. c # 0 => (c - 1) * PerSource \in Nat /\ c * PerSource = (c - 1) * PerSource + PerSource
  BY <1>1, OneLess, Products, Bounds
<1>4. \A place \in Unpacked : StepsAfter[place] \in 1..5
  BY DEF StepsAfter, Unpacked, Extracting
<1>5. CASE pc \in Unpacked
  <2>1. WorkLeft = (c - 1) * PerSource + MaxRetries + 2 + StepsAfter[pc]
    BY <1>5 DEF WorkLeft, Unpacked, Extracting
  <2> HIDE DEF c
  <2> QED BY <1>1, <1>2, <1>3, <1>4, <1>5, <2>1, Bounds DEF Unpacked, Extracting
<1>6. CASE pc = "fetch"
  <2>1. WorkLeft = c * PerSource + MaxRetries - retry + 2
    BY <1>6 DEF WorkLeft, Unpacked, Extracting
  <2> HIDE DEF c
  <2> QED BY <1>1, <1>2, <1>6, <2>1, Bounds
<1>7. CASE pc \notin Unpacked \cup {"fetch"}
  BY <1>1, <1>7, Bounds DEF WorkLeft, Places, Unpacked
<1> QED BY <1>5, <1>6, <1>7

LEMMA StepLowersWork ==
    ASSUME Inv, SourcesBounded, Step, Inv', SourcesBounded'
    PROVE  WorkLeft' < WorkLeft
<1> DEFINE c == Cardinality(todo)
           k == PerSource
           source == (c - 1) * k + MaxRetries + 2
<1>1. /\ c \in Nat /\ c <= MaxSources /\ retry \in 0..(MaxRetries - 1) /\ retry' \in 0..(MaxRetries - 1)
      /\ (todo # {} => c # 0 /\ Cardinality(todo \ {Min(todo)}) = c - 1)
      /\ (pc \in Unpacked => todo # {})
  BY TodoCounted DEF Inv, TypeOK, SourceLeft, Unpacked
<1>h. c' \in Nat /\ c' <= MaxSources
  BY LeftCounted DEF Inv, TypeOK, SourcesFit, SourcesBounded
<1>2. /\ c * k \in Nat /\ c' * k \in Nat /\ c' * k <= MaxSources * k
      /\ (c # 0 => (c - 1) * k \in Nat /\ c * k = (c - 1) * k + k)
  BY <1>1, <1>h, Products, OneLess, Bounds
<1>3. /\ pc = "fetch" => WorkLeft = c * k + MaxRetries - retry + 2
      /\ pc' = "fetch" => WorkLeft' = c' * k + MaxRetries - retry' + 2
      /\ pc \in Unpacked => WorkLeft = source + StepsAfter[pc]
      /\ pc' \in Unpacked => WorkLeft' = source' + StepsAfter[pc']
      /\ pc = "check" => WorkLeft = MaxWork
      /\ pc = "list" => WorkLeft = MaxWork - 1
      /\ pc' = "list" => WorkLeft' = MaxWork - 1
      /\ pc = "failed" => WorkLeft = 1
      /\ pc' = "failed" => WorkLeft' = 1
      /\ pc' = "up" => WorkLeft' = 0
  BY DEF WorkLeft, Unpacked, Extracting
<1>4. /\ StepsAfter["open"] = 5 /\ StepsAfter["unpack"] = 4 /\ StepsAfter["truncate"] = 3
      /\ StepsAfter["copy"] = 2 /\ StepsAfter["look"] = 1
      /\ Unpacked = {"open", "look", "unpack", "truncate", "copy"}
  BY DEF StepsAfter, Unpacked, Extracting
<1>5. WorkLeft \in 0..MaxWork /\ (WorkLeft = 0 <=> pc \in {"off", "up"})
  BY WorkFacts
<1>6. NextSource => retry' = 0 /\ c' = Cardinality(todo \ {Min(todo)})
  BY DEF NextSource
<1>7. UNCHANGED todo => c' = c
  OBVIOUS
<1>8. PerSource' = PerSource
  BY DEF PerSource
<1>9. source' = (c' - 1) * k + MaxRetries + 2
  BY <1>8
<1>a. k = MaxRetries + 6 /\ k \in Nat /\ MaxRetries \in Nat \ {0} /\ MaxSources * k \in Nat
      /\ MaxWork = MaxSources * k + MaxRetries + 4
  BY Bounds
<1> HIDE DEF c, k, source
<1>b. CASE Check \/ MkdirFails \/ NoSourceLeft \/ findSystemChrome
  <2>1. pc # "up" /\ pc # "off" /\ pc' \in {"up", "failed", "list"} /\ (pc' = "list" => pc = "check")
        /\ (pc' = "failed" => pc \in {"list", "fetch"})
    BY <1>b DEF Check, MkdirFails, NoSourceLeft, findSystemChrome, Goto
  <2>2. pc = "fetch" => WorkLeft > 1
    BY <1>1, <1>2, <1>3, <1>a
  <2> QED BY <2>1, <2>2, <1>3, <1>5, <1>a
<1>c. CASE ListSources
  <2>1. pc = "list" /\ pc' = "fetch" /\ retry' = 0
    BY <1>c DEF ListSources, Goto
  <2> QED BY <2>1, <1>h, <1>2, <1>3, <1>a
<1>d. CASE DownloadFile \/ DownloadTooSmall \/ DownloadFails \/ DownloadMissing
  <2>1. pc = "fetch" /\ todo # {} /\ c # 0
    BY <1>d, <1>1 DEF DownloadFile, DownloadTooSmall, DownloadFails, DownloadMissing, Goto, Fetching
  <2>2. \/ pc' = "open" /\ UNCHANGED <<todo, retry>>
        \/ pc' = "fetch" /\ (NextSource \/ (retry' = retry + 1 /\ UNCHANGED todo))
    BY <1>d DEF DownloadFile, DownloadTooSmall, DownloadFails, DownloadMissing, Goto, TryAgain
  <2>3. CASE pc' = "open" /\ UNCHANGED <<todo, retry>>
    <3>1. c' = c /\ source' = source
      BY <2>3, <1>7, <1>9 DEF source
    <3>2. WorkLeft' = (c - 1) * k + MaxRetries + 2 + 5
      BY <2>3, <3>1, <1>3, <1>4 DEF source
    <3> QED BY <2>1, <3>2, <1>1, <1>2, <1>3, <1>a
  <2>4. CASE pc' = "fetch" /\ NextSource
    <3>1. c' = c - 1 /\ retry' = 0
      BY <2>1, <2>4, <1>1, <1>6
    <3>2. WorkLeft' = (c - 1) * k + MaxRetries + 2
      BY <2>4, <3>1, <1>1, <1>2, <1>3, <1>a
    <3> QED BY <2>1, <3>2, <1>1, <1>2, <1>3, <1>a
  <2>5. CASE pc' = "fetch" /\ retry' = retry + 1 /\ UNCHANGED todo
    BY <2>1, <2>5, <1>1, <1>2, <1>3, <1>7, <1>a
  <2> QED BY <2>2, <2>3, <2>4, <2>5
<1>e. CASE OpenFails \/ ExtractFails \/ (LookAgain /\ pc' # "up")
  <2>1. pc \in Unpacked /\ pc' = "fetch" /\ NextSource
    BY <1>e, <1>4 DEF OpenFails, ExtractFails, LookAgain, Goto, Extracting
  <2>2. c' = c - 1 /\ retry' = 0 /\ c # 0
    BY <2>1, <1>1, <1>6
  <2>3. WorkLeft' = (c - 1) * k + MaxRetries + 2
    BY <2>1, <2>2, <1>1, <1>2, <1>3, <1>a
  <2>4. WorkLeft = (c - 1) * k + MaxRetries + 2 + StepsAfter[pc] /\ StepsAfter[pc] \in 1..5
    BY <2>1, <1>3, <1>4 DEF source
  <2> QED BY <2>2, <2>3, <2>4, <1>2, <1>a
<1>f. CASE LookAgain /\ pc' = "up"
  <2>1. pc = "look"
    BY <1>f DEF LookAgain, Goto
  <2> QED BY <2>1, <1>f, <1>3, <1>5
<1>g. CASE \/ ExtractElsewhere \/ ExtractBegins \/ ExtractTruncates \/ ExtractCopies \/ ExtractEnds
  <2>1. /\ UNCHANGED todo /\ pc \in Unpacked /\ pc' \in Unpacked
        /\ StepsAfter[pc'] < StepsAfter[pc] /\ StepsAfter[pc] \in 1..5 /\ StepsAfter[pc'] \in 1..5
    BY <1>g, <1>4
       DEF ExtractElsewhere, ExtractBegins, ExtractTruncates, ExtractCopies, ExtractEnds, Extract, Goto
  <2>2. c' = c /\ c # 0 /\ source' = source
    BY <2>1, <1>1, <1>7, <1>9 DEF source
  <2>3. source \in Nat
    BY <2>2, <1>1, <1>2, <1>a DEF source
  <2> QED BY <2>1, <2>2, <2>3, <1>3
<1> QED BY <1>b, <1>c, <1>d, <1>e, <1>f, <1>g DEF Step

\* A start of the server takes a bounded number of steps, whatever the sites
\* answer and whatever is on disk: every step of EnsureChrome leaves it less
\* to do, and nothing is left exactly when it is over.  StartEnds follows as
\* soon as each step is bounded in time.
THEOREM StartIsBounded ==
    Spec => /\ [](WorkLeft \in 0..MaxWork /\ (WorkLeft = 0 <=> pc \in {"off", "up"}))
            /\ [][Step => WorkLeft' < WorkLeft]_vars
<1>1. Init => SourcesBounded
  BY Bounds, EmptySeq DEF Init, SourcesBounded
<1>2. Inv /\ SourcesBounded /\ [Next]_vars => SourcesBounded'
  BY SourcesBoundedStep
<1>3. Spec => []SourcesBounded
  BY <1>1, <1>2, InvHolds, PTL DEF Spec
<1>4. Inv /\ SourcesBounded => WorkLeft \in 0..MaxWork /\ (WorkLeft = 0 <=> pc \in {"off", "up"})
  BY WorkFacts
<1>5. Inv /\ SourcesBounded /\ Inv' /\ SourcesBounded' /\ [Next]_vars
         => [Step => WorkLeft' < WorkLeft]_vars
  BY StepLowersWork
<1> QED BY <1>3, <1>4, <1>5, InvHolds, PTL DEF Spec
===============================================================================
