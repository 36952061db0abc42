------------------------- MODULE MCChromeDownloader -------------------------
(* The hosts the code distinguishes, started twice at most. *)
EXTENDS ChromeDownloader

Host(os, arch, wsl, container) == [os |-> os, arch |-> arch, wsl |-> wsl, container |-> container]

MCPlatforms == {Host("windows", "amd64", FALSE, FALSE), Host("windows", "386", FALSE, FALSE),
                Host("linux", "amd64", TRUE, TRUE), Host("linux", "arm64", FALSE, FALSE),
                Host("darwin", "amd64", FALSE, FALSE), Host("darwin", "arm64", FALSE, FALSE),
                Host("other", "amd64", FALSE, FALSE)}
=============================================================================
