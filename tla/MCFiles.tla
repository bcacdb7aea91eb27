------------------------------ MODULE MCFiles -------------------------------
(* The file handles and the build driver's object cache, explored in parts:    *)
(* each behaviour uses the calls of one, in MaxCalls calls unless the part is  *)
(* Unbounded; "all" uses every call of the file layers, in MaxMixed calls.     *)
EXTENDS NtFiles, ObjCache
CONSTANTS Parts, MaxHeld, MaxCalls, MaxMixed, Unbounded
VARIABLES part, calls
mcVars == <<filesVars, cacheVars, part, calls>>
Some == {Min(Names)}
\* Header 3 includes nothing, the others include g.  Builds run at the same time from headers with the
\* same dependencies ("cache"), one at a time with any ("serial"), one at a time while the source
\* itself is edited ("sources"), or with any at once ("race").
MCIncludes(v) == IF v = 3 THEN {} ELSE {"g"}
Headers == CASE part = "sources" -> {} [] part = "cache" -> {1, 2} [] part = "serial" -> {1, 3} [] OTHER -> {1, 2, 3}
Edited == IF part = "sources" THEN Sources ELSE {}
MCInit == FilesInit /\ CacheInit /\ part \in Parts /\ calls = 0
FilesStep ==
    /\ \/ part = "fd" /\ (DescriptorOps \/ NameOps)
       \/ part = "stdio" /\ (StdioOps(Some, Names \ Some) \/ (\E n \in Some : open(n, TRUE, {})) \/ \E f \in Fds : close(f))
       \/ part = "nt" /\ (NtOps \/ \E n \in Names : DeleteFile(n))
       \/ part = "scan" /\ (ScanOps \/ NameOps \/ (\E h \in Of({"nt"}) : NtClose(h)) \/ \E n \in Names, d \in {"CREATE", "OPEN"} : u32_nt_open(n, TRUE, d))
       \/ part = "map" /\ MapOps
       \/ part = "lz" /\ (LzOps \/ (\E n \in Names, s \in {"create", "read", "delete"} : OpenFile(n, s)) \/ \E h \in Of({"fd"}) : CloseHandle(h))
       \/ part = "all" /\ FilesNext
    /\ Cardinality(held') <= IF part = "map" THEN MaxHeld ELSE MaxHeld - 1
Limit == IF part = "all" THEN MaxMixed ELSE MaxCalls
Step ==
    /\ \/ part \in {"cache", "serial", "sources", "race"} /\ CacheNext(Edited, Headers, part \in {"serial", "sources"}) /\ UNCHANGED filesVars
       \/ part \notin {"cache", "serial", "sources", "race"} /\ FilesStep /\ UNCHANGED cacheVars
    /\ calls < Limit
    /\ calls' = IF part \in Unbounded THEN 0 ELSE calls + 1
    /\ UNCHANGED part
MCNext == Step \/ (calls = Limit /\ UNCHANGED mcVars)
MCSpec == MCInit /\ [][MCNext]_mcVars
=============================================================================
