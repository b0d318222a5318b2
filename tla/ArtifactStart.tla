------------------------------ MODULE ArtifactStart ---------------------------
(***************************************************************************)
(* From the checkout to a serving provider: the packaging tool             *)
(* (cmd/package/main.go) reads the built binary and the manifest and       *)
(* writes the artifact layout file by file; the host copies the layout,    *)
(* verifies it and installs it; the process that starts from it reads the  *)
(* installed descriptor (main.go) and builds its server from that and from *)
(* the manifest compiled into it (internal/provider/server.go, NewServer). *)
(* The checkout is edited and rebuilt at any moment and packaging may stop *)
(* halfway.  A digest is the content it is the digest of.                  *)
(***************************************************************************)
EXTENDS Naturals, Sequences

CONSTANTS Agents,      \* publisher, name and version of an agent
          Surfaces,    \* what a manifest may declare beside its agent
          Manifests,   \* the manifests the checkout may hold
          Revisions,   \* the revisions of the provider's code
          MaxEdits,    \* bound: edits of the checkout
          MaxCrashes   \* bound: packaging runs that stop halfway

\* What becomes of a manifest: its schema may not load, or its namespace may not
\* admit the diagnostic codes that the runtime catalog adds.
Manifest == [agent : Agents, surface : SUBSET Surfaces,
             kind : {"good", "unloadable", "inadmissible"}]

ASSUME ArtifactAssumption ==
    /\ Manifests \subseteq Manifest
    /\ MaxEdits \in Nat /\ MaxCrashes \in Nat

VARIABLES checkout,   \* the sources: code revision and manifest
          built,      \* the binary in the checkout
          packaging,  \* the packaging run under way
          dist,       \* the files of the layout directory
          copy,       \* the host's copy of the layout, taken file by file
          installed,  \* the layout the host verified and installed
          server,     \* the process last started, from which layout, and how
          edits, crashes

hostVars == <<copy, installed>>

vars == <<checkout, built, packaging, dist, hostVars, server, edits, crashes>>

Sources == [revision : Revisions, manifest : Manifests]

Files == {"binary", "manifest", "descriptor"}

\* A file that is not there, and one whose writing has not finished.
Absent == [is |-> "absent"]
Torn   == [is |-> "torn"]

\* The manifest of the checkout is compiled into the binary.
Binary(source) == [is |-> "binary", revision |-> source.revision,
                   embeds |-> source.manifest]

ManifestFile(m) == [is |-> "manifest", manifest |-> m]

\* The agent of the manifest and the digests of binary and manifest.
Descriptor(binary, m) == [is |-> "descriptor", agent |-> m.agent,
                          artifactDigest |-> binary, manifestDigest |-> m]

NoLayout == [f \in Files |-> Absent]

NoPackaging == [pc |-> "idle", next |-> 1, open |-> FALSE, files |-> NoLayout]

NoServer == [pc |-> "stopped", layout |-> NoLayout, identity |-> Absent,
             catalog |-> {}]

Init == /\ checkout \in Sources
        /\ built = Absent
        /\ packaging = NoPackaging
        /\ dist = NoLayout /\ copy = NoLayout /\ installed = NoLayout
        /\ server = NoServer
        /\ edits = 0 /\ crashes = 0

-------------------------------------------------------------------------------
(* The checkout. *)

Edit == /\ edits < MaxEdits /\ edits' = edits + 1
        /\ \E source \in Sources \ {checkout} : checkout' = source
        /\ UNCHANGED <<built, packaging, dist, hostVars, server, crashes>>

Build == /\ built # Binary(checkout)
         /\ built' = Binary(checkout)
         /\ UNCHANGED <<checkout, packaging, dist, hostVars, server, edits, crashes>>

-------------------------------------------------------------------------------
(* The packaging tool. *)

UpToDate == /\ dist["binary"] = built
            /\ dist["manifest"] = ManifestFile(checkout.manifest)
            /\ dist["descriptor"] = Descriptor(built, checkout.manifest)

\* A run, started when the layout is out of date, reads the binary first.
ReadBinary ==
    /\ packaging.pc = "idle"
    /\ built # Absent /\ ~UpToDate
    /\ packaging' = [NoPackaging EXCEPT !.pc = "read", !.files["binary"] = built]
    /\ UNCHANGED <<checkout, built, dist, hostVars, server, edits, crashes>>

\* Mutant: any manifest is packaged.
PackageAny(files, m) ==
    [NoPackaging EXCEPT !.pc = "write",
       !.files = [files EXCEPT !["manifest"] = ManifestFile(m),
                               !["descriptor"] = Descriptor(files["binary"], m)]]

\* The descriptor is built of what was read; a manifest that does not load ends
\* the run.
Assembled(files, m) ==
    IF m.kind = "unloadable" THEN NoPackaging
    ELSE [NoPackaging EXCEPT !.pc = "write",
            !.files = [files EXCEPT !["manifest"] = ManifestFile(m),
                                    !["descriptor"] = Descriptor(files["binary"], m)]]

\* Then it reads the manifest, as it is by now.
ReadManifest ==
    /\ packaging.pc = "read"
    /\ packaging' = Assembled(packaging.files, checkout.manifest)
    /\ UNCHANGED <<checkout, built, dist, hostVars, server, edits, crashes>>

WriteOrder == <<"binary", "manifest", "descriptor">>

\* Mutant: a file that is there already is kept.
KeepPresent(f, finished) ==
    IF dist[f] \in {Absent, Torn}
      THEN [dist EXCEPT ![f] = IF finished THEN packaging.files[f] ELSE Torn]
      ELSE dist

\* WriteFile truncates the file, then fills it.
WriteFile(f, finished) ==
    [dist EXCEPT ![f] = IF finished THEN packaging.files[f] ELSE Torn]

\* The three files are written one after another.
Write ==
    /\ packaging.pc = "write"
    /\ dist' = WriteFile(WriteOrder[packaging.next], packaging.open)
    /\ packaging' = IF ~packaging.open THEN [packaging EXCEPT !.open = TRUE]
                    ELSE IF packaging.next = Len(WriteOrder) THEN NoPackaging
                    ELSE [packaging EXCEPT !.open = FALSE, !.next = @ + 1]
    /\ UNCHANGED <<checkout, built, hostVars, server, edits, crashes>>

\* A run stops, or a write fails and ends it, and what it wrote so far stays.
Crash == /\ packaging.pc # "idle"
         /\ crashes < MaxCrashes /\ crashes' = crashes + 1
         /\ packaging' = NoPackaging
         /\ UNCHANGED <<checkout, built, dist, hostVars, server, edits>>

-------------------------------------------------------------------------------
(* The host, external: it installs what it verified, and starts what it         *)
(* installed; it leaves an installed layout alone while a process starts from   *)
(* it.                                                                          *)

CopyFile(f) == /\ copy[f] # dist[f]
               /\ copy' = [copy EXCEPT ![f] = dist[f]]
               /\ UNCHANGED <<checkout, built, packaging, dist, installed, server,
                              edits, crashes>>

Verifies(layout) ==
    /\ layout["manifest"].is = "manifest"
    /\ layout["descriptor"] =
         Descriptor(layout["binary"], layout["manifest"].manifest)

Install == /\ server.pc # "starting"
           /\ copy # installed /\ Verifies(copy)
           /\ installed' = copy
           /\ UNCHANGED <<checkout, built, packaging, dist, copy, server,
                          edits, crashes>>

Spawn == /\ server.pc # "starting"
         /\ installed # NoLayout /\ server.layout # installed
         /\ server' = [NoServer EXCEPT !.pc = "starting", !.layout = installed]
         /\ UNCHANGED <<checkout, built, packaging, dist, hostVars, edits, crashes>>

-------------------------------------------------------------------------------
(* The process. *)

\* The catalog advertises the manifest's own surface.
BuildCatalog(m) == m.surface

\* Mutant: the agent is compared, the manifest is not.
SameAgent(m, identity) ==
    /\ m.kind = "good"
    /\ identity.agent = m.agent

\* NewServer takes the manifest compiled in for the one the descriptor names.
Accepts(m, identity) ==
    /\ m.kind # "unloadable"
    /\ identity.manifestDigest = m
    /\ identity.agent = m.agent
    /\ m.kind # "inadmissible"

\* main reads the descriptor beside the executable and hands it to NewServer.
NewServer ==
    LET m        == server.layout["binary"].embeds
        identity == installed["descriptor"]
    IN  /\ server.pc = "starting"
        /\ server' = IF Accepts(m, identity)
             THEN [server EXCEPT !.pc = "serving", !.identity = identity,
                                 !.catalog = BuildCatalog(m)]
             ELSE [server EXCEPT !.pc = "refused"]
        /\ UNCHANGED <<checkout, built, packaging, dist, hostVars, edits, crashes>>

Next == \/ Edit \/ Build \/ ReadBinary \/ ReadManifest \/ Write \/ Crash
        \/ \E f \in Files : CopyFile(f)
        \/ Install \/ Spawn \/ NewServer

Spec == Init /\ [][Next]_vars

\* The layout is rebuilt and packaged until it is up to date, "make package" after
\* "make package", and the host keeps copying, installing and starting it.
Fairness == /\ WF_vars(Build) /\ WF_vars(ReadBinary) /\ WF_vars(ReadManifest)
            /\ WF_vars(Write)
            /\ \A f \in Files : WF_vars(CopyFile(f))
            /\ WF_vars(Install) /\ WF_vars(Spawn) /\ WF_vars(NewServer)

FairSpec == Spec /\ Fairness

-------------------------------------------------------------------------------

Binaries == {Binary(source) : source \in Sources}

Packageable == {m \in Manifests : m.kind # "unloadable"}

Described == UNION {{Descriptor(b, m) : b \in Binaries} : m \in Packageable}

Content(f) == {Absent, Torn} \cup
    (IF f = "binary" THEN Binaries
     ELSE IF f = "manifest" THEN {ManifestFile(m) : m \in Packageable}
     ELSE Described)

IsLayout(layout) == /\ DOMAIN layout = Files
                    /\ \A f \in Files : layout[f] \in Content(f)

TypeOK ==
    /\ checkout \in Sources /\ built \in Binaries \cup {Absent}
    /\ packaging.pc \in {"idle", "read", "write"}
    /\ packaging.next \in 1..3 /\ packaging.open \in BOOLEAN
    /\ IsLayout(packaging.files) /\ IsLayout(dist) /\ IsLayout(copy)
    /\ IsLayout(installed) /\ IsLayout(server.layout)
    /\ server.pc \in {"stopped", "starting", "serving", "refused"}
    /\ server.identity \in Described \cup {Absent}
    /\ edits \in 0..MaxEdits /\ crashes \in 0..MaxCrashes

\* A serving process advertises the digest of the very binary it runs and of the
\* manifest compiled into it, that manifest's agent, and the surface of the
\* manifest file the host verified, however builds, edits, packaging runs and
\* crashes fell between the reads and the writes (server.go:68-71,
\* catalog.go:47-50).
IdentityIsOwn ==
    LET binary == server.layout["binary"] IN
    server.pc = "serving" =>
      /\ server.identity.artifactDigest = binary
      /\ server.identity.manifestDigest = binary.embeds
      /\ server.identity.agent = binary.embeds.agent
      /\ server.catalog = server.layout["manifest"].manifest.surface

\* Once edits and crashes stop, a checkout whose manifest is good comes to be
\* served as it is, whatever half-written or mixed layout was left before.
CheckoutIsServed ==
    <>[](checkout.manifest.kind = "good") =>
      <>[](server.pc = "serving" /\ server.layout["binary"] = Binary(checkout))

===============================================================================
