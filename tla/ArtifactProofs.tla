----------------------------- MODULE ArtifactProofs ---------------------------
(***************************************************************************)
(* What a serving process says of itself is true, for any manifests,       *)
(* revisions, edits and crashes: every layout the host installs was        *)
(* verified, and a process starts from the layout the host leaves alone.   *)
(***************************************************************************)
EXTENDS ArtifactStart, SequenceTheorems, TLAPS

-------------------------------------------------------------------------------
(* The inductive invariant.  A run that goes on to read the manifest holds a *)
(* binary that was built; an installed layout is verified; the layout of a   *)
(* process that is starting is the installed one.                            *)

BinaryFiles     == {Absent, Torn} \cup Binaries
ManifestFiles   == {Absent, Torn} \cup {ManifestFile(m) : m \in Packageable}
DescriptorFiles == {Absent, Torn} \cup Described

Layouts == {l \in [Files -> BinaryFiles \cup ManifestFiles \cup DescriptorFiles] :
              /\ l["binary"] \in BinaryFiles
              /\ l["manifest"] \in ManifestFiles
              /\ l["descriptor"] \in DescriptorFiles}

Typed ==
    /\ checkout \in Sources /\ built \in Binaries \cup {Absent}
    /\ packaging \in [pc : {"idle", "read", "write"}, next : 1..3, open : BOOLEAN,
                      files : Layouts]
    /\ dist \in Layouts /\ copy \in Layouts /\ installed \in Layouts
    /\ server \in [pc : {"stopped", "starting", "serving", "refused"},
                   layout : Layouts, identity : Described \cup {Absent},
                   catalog : SUBSET Surfaces]
    /\ edits \in 0..MaxEdits /\ crashes \in 0..MaxCrashes

BinaryRead == packaging.pc = "read" => packaging.files["binary"] \in Binaries

InstalledVerified == installed = NoLayout \/ Verifies(installed)

StartsFromInstalled ==
    server.pc = "starting" => server.layout = installed /\ Verifies(installed)

IInv == /\ Typed /\ BinaryRead /\ InstalledVerified /\ StartsFromInstalled
        /\ IdentityIsOwn

-------------------------------------------------------------------------------
(* Layouts. *)

\* A file copied from one layout to another, or torn, leaves a layout.
LEMMA FileReplaced ==
    ASSUME NEW l \in Layouts, NEW k \in Layouts, NEW f \in Files
    PROVE  /\ [l EXCEPT ![f] = k[f]] \in Layouts
           /\ [l EXCEPT ![f] = Torn] \in Layouts
<1>1. f = "binary" \/ f = "manifest" \/ f = "descriptor"
  BY DEF Files
<1>2. Torn \in BinaryFiles /\ Torn \in ManifestFiles /\ Torn \in DescriptorFiles
  BY DEF BinaryFiles, ManifestFiles, DescriptorFiles
<1> QED
  BY <1>1, <1>2 DEF Layouts, Files

\* The empty layout, and the states of the tool and of the server that hold it.
LEMMA Empty ==
    /\ NoLayout \in Layouts /\ NoLayout["binary"] = Absent
    /\ NoPackaging \in [pc : {"idle", "read", "write"}, next : 1..3, open : BOOLEAN,
                        files : Layouts]
    /\ NoServer \in [pc : {"stopped", "starting", "serving", "refused"},
                     layout : Layouts, identity : Described \cup {Absent},
                     catalog : SUBSET Surfaces]
    /\ NoPackaging.pc = "idle" /\ NoServer.pc = "stopped"
<1>1. Absent \in BinaryFiles /\ Absent \in ManifestFiles /\ Absent \in DescriptorFiles
  BY DEF BinaryFiles, ManifestFiles, DescriptorFiles
<1>2. NoLayout \in Layouts /\ NoLayout["binary"] = Absent
  BY <1>1 DEF NoLayout, Layouts, Files
<1> QED
  BY <1>2 DEF NoPackaging, NoServer

\* The manifest file, and the descriptor of a binary and a manifest, complete a
\* layout that has the binary.
LEMMA AssembledTyped ==
    ASSUME NEW files \in Layouts, files["binary"] \in Binaries, NEW m \in Manifests
    PROVE  /\ Assembled(files, m) \in [pc : {"idle", "read", "write"}, next : 1..3,
                                       open : BOOLEAN, files : Layouts]
           /\ Assembled(files, m).pc # "read"
<1>1. CASE m.kind = "unloadable"
  BY <1>1, Empty DEF Assembled
<1>2. CASE m.kind # "unloadable"
  <2> DEFINE b == files["binary"]
             full == [files EXCEPT !["manifest"] = ManifestFile(m),
                                   !["descriptor"] = Descriptor(b, m)]
  <2>1. m \in Packageable
    BY <1>2 DEF Packageable
  <2>2. ManifestFile(m) \in ManifestFiles /\ Descriptor(b, m) \in DescriptorFiles
    <3>1. ManifestFile(m) \in ManifestFiles
      BY <2>1 DEF ManifestFiles
    <3>2. Descriptor(b, m) \in {Descriptor(c, m) : c \in Binaries}
      OBVIOUS
    <3>3. Descriptor(b, m) \in DescriptorFiles
      BY <2>1, <3>2 DEF DescriptorFiles, Described
    <3> QED
      BY <3>1, <3>3
  <2>3. full \in Layouts
    BY <2>2 DEF Layouts, Files
  <2>4. Assembled(files, m) = [NoPackaging EXCEPT !.pc = "write", !.files = full]
    BY <1>2 DEF Assembled
  <2> HIDE DEF full
  <2> QED
    BY <2>3, <2>4, Empty
<1> QED
  BY <1>1, <1>2

\* What verifies describes its binary, which was built, and its manifest.
LEMMA VerifiedLayout ==
    ASSUME NEW l \in Layouts, Verifies(l)
    PROVE  /\ l["binary"] \in Binaries
           /\ l["descriptor"] \in Described
           /\ l["descriptor"].artifactDigest = l["binary"]
           /\ l["descriptor"].manifestDigest = l["manifest"].manifest
<1> DEFINE d == l["descriptor"]
<1>1. d = Descriptor(l["binary"], l["manifest"].manifest)
  BY DEF Verifies
<1>2. /\ d.is = "descriptor" /\ d.artifactDigest = l["binary"]
      /\ d.manifestDigest = l["manifest"].manifest
  BY <1>1 DEF Descriptor
<1>3. d \in Described
  <2>1. d \in DescriptorFiles
    BY DEF Layouts
  <2> HIDE DEF d
  <2>2. d # Absent /\ d # Torn
    BY <1>2 DEF Absent, Torn
  <2> QED
    BY <2>1, <2>2 DEF DescriptorFiles
<1>4. PICK b \in Binaries, m \in Packageable : d = Descriptor(b, m)
  BY <1>3 DEF Described
<1>5. d.artifactDigest = b
  BY <1>4 DEF Descriptor
<1> QED
  BY <1>2, <1>3, <1>5

-------------------------------------------------------------------------------
(* The steps. *)

\* A checkout before it is built, with nothing installed.
LEMMA InitKept == Init => IInv
<1> SUFFICES ASSUME Init PROVE IInv
  OBVIOUS
<1>1. Typed
  <2>1. edits \in 0..MaxEdits /\ crashes \in 0..MaxCrashes
    BY ArtifactAssumption DEF Init
  <2> QED
    BY <2>1, Empty DEF Init, Typed
<1> QED
  BY <1>1, Empty DEF Init, IInv, BinaryRead, InstalledVerified, StartsFromInstalled,
                     IdentityIsOwn

\* The tool's steps and the edits of the checkout leave host and process alone.
LEMMA AtTheCheckout ==
    ASSUME IInv, Typed', BinaryRead', UNCHANGED <<installed, server>> PROVE IInv'
  BY DEF IInv, InstalledVerified, StartsFromInstalled, IdentityIsOwn

\* An edit touches the checkout only.
LEMMA EditKept == IInv /\ Edit => IInv'
<1> SUFFICES ASSUME IInv, Edit PROVE IInv'
  OBVIOUS
<1>1. edits' \in 0..MaxEdits
  BY ArtifactAssumption DEF IInv, Typed, Edit
<1>2. Typed' /\ BinaryRead'
  BY <1>1 DEF IInv, Typed, BinaryRead, Edit, hostVars
<1> QED
  BY <1>2, AtTheCheckout DEF Edit, hostVars

\* A build leaves a binary that holds the manifest of its time.
LEMMA BuildKept == IInv /\ Build => IInv'
<1> SUFFICES ASSUME IInv, Build PROVE IInv'
  OBVIOUS
<1>1. built' \in Binaries
  BY DEF IInv, Typed, Build, Binaries
<1>2. Typed' /\ BinaryRead'
  BY <1>1 DEF IInv, Typed, BinaryRead, Build, hostVars
<1> QED
  BY <1>2, AtTheCheckout DEF Build, hostVars

\* The tool reads the binary that was built.
LEMMA ReadBinaryKept == IInv /\ ReadBinary => IInv'
<1> SUFFICES ASSUME IInv, ReadBinary PROVE IInv'
  OBVIOUS
<1> DEFINE files == [NoLayout EXCEPT !["binary"] = built]
<1>1. built \in Binaries /\ built \in BinaryFiles
  BY DEF IInv, Typed, ReadBinary, BinaryFiles
<1>2. files \in Layouts /\ files["binary"] = built
  BY <1>1, Empty DEF Layouts, Files
<1>3. packaging' = [NoPackaging EXCEPT !.pc = "read", !.files = files]
  BY Empty DEF ReadBinary, NoPackaging
<1> HIDE DEF files
<1>4. /\ packaging' \in [pc : {"idle", "read", "write"}, next : 1..3, open : BOOLEAN,
                         files : Layouts]
      /\ packaging'.files = files
  BY <1>2, <1>3, Empty
<1>5. Typed' /\ BinaryRead'
  BY <1>1, <1>2, <1>4 DEF IInv, Typed, BinaryRead, ReadBinary, hostVars
<1> QED
  BY <1>5, AtTheCheckout DEF ReadBinary, hostVars

\* It reads a manifest that may be a later one, and describes the two.
LEMMA ReadManifestKept == IInv /\ ReadManifest => IInv'
<1> SUFFICES ASSUME IInv, ReadManifest PROVE IInv'
  OBVIOUS
<1>1. /\ packaging.files \in Layouts /\ packaging.files["binary"] \in Binaries
      /\ checkout.manifest \in Manifests
  BY DEF IInv, Typed, BinaryRead, ReadManifest, Sources
<1>2. /\ packaging' \in [pc : {"idle", "read", "write"}, next : 1..3, open : BOOLEAN,
                         files : Layouts]
      /\ packaging'.pc # "read"
  BY <1>1, AssembledTyped DEF ReadManifest
<1>3. Typed' /\ BinaryRead'
  BY <1>2 DEF IInv, Typed, BinaryRead, ReadManifest, hostVars
<1> QED
  BY <1>3, AtTheCheckout DEF ReadManifest, hostVars

\* A write tears a file, then completes it with what was assembled.
LEMMA WriteKept == IInv /\ Write => IInv'
<1> SUFFICES ASSUME IInv, Write PROVE IInv'
  OBVIOUS
<1>1. /\ packaging.next \in 1..3 /\ packaging.files \in Layouts /\ dist \in Layouts
      /\ packaging \in [pc : {"idle", "read", "write"}, next : 1..3, open : BOOLEAN,
                        files : Layouts]
  BY DEF IInv, Typed
<1>2. WriteOrder[packaging.next] \in Files /\ Len(WriteOrder) = 3
  BY <1>1 DEF WriteOrder, Files
<1>3. dist' \in Layouts
  <2> DEFINE f == WriteOrder[packaging.next]
  <2>1. dist' = [dist EXCEPT ![f] = IF packaging.open THEN packaging.files[f] ELSE Torn]
    BY DEF Write, WriteFile
  <2>2. f \in Files
    BY <1>2
  <2> HIDE DEF f
  <2>3. CASE packaging.open
    <3>1. dist' = [dist EXCEPT ![f] = packaging.files[f]]
      BY <2>1, <2>3
    <3> QED
      BY <1>1, <2>2, <3>1, FileReplaced
  <2>4. CASE ~packaging.open
    <3>1. dist' = [dist EXCEPT ![f] = Torn]
      BY <2>1, <2>4
    <3> QED
      BY <1>1, <2>2, <3>1, FileReplaced
  <2> QED
    BY <2>3, <2>4
<1>4. /\ packaging' \in [pc : {"idle", "read", "write"}, next : 1..3, open : BOOLEAN,
                         files : Layouts]
      /\ packaging'.pc # "read"
  <2>1. packaging.pc = "write"
    BY DEF Write
  <2>2. \/ packaging' = [packaging EXCEPT !.open = TRUE]
        \/ packaging' = NoPackaging
        \/ /\ packaging.next # 3
           /\ packaging' = [packaging EXCEPT !.open = FALSE,
                                             !.next = packaging.next + 1]
    BY <1>2 DEF Write
  <2>3. packaging.next # 3 => packaging.next + 1 \in 1..3
    BY <1>1
  <2> QED
    BY <1>1, <2>1, <2>2, <2>3, Empty
<1>5. Typed' /\ BinaryRead'
  BY <1>3, <1>4 DEF IInv, Typed, BinaryRead, Write, hostVars
<1> QED
  BY <1>5, AtTheCheckout DEF Write, hostVars

\* A crash forgets what was read and leaves the files.
LEMMA CrashKept == IInv /\ Crash => IInv'
<1> SUFFICES ASSUME IInv, Crash PROVE IInv'
  OBVIOUS
<1>1. crashes' \in 0..MaxCrashes
  BY ArtifactAssumption DEF IInv, Typed, Crash
<1>2. Typed' /\ BinaryRead'
  BY <1>1, Empty DEF IInv, Typed, BinaryRead, Crash, hostVars
<1> QED
  BY <1>2, AtTheCheckout DEF Crash, hostVars

\* The host copies one file of a layout that may be half written.
LEMMA CopyFileKept == ASSUME NEW f \in Files PROVE IInv /\ CopyFile(f) => IInv'
<1> SUFFICES ASSUME IInv, CopyFile(f) PROVE IInv'
  OBVIOUS
<1>1. copy' \in Layouts
  BY FileReplaced DEF IInv, Typed, CopyFile
<1>2. Typed' /\ BinaryRead'
  BY <1>1 DEF IInv, Typed, BinaryRead, CopyFile
<1> QED
  BY <1>2, AtTheCheckout DEF CopyFile

\* The host verifies what it installs, while no process is starting.
LEMMA InstallKept == IInv /\ Install => IInv'
  BY DEF IInv, Typed, BinaryRead, InstalledVerified, StartsFromInstalled,
         IdentityIsOwn, Install

\* A process starts from an installed layout, which was verified.
LEMMA SpawnKept == IInv /\ Spawn => IInv'
<1> SUFFICES ASSUME IInv, Spawn PROVE IInv'
  OBVIOUS
<1>1. Verifies(installed) /\ installed \in Layouts
  BY DEF IInv, InstalledVerified, Typed, Spawn
<1>2. /\ server' \in [pc : {"stopped", "starting", "serving", "refused"},
                      layout : Layouts, identity : Described \cup {Absent},
                      catalog : SUBSET Surfaces]
      /\ server'.pc = "starting" /\ server'.layout = installed
  BY <1>1, Empty DEF Spawn
<1>3. Typed' /\ BinaryRead' /\ InstalledVerified' /\ StartsFromInstalled'
  BY <1>1, <1>2 DEF IInv, Typed, BinaryRead, InstalledVerified, StartsFromInstalled,
                    Spawn, hostVars
<1>4. IdentityIsOwn'
  BY <1>2 DEF IdentityIsOwn
<1> QED
  BY <1>3, <1>4 DEF IInv

\* The process reads the descriptor of the layout it was started from, which was
\* verified: it describes the binary that is running.
LEMMA NewServerKept == IInv /\ NewServer => IInv'
<1> SUFFICES ASSUME IInv, NewServer PROVE IInv'
  OBVIOUS
<1> DEFINE layout == server.layout
           binary == layout["binary"]
           m == binary.embeds
           identity == installed["descriptor"]
           Servers == [pc : {"stopped", "starting", "serving", "refused"},
                       layout : Layouts, identity : Described \cup {Absent},
                       catalog : SUBSET Surfaces]
<1>1. /\ server \in Servers /\ layout \in Layouts /\ layout = installed
      /\ Verifies(layout)
  BY DEF IInv, Typed, StartsFromInstalled, NewServer
<1>2. /\ binary \in Binaries /\ identity \in Described
      /\ identity.artifactDigest = binary
      /\ identity.manifestDigest = layout["manifest"].manifest
  BY <1>1, VerifiedLayout
<1>3. m.surface \in SUBSET Surfaces
  <2>1. PICK source \in Sources : binary = Binary(source)
    BY <1>2 DEF Binaries
  <2>2. m \in Manifest
    BY <2>1, ArtifactAssumption DEF Binary, Sources
  <2> QED
    BY <2>2 DEF Manifest
<1>4. CASE Accepts(m, identity)
  <2>1. server' = [server EXCEPT !.pc = "serving", !.identity = identity,
                                 !.catalog = m.surface]
    BY <1>4 DEF NewServer, BuildCatalog
  <2>2. identity.manifestDigest = m /\ identity.agent = m.agent
    BY <1>4 DEF Accepts
  <2> HIDE DEF identity, m
  <2>3. /\ server' \in Servers /\ server'.pc = "serving"
        /\ server'.layout = layout /\ server'.identity = identity
        /\ server'.catalog = m.surface
    BY <1>1, <1>2, <1>3, <2>1
  <2>4. IdentityIsOwn'
    <3>1. /\ server'.layout["binary"] = binary /\ binary.embeds = m
          /\ server'.layout["manifest"].manifest = m
      BY <1>2, <2>2, <2>3 DEF m
    <3> QED
      BY <1>2, <2>2, <2>3, <3>1 DEF IdentityIsOwn
  <2> QED
    BY <2>3, <2>4 DEF IInv, Typed, BinaryRead, InstalledVerified,
                      StartsFromInstalled, NewServer, hostVars
<1>5. CASE ~Accepts(m, identity)
  <2>1. server' = [server EXCEPT !.pc = "refused"]
    BY <1>5 DEF NewServer
  <2>2. server' \in Servers /\ server'.pc = "refused"
    BY <1>1, <2>1
  <2> QED
    BY <2>2 DEF IInv, Typed, BinaryRead, InstalledVerified, StartsFromInstalled,
                IdentityIsOwn, NewServer, hostVars
<1> QED
  BY <1>4, <1>5

-------------------------------------------------------------------------------
(* The theorems. *)

\* The invariant holds in every state of every behaviour.
LEMMA Kept == Spec => []IInv
<1>1. Init => IInv
  BY InitKept
<1>2. IInv /\ [Next]_vars => IInv'
  <2> SUFFICES ASSUME IInv, [Next]_vars PROVE IInv'
    OBVIOUS
  <2>1. CASE UNCHANGED vars
    BY <2>1 DEF vars, hostVars, IInv, Typed, BinaryRead, InstalledVerified,
                StartsFromInstalled, IdentityIsOwn
  <2> QED
    BY <2>1, EditKept, BuildKept, ReadBinaryKept, ReadManifestKept, WriteKept,
       CrashKept, CopyFileKept, InstallKept, SpawnKept, NewServerKept DEF Next
<1> QED
  BY <1>1, <1>2, PTL DEF Spec

\* Whatever the layout directory, the host's copy and the installed layout hold,
\* and a process is started from, is a file of its kind, whole or torn; what a
\* process says of itself is a whole descriptor.
THEOREM ArtifactTypeCorrect == Spec => []TypeOK
<1>1. \A l \in Layouts : IsLayout(l)
  <2> TAKE l \in Layouts
  <2>1. /\ Content("binary") = BinaryFiles /\ Content("manifest") = ManifestFiles
        /\ Content("descriptor") = DescriptorFiles
    BY DEF Content, BinaryFiles, ManifestFiles, DescriptorFiles
  <2> QED
    BY <2>1 DEF IsLayout, Layouts, Files
<1>2. IInv => TypeOK
  BY <1>1 DEF IInv, Typed, TypeOK
<1> QED
  BY <1>2, Kept, PTL

\* A serving process advertises the digests of its own binary and manifest, that
\* manifest's agent and the surface of the verified manifest file.
THEOREM IdentitiesAreOwn == Spec => []IdentityIsOwn
<1>1. IInv => IdentityIsOwn
  BY DEF IInv
<1> QED
  BY <1>1, Kept, PTL

===============================================================================
