------------------------------ MODULE Registries ------------------------------
(***************************************************************************)
(* The extension and the package registry (extension_manager.rs,           *)
(* package_registry.rs) as the server builds them when it starts           *)
(* (server.rs, RuntimeServerState::with_endpoint): the directories of      *)
(* SKENION_EXTENSION_PATH and SKENION_PACKAGE_PATH are read one after the  *)
(* other, look by look, while other programs may be writing them; then the *)
(* diagnostics are recorded in the log and the server begins to serve.     *)
(* From then on the registries never change and the log goes on as         *)
(* RuntimeLogs!LogNext says.                                               *)
(*                                                                         *)
(* A directory holds at most one manifest of each sort and some files.  A  *)
(* manifest file is absent, unreadable, no JSON ("garbage"), JSON of       *)
(* another shape ("misfit"), or a manifest.                                *)
(***************************************************************************)
EXTENDS RuntimeLogs, FiniteSets

CONSTANTS
    ExtensionDirs,  \* the directories of the two search paths, in order
    PackageDirs,
    Contents,       \* directory -> [path, extension, package, files, links]: what it may hold
    MaxChanges,     \* bound: directories rewritten during the scan
    NoPath,         \* a directory that cannot be resolved
    NoFile          \* no artifact for this platform

ASSUME SearchPathsAssumption ==
    ExtensionDirs \in Seq(DOMAIN Contents) /\ PackageDirs \in Seq(DOMAIN Contents)
\* A manifest's list of files holds paths.
ASSUME FilesAssumption ==
    \A d \in DOMAIN Contents : \A c \in Contents[d] :
      c.extension.state = "manifest" => NoFile \notin c.extension.manifest.files

VARIABLES
    disk,         \* directory -> contents
    changes,
    scan,         \* "extensions", "roots", "packages", "record" or "serving"
    dir,          \* index of the directory being read
    look,         \* what the scan has read of it so far
    extensions,   \* descriptors: [manifest, status, witness]
    warnings,     \* directories without an extension manifest
    roots,        \* canonical paths of the package directories
    packages,     \* entries: [root, manifest, errors]
    rootErrors    \* error diagnostics: <<index of the root, code>>

registryVars == <<disk, changes, scan, dir, look, extensions, warnings, roots, packages, rootErrors>>
registriesVars == <<registryVars, logStoreVars>>

Directories == ToSet(ExtensionDirs) \union ToSet(PackageDirs)
Nothing == [step |-> "start", state |-> "absent", manifest |-> NoFile]

RegistriesInit ==
    /\ LogInit
    /\ disk \in {f \in [Directories -> UNION {Contents[d] : d \in Directories}] :
                 \A d \in Directories : f[d] \in Contents[d]}
    /\ changes = 0
    /\ scan = "extensions"
    /\ dir = 1
    /\ look = Nothing
    /\ extensions = <<>>
    /\ warnings = {}
    /\ roots = <<>>
    /\ packages = <<>>
    /\ rootErrors = {}

\* Someone else rewrites a directory.
Rewrite(d, contents) ==
    /\ scan # "serving"
    /\ changes < MaxChanges
    /\ disk' = [disk EXCEPT ![d] = contents]
    /\ changes' = changes + 1
    /\ UNCHANGED <<scan, dir, look, extensions, warnings, roots, packages, rootErrors, logStoreVars>>

----------------------------------------------------------------------------
(* Extensions                                                              *)

\* A path of a manifest is [name, up]: up if it is absolute or leaves its directory.
relative_package_path(path) == ~path.up

missing_file(c, path) == ~relative_package_path(path) \/ path.name \notin c.files

validate_native_binding(m, c) ==
    \/ ~m.entrypoint
    \/ m.artifact = NoFile
    \/ m.artifact # NoFile /\ missing_file(c, m.artifact)

\* Faulty variant: looks at the binding of native-runtime extensions only.
invalid_native_by_kind(m, c) == m.kind = "native-runtime" /\ (~m.native \/ validate_native_binding(m, c))

invalid_native(m, c) ==
    \/ m.kind = "native-runtime" /\ ~m.native
    \/ m.native /\ validate_native_binding(m, c)

\* TRUE if the manifest earns an error.
validate_manifest(m, c) ==
    \/ ~m.valid   \* contract, schema, schema version or a node definition
    \/ ~m.abi
    \/ \E path \in m.files : missing_file(c, path)
    \/ invalid_native(m, c)

Descriptor(manifest, status, c) == [manifest |-> manifest, status |-> status, witness |-> c]

NextDir == dir' = dir + 1 /\ look' = Nothing

\* scan_registry: manifest_path.exists()
LookForExtension ==
    /\ scan = "extensions" /\ dir <= Len(ExtensionDirs) /\ look.step = "start"
    /\ IF disk[ExtensionDirs[dir]].extension.state = "absent"
       THEN warnings' = warnings \union {dir} /\ NextDir
       ELSE look' = [look EXCEPT !.step = "found"] /\ UNCHANGED <<warnings, dir>>
    /\ UNCHANGED <<disk, changes, scan, extensions, roots, packages, rootErrors, logStoreVars>>

\* read_extension_package: contents that cannot be read, parsed or decoded make
\* a failed extension.
ReadExtension ==
    /\ scan = "extensions" /\ look.step = "found"
    /\ LET file == disk[ExtensionDirs[dir]].extension
       IN  IF file.state = "manifest"
           THEN look' = [step |-> "read", state |-> "manifest", manifest |-> file.manifest]
                /\ UNCHANGED <<extensions, dir>>
           ELSE /\ extensions' = Append(extensions, Descriptor(NoFile, "failed", disk[ExtensionDirs[dir]]))
                /\ NextDir
    /\ UNCHANGED <<disk, changes, scan, warnings, roots, packages, rootErrors, logStoreVars>>

\* descriptor_from_manifest, with the files as they are by now.
DescribeExtension ==
    /\ scan = "extensions" /\ look.step = "read"
    /\ LET c == disk[ExtensionDirs[dir]]
       IN  extensions' = Append(extensions,
                                Descriptor(look.manifest,
                                           IF validate_manifest(look.manifest, c) THEN "failed" ELSE "loaded", c))
    /\ NextDir
    /\ UNCHANGED <<disk, changes, scan, warnings, roots, packages, rootErrors, logStoreVars>>

EndExtensions ==
    /\ scan = "extensions" /\ dir > Len(ExtensionDirs)
    /\ scan' = "roots" /\ dir' = 1
    /\ UNCHANGED <<disk, changes, look, extensions, warnings, roots, packages, rootErrors, logStoreVars>>

----------------------------------------------------------------------------
(* Packages                                                                *)

Resolved(i) == roots[i] # NoPath
\* Faulty variant: finds a root inside an earlier one only.
overlapping_one_way(i, j) == roots[i] # roots[j] /\ IsPrefix(roots[i], roots[j])
overlapping(i, j) == roots[i] # roots[j] /\ (IsPrefix(roots[i], roots[j]) \/ IsPrefix(roots[j], roots[i]))

\* The later root of a pair gets the diagnostic.
root_overlap_diagnostics ==
    {<<p[2], IF roots[p[1]] = roots[p[2]] THEN "duplicate" ELSE "overlap">> :
       p \in {q \in (1 .. Len(roots)) \X (1 .. Len(roots)) :
                 /\ q[1] < q[2] /\ Resolved(q[1]) /\ Resolved(q[2])
                 /\ roots[q[1]] = roots[q[2]] \/ overlapping(q[1], q[2])}}

duplicate_root_indexes ==
    {j \in 1 .. Len(roots) : Resolved(j) /\ \E i \in 1 .. j - 1 : roots[i] = roots[j]}

\* root_infos: all roots are resolved before any is read.
ResolveRoots ==
    /\ scan = "roots"
    /\ roots' = [i \in DOMAIN PackageDirs |-> disk[PackageDirs[i]].path]
    /\ scan' = "packages"
    /\ UNCHANGED <<disk, changes, dir, look, extensions, warnings, packages, rootErrors, logStoreVars>>

RootError(code) ==
    /\ rootErrors' = rootErrors \union {<<dir, code>>}
    /\ NextDir
    /\ UNCHANGED packages

\* is_file for both manifests: one package manifest and nothing else.
LookForPackage ==
    /\ scan = "packages" /\ dir <= Len(PackageDirs) /\ look.step = "start"
    /\ LET c == disk[PackageDirs[dir]]
           package == c.package.state # "absent"
           extension == c.extension.state # "absent"
       IN  CASE dir \in duplicate_root_indexes -> NextDir /\ UNCHANGED <<packages, rootErrors>>
             [] dir \notin duplicate_root_indexes /\ ~Resolved(dir) -> RootError("unreadable")
             [] dir \notin duplicate_root_indexes /\ Resolved(dir) /\ package /\ extension -> RootError("both-manifests")
             [] dir \notin duplicate_root_indexes /\ Resolved(dir) /\ ~package /\ extension -> RootError("extension-only")
             [] dir \notin duplicate_root_indexes /\ Resolved(dir) /\ ~package /\ ~extension -> RootError("missing")
             [] OTHER -> look' = [look EXCEPT !.step = "found"] /\ UNCHANGED <<dir, packages, rootErrors>>
    /\ UNCHANGED <<disk, changes, scan, extensions, warnings, roots, logStoreVars>>

ReadPackage ==
    /\ scan = "packages" /\ look.step = "found"
    /\ LET file == disk[PackageDirs[dir]].package
       IN  IF file.state = "manifest"
           THEN look' = [step |-> "read", state |-> "manifest", manifest |-> file.manifest]
                /\ UNCHANGED <<dir, packages, rootErrors>>
           ELSE RootError(file.state)
    /\ UNCHANGED <<disk, changes, scan, extensions, warnings, roots, logStoreVars>>

\* A path that resolves must resolve inside the root; one that is not there is accepted.
validate_package_relative_path(c, path) == path.up \/ path.name \in c.links

package_path_diagnostics(m, c) == {path \in m.files : validate_package_relative_path(c, path)}

\* package_entry_from_manifest: errors of the manifest do not keep it from the list.
EnterPackage ==
    /\ scan = "packages" /\ look.step = "read"
    /\ packages' = Append(packages,
                          [root |-> dir, manifest |-> look.manifest,
                           error |-> ~look.manifest.valid
                                     \/ package_path_diagnostics(look.manifest, disk[PackageDirs[dir]]) # {}])
    /\ NextDir
    /\ UNCHANGED <<disk, changes, scan, extensions, warnings, roots, rootErrors, logStoreVars>>

\* The same id and version twice.
duplicate_package_diagnostics ==
    {<<packages[j].root, "duplicate-package">> :
       j \in {j \in DOMAIN packages : \E i \in 1 .. j - 1 : packages[i].manifest.id = packages[j].manifest.id}}

EndPackages ==
    /\ scan = "packages" /\ dir > Len(PackageDirs)
    /\ rootErrors' = rootErrors \union root_overlap_diagnostics \union duplicate_package_diagnostics
    /\ scan' = "record"
    /\ UNCHANGED <<disk, changes, dir, look, extensions, warnings, roots, packages, logStoreVars>>

----------------------------------------------------------------------------
(* The snapshots the server works with until it ends                       *)

extensions_ok == \A i \in DOMAIN extensions : extensions[i].status = "loaded"

has_error == rootErrors # {} \/ \E i \in DOMAIN packages : packages[i].error
registry_state ==
    IF has_error THEN "degraded" ELSE IF packages = <<>> THEN "empty" ELSE "ready"

\* registry_log_diagnostics of both scans; the extensions come first.
LogDiagnostics ==
    [i \in 1 .. Cardinality(warnings) |-> "warning"]
    \o [i \in 1 .. Cardinality({i \in DOMAIN extensions : extensions[i].status = "failed"}) |-> "error"]
    \o [i \in 1 .. Cardinality(rootErrors) + Cardinality({i \in DOMAIN packages : packages[i].error}) |-> "error"]

\* record_runtime_diagnostics; nobody has subscribed yet.
Serve ==
    /\ scan = "record"
    /\ LET levels == LogDiagnostics
           Event(i) == [id |-> nextLogId + i - 1, level |-> levels[i]]
       IN  /\ backlog' = FoldLeft(Retained, backlog, [i \in DOMAIN levels |-> Event(i)])
           /\ nextLogId' = nextLogId + Len(levels)
    /\ scan' = "serving"
    /\ UNCHANGED <<disk, changes, dir, look, extensions, warnings, roots, packages, rootErrors, answering, unsent, logStream>>

RegistriesNext ==
    \/ \E d \in Directories : \E c \in Contents[d] : Rewrite(d, c)
    \/ LookForExtension \/ ReadExtension \/ DescribeExtension \/ EndExtensions
    \/ ResolveRoots \/ LookForPackage \/ ReadPackage \/ EnterPackage \/ EndPackages \/ Serve

RegistriesSpec == RegistriesInit /\ [][RegistriesNext]_registriesVars

----------------------------------------------------------------------------
\* An extension is listed as loaded only if everything its manifest names was
\* there when the manifest was judged, a native artifact for this platform
\* included, whatever kind of extension it is (descriptor_from_manifest).
LoadedIsUsable ==
    \A i \in DOMAIN extensions :
      LET e == extensions[i]
          m == e.manifest
      IN  e.status = "loaded" =>
            /\ m.valid /\ m.abi
            /\ \A path \in m.files \union (IF m.native THEN {m.artifact} ELSE {}) :
                 path # NoFile /\ ~path.up /\ path.name \in e.witness.files
            /\ m.kind = "native-runtime" => m.native

\* A package registry that calls itself ready lists one package for every
\* configured root, no two of them alike or inside one another, even if the
\* directories change during the scan.
ReadyIsWhole ==
    (scan = "serving" /\ registry_state = "ready") =>
      /\ \A i \in DOMAIN PackageDirs : \E j \in DOMAIN packages : packages[j].root = i /\ packages[j].manifest.valid
      /\ \A i, j \in DOMAIN packages :
           i # j => /\ packages[i].manifest.id # packages[j].manifest.id
                    /\ ~IsPrefix(roots[packages[i].root], roots[packages[j].root])
=============================================================================
