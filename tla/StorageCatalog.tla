--------------------------- MODULE StorageCatalog ---------------------------
(***************************************************************************)
(* What the storage console may measure and what it may remove             *)
(* (plugins/storage-console/catalog.js).  A path is the sequence of its    *)
(* components; labels, descriptions and budgets are left out.              *)
(***************************************************************************)
EXTENDS Sequences, SequencesExt, Absent

(* An entry without a mode is guarded.                                     *)
Entry(id, scope, cleanup, path) ==
  [id |-> id, scope |-> scope, path |-> path,
   safety |-> IF cleanup = None THEN "guarded" ELSE "safe", cleanup |-> cleanup]

(* under(): a root that is not known has nothing below it.                 *)
Under(base, parts) == IF base = None THEN None ELSE base \o parts

ProjectTargets(roots) ==
  LET below(parts) == Under(roots.workspace, parts)
  IN {Entry("newpi-target", "newpi", "remove-directory",
            below(<<"src-tauri", "target">>)),
      Entry("newpi-node-modules", "newpi", "remove-directory",
            below(<<"node_modules">>)),
      Entry("newpi-pnpm-store", "newpi", "remove-directory",
            below(<<".pnpm-store">>))}

StateTargets(roots) ==
  LET guarded(id, path) == Entry(id, "newpi", None, path)
      cached(id, parts) == Entry(id, "newpi", "remove-directory",
                                 Under(roots.home, <<"Library">> \o parts))
  IN {guarded("newpi-state", roots.state),
      guarded("newpi-plugins", Under(roots.state, <<"plugins">>)),
      guarded("newpi-pb-data", roots.data),
      guarded("newpi-pb-snapshots", roots.snapshots),
      guarded("newpi-backups", roots.backups),
      cached("newpi-app-cache", <<"Caches", "io.newpi.desktop">>),
      cached("newpi-webkit", <<"WebKit", "io.newpi.desktop">>)}

HarnessTargets(roots) ==
  LET guarded(id, parts) == Entry(id, "dsh", None, Under(roots.dshHome, parts))
  IN {guarded("dsh-sessions", <<"sessions">>),
      guarded("dsh-attachments", <<"attachments">>),
      guarded("dsh-storages", <<"storages">>),
      guarded("dsh-profile-modules", <<"profiles", "node_modules">>)}

Emptied(roots, id, parts) ==
  Entry(id, "toolchain", "clear-contents", Under(roots.home, parts))

(* What the package managers keep.                                         *)
PackageCaches(roots) ==
  {Entry("rustup-toolchains", "toolchain", None,
         Under(roots.home, <<".rustup", "toolchains">>)),
   Emptied(roots, "cargo-registry", <<".cargo", "registry">>),
   Emptied(roots, "npm-cacache", <<".npm", "_cacache">>),
   Emptied(roots, "npm-npx", <<".npm", "_npx">>),
   Emptied(roots, "npm-logs", <<".npm", "_logs">>),
   Emptied(roots, "pnpm-home", <<"Library", "pnpm">>),
   Emptied(roots, "pnpm-cache", <<"Library", "Caches", "pnpm">>),
   Emptied(roots, "homebrew-cache", <<"Library", "Caches", "Homebrew">>),
   Emptied(roots, "node-gyp-cache", <<"Library", "Caches", "node-gyp">>)}

(* What the build tools keep.                                              *)
BuildCaches(roots) ==
  LET removed(id, name) ==
        Entry(id, "toolchain", "remove-directory",
              Under(roots.home, <<"Library", "Developer", "Xcode", name>>))
      cached(id, name) == Emptied(roots, id, <<"Library", "Caches", name>>)
  IN {cached("playwright-browsers", "ms-playwright"),
      cached("playwright-mcp", "ms-playwright-mcp"),
      cached("swiftpm-cache", "org.swift.swiftpm"),
      cached("tool-updater-caches", "dotslash"),
      removed("xcode-derived-data", "DerivedData"),
      removed("xcode-device-support", "iOS DeviceSupport"),
      Emptied(roots, "user-cache", <<".cache">>),
      Emptied(roots, "gradle-caches", <<".gradle", "caches">>),
      Emptied(roots, "pub-cache", <<".pub-cache">>),
      Emptied(roots, "dart-server", <<".dartServer">>),
      Emptied(roots, "microsandbox", <<".microsandbox">>)}

OtherTargets(roots) ==
  LET guarded(id, parts) == Entry(id, "other", None, Under(roots.home, parts))
      support(id, parts) ==
        guarded(id, <<"Library", "Application Support">> \o parts)
  IN {guarded("core-simulator",
              <<"Library", "Developer", "CoreSimulator", "Devices">>),
      guarded("android-avd", <<".android", "avd">>),
      support("claude-vm", <<"Claude", "vm_bundles">>),
      support("autodesk-webdeploy", <<"Autodesk", "webdeploy">>),
      support("chrome-profile", <<"Google", "Chrome">>)}

(* buildCatalog(): without a project, its targets are not offered.         *)
BuildCatalog(roots) ==
  (IF roots.workspace = None THEN {} ELSE ProjectTargets(roots))
    \cup StateTargets(roots) \cup HarnessTargets(roots)
    \cup PackageCaches(roots) \cup BuildCaches(roots)
    \cup OtherTargets(roots)

(* isRemovable() that only looks for a path.                               *)
RemovableByPath(entry) == entry.path # None

(* isRemovable(): safe, with a mode of removal and a path.                 *)
Removable(entry) ==
  /\ entry.safety = "safe"
  /\ entry.cleanup \in {"remove-directory", "clear-contents"}
  /\ entry.path # None

(* Paths.  A path is at or below another one when it extends it.           *)
AtOrBelow(path, ancestor) == IsPrefix(ancestor, path)
StrictlyInside(path, fence) == AtOrBelow(path, fence) /\ path # fence

(* assertFenced(): inside one of the roots NewPi was launched with.        *)
Fenced(path, roots) ==
  \E fence \in {roots.home, roots.workspace, roots.state, roots.dshHome} \ {None} :
    StrictlyInside(path, fence)
=============================================================================
