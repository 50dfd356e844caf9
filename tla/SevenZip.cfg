\* A tree of three folders and three files, two archives of others.
SPECIFICATION Spec
CONSTANTS
    f1 = f1
    f2 = f2
    f3 = f3
    sub = sub
    svn = svn
    Root = Root
    None = None
    File = {f1, f2, f3}
    Folder <- MCFolder
    Svn <- MCSvn
    Parent <- MCParent
    Archives <- MCArchives
INVARIANT TypeOK
PROPERTIES CompressedAll ArchiveKept ExtractedRight
