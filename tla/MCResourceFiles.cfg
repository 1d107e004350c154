SPECIFICATION Spec
CONSTANTS
    Lexical <- MCLexical
    YamlNames <- MCYamlNames
    RootName = "manifests"
INVARIANT ResourceFilesMatchSpec
