SPECIFICATION LineSpec
CONSTANTS
  ls = ls
  file = file
  echo = echo
  cd = cd
  builtin = builtin
  pwd = pwd
  exit = exit
  dash = dash
  one = one
  Name <- MCName
  Readable <- MCReadable
  Writable <- MCWritable
  Directory = {file}
  Builtin <- MCBuiltin
  Dash = dash
  Number <- MCNumber
  Lines <- MCLines
  NULL = NULL
INVARIANTS StartsInOrder OneChain BuiltinsInShell
