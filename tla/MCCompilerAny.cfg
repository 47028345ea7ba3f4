CONSTANTS
  f = f
  g = g
  n = n
  t = t
  u = u
  d = d
  a = a
  b = b
  Fields = {f, g, n}
  Tags = {t, u}
  Derived = {d}
  Regions = {a, b}
  Structs <- MCStructs
  Wrap = 4
  MaxMoves = 4
  body = body
  tag = tag
  Entries = {body, tag}
  AuthTags = {tag, u}
  Axes = {"size", "align", "mutate", "auth"}
  Values <- MCValues
  Numbers = {2, 3, 8}
  root = root
  lib = lib
  leaf = leaf
  Files = {root, lib, leaf}
  Root = root
  Directives <- MCDirectives
SPECIFICATION AnyStructSpec
INVARIANT TransmittableIsCurrent
CHECK_DEADLOCK FALSE
