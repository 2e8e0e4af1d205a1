CONSTANTS
  HookNames <- MCHookNames
  RegistryHooks <- MCRegistryHooks
  Generic = "RegQueryValueEx"
  Mods <- MCMods
  ModuleOf <- MCModuleOf
  MaxTargets = 2
SPECIFICATION Spec
INVARIANTS
  WrappedOnlyIfTargeted
